# A formal model of esp32-ota-https

TLA+ specifications of the over-the-air updater in `src/main`, checked with TLC
on small instances. TLAPS checks the theorems about them: every invariant and every action
property that a passing run checks is also proved for all values of the constants. Where the
code does not do what its documentation or a comment says, a property states what they say, and TLC
shows how it is violated: three such findings are among the runs, and ten more have a configuration each.

## The system

The application runs on an ESP32. It asks a web server every now and then which
firmware version it offers, downloads that version if it is another one than its
own, programs it into the next flash partition, switches the boot partition and
restarts.

| component | state | operations | interacts with |
|---|---|---|---|
| `iap.c` programming module | flags (initialized, session open), target partition, OTA handle, page buffer and index | `iap_init`, `iap_begin`, `iap_write`, `iap_commit`, `iap_abort` | called by the firmware body callback; calls the platform's OTA functions |
| `iap_https.c` updater | event group with two bits, one-shot timer, configuration, `has_iap_session`, `has_new_firmware`, byte count | `iap_https_init`, `iap_https_check_now`, two status queries, timer callback, task loop, metadata and firmware body callbacks | the application (calls, flags), the timer service (callback), `https_client` (calls and callbacks), `iap`, `wifi_sta` (event group) |
| `https_client.c` HTTP client | a context per request: buffer count, body count, content length, in-headers flag | `https_send_request`, `https_tls_callback`, two key/value parsers | calls `wifi_tls`, is called back for each packet, calls the body and error callbacks |
| `wifi_tls.c` TLS connection | mbedTLS contexts, socket, `is_valid` | create, free, connect, disconnect, send request | called by the updater and the HTTP client; blocks in reads and writes |
| `wifi_sta.c` Wi-Fi station | event group with the connected bit | init, event handler, query | event loop; the updater waits for its bit |
| `main.c` application | configuration | `app_main`, `init_wifi`, `init_ota`, event handler, LED loop | starts everything, polls two status flags |

What is hard about it: the updater task, the timer service and the application's
main task touch the same event group without a lock; a download can break off at
any byte, and a flash write, a commit or a timer command can fail with the steps
before it done; power can be cut between any two flash writes; and an answer may be
cut into packets anywhere. What makes the parts correct:

- *iap*: nothing is lost or repeated by the paging; only the partition that does
  not boot is written; only whole images are activated; buffer and handle are
  neither used after they are gone nor leaked.
- *iap_https*: a session holds the bytes of one download; the running code is not
  overwritten; polling goes on; a requested check is carried out; the status it reports is
  true; the device converges to the server's version and then rests.
- *https_client*: the callback gets the body from its first byte, in order, and its
  end once, however the answer is cut.
- *wifi_tls*: no byte of a server that has not passed the checks of its chain and its key reaches
  the callback; a context is used only with the connection it was set up for; between two requests
  neither sockets nor mbedTLS objects are held; answers come again when faults cease.
- *wifi_sta*: the bit says whether there is a connection, and after a disconnection the
  station comes back.
- *the timer*: there is one when polling is on and none when it is off, and its period
  is the interval the server has asked for.

## The modules

- `FirmwareSlots.tla` is the abstract promise: slots, one of which boots; the others
  may be programmed in any way; the boot choice moves only to a slot with an image.
- `Iap.tla` is `iap.c`. One action per function, but an operation that writes flash
  is cut at each write, as power may fail there: `call` says which operation is under
  way and `todo` what `iap_write` has yet to copy. `WriteChunk` is one turn of its
  loop. `page` stands for the buffer's contents, so `page_buffer_ix` is `Len(page)`;
  `cur_flash_address` is only logged by the code and is left out. `wrote_size` is the
  platform's write position of the OTA handle, `stream` is a history variable.
  `esp_ota_write` may fail after programming some of the bytes; `esp_ota_end` and
  `esp_ota_set_boot_partition` may fail; `Reset` may come at any point and keeps flash
  and boot choice.
- `IapHttps.tla` is `iap_https.c` on top of `iap.c`. It EXTENDS `Iap`, so that each call is that
  module's action, inside the callback that makes it, and `Iap`'s properties are stated of this
  client, too. `UpdaterInit`, `UpdaterNext` and `UpdaterSpec` are the specification of the two together.
  `ImagesAssumption`, `FragmentAssumption` and `StreamAssumption` say which of `Iap`'s clients
  it is: images are those of versions, blocks are pieces of them. `task` is the program counter of the updater task, cut at
  every blocking call, every access to the event group and every call into `iap`;
  `main` is the application's task. The timer, Wi-Fi, the server and power are
  actions of their own. `faulty` turns FALSE once and for all when faults cease.
  `check_for_updates_timer` is the handle with the state of its timer; `lost_timer` is a timer that still
  runs though the updater has let it go, as its deletion came late or was refused. `server_firmware_path`
  is the version whose image the path names: what is fetched may be that one, or
  what is there now. The version that runs is that of the image in the running partition; should that
  partition be programmed, the code may fail at any time and the chip restarts (`RunningCodeLost`).
- `HttpsClient.tla` is `https_client.c` on the read loop of `wifi_tls_send_request`.
  A byte is its position in the answer, so that a byte that is lost, repeated or
  taken from the wrong place shows. One action is one packet with everything
  `https_tls_callback` does about it, the callbacks it makes included.
- `Metadata.tla` is the two key/value parsers of `https_client.c` on texts. A cell is a key with its
  `=`, a number, a letter, the end of a line or the NUL, so that a text is a few cells
  and `strstr`, the end of a value and the cut to the room there is are what the code
  makes of them. The second half is the reference: the file as an operator publishes it. `Published` is the
  form it has: each key at most once, in any order, with a number or any path, and any line ends, the last of which may
  be missing.
- `PollTimer.tla` is the updater's turn from one wake-up to the next once more, with what
  `IapHttps` abstracts: `iap_https_metadata_body_callback` on texts, the conversion of the
  interval in words of `Word` values, and `iap_https_prepare_timer` cut at its calls. A
  FreeRTOS timer command waits in a queue (`queue`) until the timer service comes to it, or
  is refused when the queue stays full.
- `WifiTls.tla` is `wifi_tls.c` with the callers that decide when it is used: the check that gives up
  when it cannot connect, the download that does not, and `https_send_request` that may
  return before it comes to `wifi_tls_send_request`. The six mbedTLS objects of a context are
  set up and freed together (`mbedtls`); `session` is the socket whose handshake they have made,
  `server_fd` the number the code has, `open` the sockets there are, `peer` who is at the other end.
- `WifiSta.tla` is `wifi_sta.c` with the part of `main.c` that starts it and hands it events. The Wi-Fi
  driver is external: it posts the events of a connection in order, and the handler comes
  to them when it does.
- `WifiLink.tla` is what the station promises to those who wait for its bit. `WifiSta` implements it
  (`ProvidesLink`), and the two Wi-Fi actions of `IapHttps` are its actions: this is where the two meet.
- `MCIap.tla`, `MCIapHttps.tla`, `MCHttpsClient.tla`, `MCWifiTls.tla`, `MCPollTimer.tla` give the
  constants values for TLC; `WifiSta` has none.
- `IapProofs.tla`, `IapHttpsProofs.tla`, `HttpsClientProofs.tla`, `MetadataProofs.tla`, `WifiTlsProofs.tla`,
  `WifiStaProofs.tla` and `PollTimerProofs.tla` hold the theorems and their proofs.

Operators marked *Mutant* are plausible mistakes. They are used by no specification;
each shows that some property would notice it.

## The runs

| run | what it asks | result |
|---|---|---|
| `IapTwoOta` | any sequence of calls of `iap.c` with all its failures and power cuts | holds |
| `HttpsUnreliable` | the updater against a flaky world, with images of three bytes on pages of two: does it know what it runs, and are sessions and running code safe? | holds |
| `HttpsUnvalidated` | an `esp_ota_end` that accepts anything, reliable flash, one OTA partition, timers that fail, polling switched off and on: is only the image just downloaded activated? | holds |
| `HttpsConverges` | after any faults, failing timers included: does polling bring the device to the server's version, unless the timer is gone? | holds |
| `HttpsManualRestart` | polling and `auto_reboot` off: does one call of `iap_https_check_now` bring the device to the server's version, if it meets no running check? | holds |
| `ClientPackets` | all ways of cutting an answer into packets, both modes | holds |
| `TlsRequests` | request after request over one context, with every call failing and servers that are not the pinned one | holds |
| `StaReconnects` | the event handler, late by any number of events, against a driver that loses links and returns errors | holds |
| `TimerMetadata` | metadata in several orders, intervals that change, polling switched off and on, a late timer service and a full queue | holds |
| `HttpsFailedCommit` | does `iap_https_new_firmware_installed` tell the truth? | no, finding 1 |
| `ClientSplitHeaders` | is the body right when the headers are split? | no, finding 2 |
| `TimerWraps` | does the timer run at the interval, whatever that is? | no, finding 3 |

These further configurations check one property each, which states what a line of the documentation or a comment says; TLC
violates each of them within seconds (`tlc -config IapLostPage.cfg MCIap.tla`, and so on):

| configuration | of | what it asks | result |
|---|---|---|---|
| `HttpsLostWakeUp` | `MCIapHttps` | does polling go on? | no, finding 4 |
| `HttpsLostRequest` | `MCIapHttps` | is every request for a check carried out? | no, finding 5 |
| `HttpsStaleProgress` | `MCIapHttps` | does `iap_https_update_in_progress` tell the truth? | no, finding 6 |
| `IapLostPage` | `MCIap` | is what is activated all that was written? | no, finding 7 |
| `TimerStray` | `MCPollTimer` | is there no timer when polling is off? | no, finding 8 |
| `TlsKeyPrefix` | `MCWifiTls` | has a server that is listened to the pinned key? | no, finding 9 |
| `TlsOldHandshake` | `MCWifiTls` | does a connect that succeeds make a handshake? | no, finding 10 |
| `ClientText` | `MCHttpsClient` | is a whole body a terminated string? | no, finding 11 |
| `ClientEmptyBody` | `MCHttpsClient` | is the end of every body announced? | no, finding 12 |
| `ClientCutOff` | `MCHttpsClient` | is every request that goes wrong reported? | no, finding 13 |

The findings, each with the property that states what is documented and, where there is one, the weaker one that the
code does keep:

1. `has_new_firmware` is set, and the chip restarted, after a commit that failed
   (`iap_https.c:382-394`; `NewFirmwareIsInstalled`), although "a new firmware has been installed"
   is what `iap_https.h:87` says the flag reports.
2. `nofHeaderBytes` is an offset into the accumulated headers, and is used as one into the last
   packet (`https_client.c:239`; `DeliversBody`). Headers that come in one packet are no problem:
   `WholeHeadersDeliverBody`.
3. The conversion of seconds to ticks is done in 32 bits twice (`iap_https.c:236`, `238`;
   `RunsAtInterval`). With 100 ticks a second it wraps around from 42 950 s on, so that a device
   told to ask once a day asks every 500 s; a negative `INTERVAL=` is taken over as a huge unsigned
   one; and a period that comes to no ticks is asserted away by FreeRTOS. What fits is served:
   `PeriodIsInterval`.
4. "This module periodically checks for firmware updates by polling a web server" (`main.c:79-80`),
   but the one-shot timer is restarted before the bit is cleared (`iap_https.c:213-214`;
   `PollingAlive`). The comment there explains the order by the opposite race; in this one, where
   the timer elapses in between, the wake-up is lost and nothing restarts the timer. Besides it
   polling stops only if the timer could not be created, or neither of its two commands was
   accepted: `PollingStopsOnlyIf`.
5. "Queries the server for a firmware update and, if one is available, installs it"
   (`iap_https.h:80`): a request that comes while a check is running only finds the bit set, and is
   cleared with it (`iap_https.c:164`, `214`; `CheckNowInstalls`). If the check has read the
   metadata already, and polling is off, a newer version stays where it is. A request that meets no
   running check is carried out: `DueCheckInstalls`.
6. "Returns 1 if an update is currently in progress" (`iap_https.h:84`): after a download that broke
   off `iap_https_update_in_progress` returns 1 until the next one (`iap_https.c:145`;
   `UpdateIsInProgress`). The updater itself is not misled: `SessionHoldsOneImage`.
7. "Call to close a programming session and activate the programmed partition" (`iap.h:61`):
   `iap_commit` logs a failed write of the last page and goes on (`iap.c:203-208`;
   `ActivatesWholeStream`); only `esp_ota_end` stands between this and the activation of a truncated
   image. When nothing was left in the page, the image is whole: `ActivatesWhatWasStreamed`.
8. "Don't have one if we don't need one" (`iap_https.c:221`): a timer whose deletion is refused is
   forgotten all the same (`iap_https.c:253-254`; `OnlyNeededTimer`), and fires once more. There are
   no other timers left over: `NoStrayTimer`.
9. "Length and content matches" (`wifi_tls.c:465`): the comparison of the public keys runs over the
   first `Len` bytes of two buffers whose last `Len` bytes hold the keys (`wifi_tls.c:464`;
   `PinnedKeyOnly`): of keys of 294 bytes in 512 it sees the first 76 (`ComparisonReach` proves how
   much it sees). `AnswersAreVerified` is about the control around it: no byte comes from a server
   that has not passed both checks, such as they are.
10. "Connects to the server, performs the TLS handshake and certificate verification"
    (`wifi_tls.h:95`): a request that is refused, or for which there is no memory, after a connect
    leaves connection and context behind; the next connect opens another socket and takes the old
    handshake for its own (`https_client.c:104`, `wifi_tls.c:325`; `HandshakeOnThisSocket`). Its
    request then fails, and sets the context right: `ConnectedMeansHandshake`, `AnsweredAgain`; the
    socket is lost.
11. "Search the buffer for the specified key" (`https_client.h:133`): the terminator of a body that
    came in several packets is commented out (`https_client.c:172`; `BodyIsText`); when the body is
    shorter than the first packet was, what is left there is read as its continuation. Other bodies
    end where they should: `TextEndsWithBody`.
12. "A callback with length 0 indicates the end of the body" (`https_client.h:121`): in streaming
    mode an answer with `Content-Length: 0` is never reported as ended (`https_client.c:270`;
    `EndIsAnnounced`).
13. "Invoked if something goes wrong" (`https_client.h:106`): a connection that ends in the middle
    of an answer counts as success and reaches no error callback, nor does an answer without
    `Content-Length` (`https_client.c:124`, `228`; `FailuresAreReported`). It is not taken for
    complete, though: `EndMeansComplete`.

Also seen in the source, where no line says what should happen:

- While headers are incomplete, a packet is appended behind them, and dropped if the
  buffer cannot hold both (`https_client.c:162`), also in streaming mode, where `https_client.h`
  asks only for room for the headers. The error callback is told.
- When `esp_wifi_connect` fails in the handler of a disconnection, its error goes to the event
  loop and nobody tries again (`wifi_sta.c:151`, and `135` after the start).
- `https_create_context_for_request` writes to the context before it looks whether there
  is one (`https_client.c:378`), and `iap_https_init` does not look whether there is a TLS context
  (`iap_https.c:102`).

### Bounds

- Pages of 2 bytes, blocks of 1 to 3 bytes and at most `MaxStream` = 4 bytes a session
  in `IapTwoOta`: a block fits into the page, fills it, spills over, and takes the rest
  of one page, a whole one and more; a session writes no page, one, or two. The number
  of pages does not matter to the code, which keeps nothing from one page to the next.
- Two versions, images of 2 or 3 bytes and fragments of up to `MaxFragment` = 1 or 2
  bytes. The runs with liveness, `HttpsConverges` and `HttpsManualRestart`, have images of 2
  bytes, one per fragment: a download still breaks off in its middle, and it fills a page. They use a table without
  the factory, where each of the two partitions is next to the other: the shortest way back to the one
  that runs. `MaxStream` of `IapHttps` is at least an image (`StreamAssumption`), and is never met: a
  download passes on no more.
- The table is that of `sdkconfig` (factory and two OTA partitions) in most other runs, and one
  with a single OTA partition where the next partition does not exist.
- Headers of 2 bytes, the last of which stands for the empty line (`EmptyLineLen`), buffers of 4,
  bodies of 0 to 6 and lengths of 0, 2 and 5: bodies shorter and longer than announced, that fit the buffer or not.
- Intervals of `IapHttps` are 0 or 1: only whether polling is on matters to it. The manual mode of
  `HttpsManualRestart` is the interval 0, which the server leaves alone. `PollTimer` has words
  of 32 values, four milliseconds to the second and two ticks to the second: one and two seconds
  fit and have different periods, so that a period that is not changed shows; four seconds come to no
  ticks, and minus one, taken over as 31, wraps around.
  It has two timers, so that a new one is there while the old one is still to be
  deleted, and a queue of two commands, which is as many as one turn sends, so that a late
  service makes it full.
- Texts of the metadata are three keys in three orders, with both line ends, the last line with and
  without one, keys missing, and paths that fit into `PathSize` - 1 = 2 cells and that do not.
- Three sockets and at most `MaxAbandoned` = 2 requests given up: these are the only ones that keep
  a socket, so that one is always left; with as many as there are sockets no connect could succeed
  again, and the code has no remedy. Keys are two bytes in buffers of three, so that the comparison covers one
  of the bytes and not the other, and keys are tried that differ in either; a request has two bytes, so that a write may be partial.
- `MaxPending` = 4 is what `EventsFit` claims of the event queue, not a bound of the model: nothing limits
  `events`, except that only one event for others is pending at a time.
- Symmetry is used for the timers of `PollTimer` only, which differ in nothing but their names, and whose runs check
  no liveness. Versions are compared, labels have an order, and sockets are few.

### What is assumed

- `OtaEndValidates`: whether `esp_ota_end` rejects what is not an image is not in this
  repository, so it is a constant and both values are run. Nor is whether `esp_ota_begin` refuses the
  partition whose code is running: when nothing else fails any more, it may still do that
  (`BeginFailsOnlyIf`).
- `TimersMayFail`: when the timer cannot be created or its queue stays full for five seconds, the code logs an
  error, and polling does stop. It is TRUE in `HttpsUnvalidated` and `HttpsConverges`, which says that the device else converges. `PollTimer`
  always has these failures.
- Malicious or malformed images and texts are not considered. The bodies delivered to
  `IapHttps` are in order, which `HttpsClient` has of headers in one packet.
- The metadata file has the form `Published` says; TLC evaluates this for the texts of the run
  (`TextAssumption`), and the theorems hold of all texts of that form.
- mbedTLS refuses to write with objects that have been freed, reads nothing with the keys of
  another connection, and reports a chain that is not trusted as a failed handshake
  (`MBEDTLS_SSL_VERIFY_REQUIRED`). The number of a socket that could not be connected stays in `server_fd`,
  closed, and it is not given to anyone else before `wifi_tls_disconnect` closes it again.
- The Wi-Fi driver posts the events of one connection in order, and a lost connection
  once.

Fairness. `Iap`: a call that has begun runs on, as nothing in `iap.c` waits. `IapHttps`: the
updater task runs when it can (it has a priority above idle, and the main task sleeps
in its loop), an armed timer elapses, `init_ota` makes its two calls, the application
restarts the chip when it polls `iap_https_new_firmware_installed`, and once links no longer
fail the station comes back. That last one is what `WifiSta` proves to follow from the fairness of
the tasks that run its handler and of an access point that lets a station in
(`ProvidesLink`), up to a driver that has returned an error. `WifiTls`: the updater task goes on; that a server which is reached answers in the end
is an assumption about the environment, as there is no timeout on reads. Faults are never
required to occur, and `Settle` is not fair: `Converges`, `DueCheckInstalls`, `AnsweredAgain` and
`ProvidesLink` speak of behaviours in which faults do cease. Nor are `PowerCut`, `RunningCodeLost`, a lost timer
that fires or a further call of `iap_https_check_now` fair: none of them is needed. Safety needs no fairness.

Deadlock is checked in every run where the system goes on for ever. `StaReconnects` leaves it out because a station stranded
by an error of the driver does stop, and `HttpsConverges`, `HttpsFailedCommit` and two of the further configurations, which have
no manual checks, because an updater whose timer is gone (finding 4) waits for ever when all else is
quiet. `Converges` names this end: the device comes to the server's version and rests, or it sleeps for ever.

## The proofs

`IapProofs` proves of `Iap`, for every page size, set of bytes and blocks, partition table
of the three labels, set of images, and with all failures:

- `SessionCorrect`: `SessionInv` always holds. It is the inductive invariant, made of
  `TypeOK`, `BuffersFollowSession` (with its parts `NothingHeldOutsideSession` and `SessionHoldsBufferAndHandle`) and
  `SessionSparesBootPartition`, strengthened by two facts. `WrittenIsInFlash` says that the
  OTA handle has not written past what the partition holds; without it the flash after
  the next write is not even a sequence. `TodoOnlyInWrite` says that bytes wait to be copied
  only while `iap_write` runs; without it a new block could not be told from an old one.
- `TypeCorrect`, `SessionsWellFormed` and `BootPartitionSpared`: the parts the runs check.
- `AlwaysBootable`: if `esp_ota_end` validates images, the boot partition always holds one.
- `KeepsSlotPromise`: under the same assumption every step of `Iap` is a step of
  `FirmwareSlots` or leaves its variables alone. Both follow from `DeviceStep`, which says
  what a step can do to the device: program a partition that does not boot, activate a
  validated one, or nothing.
- `StreamCorrect`: what is in flash, then in the page, then still to be copied is
  exactly what the client has passed in. `ChunkMovesBytes` is its heart: a turn of the
  loop moves bytes from the front of one sequence to the end of another, and
  concatenation is associative; `WrittenThrough` and `WrittenBefore` say what a write that succeeds, or
  tears, does to the prefix in flash.
- `ActivationIsWhole`: with `DeviceStep`, a partition activated with an empty page holds
  exactly what was streamed.

The assumptions are those `Iap` names (`PageSizeAssumption`, `BlockAssumption`,
`ImageAssumption`, `PartitionAssumption`); TLC evaluates them in `IapTwoOta`. The theorems about
activation take `OtaEndValidates` as a hypothesis of their own.

`IapHttpsProofs` proves of the updater, for images, fragments and pages of any size, any
table and any intervals, each from an invariant of its own:

- `DownloadsAreNamed` from `DownloadPending`.
- `WritesNeedNoLuck` from `SessionUsable`, which says for every place of the task what state of `iap.c` it is in:
  a session that has lost its buffer in a failed commit is met only where the updater begins another, with
  `has_iap_session` 0. Only the parts of `iap_begin`, `iap_write`, `iap_abort` and the commit that touch the flags and the buffer are expanded.
- `RunningCodeIsSpared` (`AutoReboot`) from `SparesRunning`: the boot choice differs from the running partition only
  from the commit to the restart.
- `SessionsAreOneImage` from `HoldsImage`: while `has_iap_session` is 1 at a place where the callback is used, `stream` is the
  prefix of length `received` of the image named by `body`.
- `UpdaterIsClientOfIap`: every step of `IapHttps` is a step of `Iap` or leaves its variables alone. What is proved of all
  clients of `iap.c`, `SessionInv` and `NoByteLost` to begin with, thereby holds of this one.

The others are about the end of a download, where the two modules meet. `EndsWithImage` says that at the last
callback the whole image has been passed on (`received` is `ImageLen`, the session is open), and that when the
commit is to be finished the partition holds a prefix of that image, or all of it if flash does not fail. It is
not inductive alone: `CommitWritesImage` gets the contents of flash from `NoByteLost` (what is in flash and in the page
is what was passed on) and `HoldsImage` (which is the prefix of one image), and that the partition is the right one
from `SessionInv`. `UpdaterInv` is the four together. An `esp_ota_end` that accepts the partition then accepts
the whole image: if it validates, because no shorter prefix is an image; if it does not, because there
is nothing but the whole. This needs `OtaEndValidates \/ ~FlashMayFail`, and no less will do: a failed write of the last page
is only logged (finding 7), so that without either a truncated image is activated. From `UpdaterInv` and that
alternative follow

- `WholeDownloadIsActivated`: the boot choice moves only to the image whose download has just ended;
- `UpdaterKeepsSlotPromise`, the refinement of `FirmwareSlots`, and `UpdaterKeepsBootable`. For `Iap` alone both need
  `OtaEndValidates`, as some other client might commit half an image;
- `RunningVersionIsKnown` (`AutoReboot`): the running partition keeps the image of `current_software_version`, since nothing
  but the next partition is programmed (`SparesRunning`) and what boots was a whole image. Without automatic restarts
  a second download may take the partition that runs;
- `UpdaterTypesAreKept`, where the version of the running image is only defined because that is an image.

`HttpsClientProofs` proves the six facts about packets for all lengths. `ClientInv` says where the bytes are:
while headers are read (`InHeaders`) the buffer begins with the answer's first `response_buffer_count` bytes; while
the body is (`InBody`), what has been delivered and what is in the buffer are together the
body so far, and `response_body_total_count` is its length. From it follow `BufferSuffices`, `BodyIsDelivered`,
`EndIsTrue`, `AnswersAreDelivered` and `NothingAfterTheEnd`. `TextsAreTerminated` is about what is behind the body, and needs a
second invariant: `TextInv` says that the buffer is 0 behind both the body so far and what the first packet has left
there (`TextBehind`), which each further packet keeps as long as there is room for it.

`MetadataProofs` proves the parsers on every published file. `FileSplits` cuts the file at a key: what is before has
neither that key nor a NUL, and behind the value comes the end of a line or the NUL. So the first
occurrence is that one (`FirstOccurrence`, `KeyIsFound`), the value ends where the line does, and the copy is the value cut
to the room there is (`CopyIsTruncated`). `NumberIsRead` and `PathIsRead` say this of the two parsers. No induction is needed, as a file has
three lines; the lines themselves, line ends and paths may have any length.

`WifiTlsProofs` proves the safety of the connection for any number of sockets, keys and buffers. `HeldInv` ties the open sockets to the
number of requests given up and to the place of the caller, which needs the cardinality of sets with one element more or
less; it gives `NothingIsLeft`. `HandshakeInv` says whose handshake `session` is at each place, and that on a context which no
request has been given up on (`given_up`) it is that of the socket that is open; it gives `HandshakeWasMade` and
`OnlyVerifiedAnswers`. The second is about keys that the comparison accepts; `ComparisonReach`, about two keys at the end of
buffers, says which these are. `TypesAreKept` is separate.

`WifiStaProofs` proves `BitIsTrue`, `NobodyStranded` and `QueueStaysShort` from `StationInv`, which describes the queue of
events by the state of the driver: it is the tail of what a connection posts, and nothing
follows a DISCONNECTED but events for others. `KeepsLinkPromise` is the safety part of `ProvidesLink`: every step is a step of `WifiLink`.

`PollTimerProofs` proves the invariants of `PollTimer` for any word size, tick rate, interval,
queue length and published metadata. `StrayInv` says that the commands in the queue are for timers that exist, and that a
deletion is the last command for its timer; without it a deletion served late might take a timer that has
been created since. With `OffInv`, that no timer is kept when the interval is 0, it gives `TimersAreTheUpdaters`. `AliveInv` follows the updater through `iap_https_prepare_timer`: after each
call its own timer runs or has a command that starts it, or there is a reason why not (`PollingHasThreeEnds`).
`PeriodInv` says the same of the period: the last change of period in the queue, or the timer itself if there is none,
has what the conversion makes of the interval; `PeriodFits` is about that conversion, and both give `TimerRunsAtInterval`. `MetadataIsTakenOver` follows from
the two theorems of `MetadataProofs`, and `TypesAreKept` from them and the bound of the command queue.

The assumptions are those the modules name; TLC evaluates them in the runs. Theorems that need
more (`OtaEndValidates`, `AutoReboot`, `~FlashMayFail`) say so as hypotheses.

Only model-checked is liveness, which is outside the prover: `CallsReturn`, `Converges`, `DueCheckInstalls`,
`AnsweredAgain`, and the fairness that `ProvidesLink` asks for beyond `KeepsLinkPromise`. The thirteen properties
that are violated have their counterexamples from TLC.

## Not modelled

The text of the request and of the headers (the headers are one block with a few things that can be
wrong with them); the headers and error callbacks, which only log; the LED loop but for its
use of the event group; the initialisation of NVS and of the event loop in `app_main`; logging, and the printing
of errors and keys; the build files. Numbers in metadata are what `atoi` returns, digits are not
spelled out. `HttpsClient` and `IapHttps` meet in what `IapHttps` assumes of a body, and are not composed: the product of
packets, pages and power cuts is too large for TLC and adds no interaction.

## Order of work

`FirmwareSlots`, `Iap` and `IapHttps` first, as the device must boot; then `HttpsClient`, `WifiTls` and `WifiSta` below
them, and `Metadata` and `PollTimer` beside them; each proved about after it was checked. What is left: the bodies
`IapHttps` assumes and those `HttpsClient` delivers meet in prose only, and could be tied by a refinement of a
specification of a body that both share.
