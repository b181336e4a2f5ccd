----------------------------- MODULE MCIapHttps -----------------------------
(* Small instances of IapHttps: two versions, images of up to three bytes on   *)
(* pages of two, so that an image takes a full page and a partial one and      *)
(* arrives in two or three fragments that do not respect the pages.            *)
EXTENDS IapHttps

TwoVersions == {1, 2}
AllBytes    == Version \X (1..ImageLen)
AllImages   == {ImageOf(v) : v \in Version}
Fragments   == {SubSeq(ImageOf(v), i, j) : v \in Version, i, j \in 1..ImageLen}
\* The table of sdkconfig (CONFIG_PARTITION_TABLE_TWO_OTA).
TwoOta == {"factory", "ota_0", "ota_1"}
\* A table with one OTA partition: the updater can leave the factory, once.
OneOta == {"factory", "ota_0"}
\* A table without the factory partition.
OnlyOta == {"ota_0", "ota_1"}
\* The server leaves the interval positive, never sets one, or may also switch polling off.
Positive   == {1}
Never      == {0}
AnyInterval == {0, 1}
=============================================================================
