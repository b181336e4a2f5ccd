------------------------------- MODULE MCIap -------------------------------
(* Small instances of Iap: pages of two bytes and blocks of up to three, so    *)
(* that a block fits into the page, fills it exactly, spills over and wraps.  *)
EXTENDS Iap

MCByte  == {0, 1}
MCBlock == {<<0>>, <<1, 0>>, <<0, 1, 1>>}
\* Images whose length is, and is not, a multiple of the page.
MCImage == {<<0>>, <<1, 0>>, <<0, 1, 1>>, <<1, 0, 0>>}

\* The table of sdkconfig (CONFIG_PARTITION_TABLE_TWO_OTA), and one with a
\* single OTA partition.
TwoOta == {"factory", "ota_0", "ota_1"}
OneOta == {"factory", "ota_0"}
=============================================================================
