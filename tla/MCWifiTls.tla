------------------------------ MODULE MCWifiTls ------------------------------
(* A small instance of WifiTls: keys of two bytes in buffers of three, so that  *)
(* the comparison covers one byte of them.                                     *)
EXTENDS WifiTls

Pin  == <<1, 1>>
Keys == {<<1, 1>>, <<1, 2>>, <<2, 1>>, <<1>>}
=============================================================================
