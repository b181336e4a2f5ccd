--------------------------- MODULE MCHttpsClient ---------------------------
(* Small instances of HttpsClient: headers of two bytes, and bodies that are   *)
(* shorter than, as long as, and longer than Content-Length says, and shorter *)
(* and longer than the buffers.                                                *)
EXTENDS HttpsClient

AnyBody   == {0, 1, 2, 5, 6}
AnyLength == {0, 2, 5}
BothModes == {"WAIT_FOR_COMPLETE_BODY", "STREAM_BODY"}
=============================================================================
