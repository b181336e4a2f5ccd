----------------------------- MODULE HttpsClient -----------------------------
(***************************************************************************)
(* The HTTP client (https_client.c) on the read loop of wifi_tls.c: the    *)
(* answer to a request arrives in packets of any size, the headers are     *)
(* accumulated in the request's response buffer until they are complete,   *)
(* and the body is then handed to the body callback, as a whole or in      *)
(* fragments.                                                              *)
(*                                                                         *)
(* A byte of the answer is its position: 1..HeaderLen are the headers with *)
(* the empty line, the rest is the body; 0 is a byte that is not from this *)
(* answer.  One action is one packet, with all that https_tls_callback     *)
(* does about it; the first packet of an answer is the one at sent = 0.    *)
(***************************************************************************)

EXTENDS Integers, Sequences

CONSTANTS HeaderLen,        \* bytes of the headers, with the empty line
          EmptyLineLen,     \* of those, the line ends that are searched for (4 in the code)
          BodyLen,          \* how many bytes of body servers send
          ContentLength,    \* the values of the header of that name
          Mode,             \* the response modes requests are made with
          BufferLen,        \* response_buffer_len of the request
          TlsBufferLen      \* tls_response_buffer_size

ASSUME HeadersAssumption == HeaderLen \in Nat \ {0} /\ EmptyLineLen \in 1..HeaderLen
ASSUME BodyAssumption    == BodyLen \subseteq Nat /\ ContentLength \subseteq Nat
ASSUME ModeAssumption    == Mode \subseteq {"WAIT_FOR_COMPLETE_BODY", "STREAM_BODY"}
ASSUME TlsAssumption     == TlsBufferLen \in Nat \ {0}
\* https_client.h: "Needs to be large enough to hold all HTTP headers!"
ASSUME BufferAssumption  == BufferLen \in Nat /\ HeaderLen =< BufferLen

VARIABLES
    answer,                     \* what the server sends: a record, see Answer
    response_mode,
    phase,                      \* "idle", "reading" or "done"
    sent,                       \* how much of the answer has been received
    tls_response_buffer,
    response_buffer,
    response_buffer_count,
    response_body_total_count,
    content_length,
    is_processing_headers,
    result,                     \* of the last https_send_request
    errors,                     \* what error_callback has been called with
    delivered,                  \* the bytes body_callback has been given
    ends,                       \* how often it has been called with length 0
    stopped,                    \* has it answered HTTP_STOP_RECEIVING?
    firstLen                    \* history: the length of the first packet

contextVars == <<response_buffer_count, response_body_total_count, content_length,
                 is_processing_headers>>
clientVars  == <<errors, delivered, ends, stopped>>
vars == <<answer, response_mode, phase, sent, tls_response_buffer, response_buffer, contextVars,
          result, clientVars, firstLen>>

Missing == -1     \* no Content-Length header

\* A malformed answer has no status line, or is of another version of HTTP.
Answer == [status : {"200", "other", "malformed"}, length : ContentLength \cup {Missing},
           body : BodyLen]

Cells(len) == [1..len -> Int]
Zeroed(len) == [i \in 1..len |-> 0]

Init ==
    /\ answer \in Answer
    /\ response_mode \in Mode
    /\ phase = "idle"
    /\ sent = 0
    /\ tls_response_buffer = Zeroed(TlsBufferLen)
    /\ response_buffer = Zeroed(BufferLen)
    /\ response_buffer_count = 0
    /\ response_body_total_count = 0
    /\ content_length = 0
    /\ is_processing_headers = FALSE
    /\ result = "HTTP_SUCCESS"
    /\ errors = {}
    /\ delivered = << >>
    /\ ends = 0
    /\ stopped = FALSE
    /\ firstLen = 0

-----------------------------------------------------------------------------
\* A new request, with a context that has been cleared.  It may be refused, lack
\* memory, or fail to be written: then no answer is read.
https_send_request ==
    /\ phase \in {"idle", "done"}
    /\ answer' \in Answer
    /\ response_mode' \in Mode
    /\ \/ phase' = "reading" /\ UNCHANGED result
       \/ /\ phase' = "done"
          /\ result' \in {"HTTP_ERR_INVALID_ARGS", "HTTP_ERR_OUT_OF_MEMORY", "HTTP_ERR_SEND_FAILED"}
    /\ sent' = 0
    /\ tls_response_buffer' = Zeroed(TlsBufferLen)
    /\ response_buffer_count' = 0
    /\ response_body_total_count' = 0
    /\ content_length' = 0
    /\ is_processing_headers' = FALSE
    /\ errors' = {}
    /\ delivered' = << >>
    /\ ends' = 0
    /\ stopped' = FALSE
    /\ firstLen' = 0
    /\ UNCHANGED response_buffer

\* wifi_tls_send_request returns: the server has closed the connection or the
\* callback wants no more packets, or reading has failed.
RequestReturns(r) == phase' = "done" /\ result' = r

EndOfFile ==
    /\ phase = "reading"
    /\ RequestReturns("HTTP_SUCCESS")
    /\ UNCHANGED <<answer, response_mode, sent, tls_response_buffer, response_buffer, contextVars,
                   clientVars, firstLen>>

ReadFails ==
    /\ phase = "reading"
    /\ RequestReturns("HTTP_ERR_SEND_FAILED")
    /\ UNCHANGED <<answer, response_mode, sent, tls_response_buffer, response_buffer, contextVars,
                   clientVars, firstLen>>

\* mbedtls_ssl_read returns the next n bytes of the answer.
ReadPacket(n) ==
    /\ phase = "reading"
    /\ sent + n =< HeaderLen + answer.body
    /\ sent' = sent + n
    /\ firstLen' = IF sent = 0 THEN n ELSE firstLen
    /\ tls_response_buffer' =
          [i \in 1..TlsBufferLen |-> IF i =< n THEN sent + i ELSE tls_response_buffer[i]]
    /\ UNCHANGED <<answer, response_mode>>

-----------------------------------------------------------------------------
(* https_tls_callback, for a packet of n bytes.                            *)

\* Mutant: the response buffer is not cleared.
NotCleared == response_buffer

\* The state as the first packet resets it.
first       == sent = 0
inHeaders   == first \/ is_processing_headers
used        == IF first THEN 0 ELSE response_buffer_count
total       == IF first THEN 0 ELSE response_body_total_count
buffered    == IF first THEN Zeroed(BufferLen) ELSE response_buffer
expected    == IF first THEN 0 ELSE content_length

\* Mutant: the packet itself is not counted.
OverflowsAlready(n) == used > BufferLen

Overflows(n) == used + n > BufferLen

Accumulated(n) ==
    [i \in 1..BufferLen |-> IF i \in (used + 1)..(used + n) THEN sent + i - used ELSE buffered[i]]

\* The headers are cut off where the empty line begins, so that they can be read as text.
HeadersAsText(n) == [Accumulated(n) EXCEPT ![HeaderLen - EmptyLineLen + 1] = 0]

\* The packet is dropped, and the request with it.
DropPacket(n) ==
    /\ Overflows(n)
    /\ errors' = errors \cup {"HTTP_ERR_BUFFER_TOO_SMALL"}
    /\ RequestReturns("HTTP_SUCCESS")
    /\ response_buffer_count' = used
    /\ response_body_total_count' = total
    /\ response_buffer' = buffered
    /\ content_length' = expected
    /\ is_processing_headers' = inHeaders
    /\ UNCHANGED <<delivered, ends, stopped>>

\* The empty line that ends the headers is not in the buffer yet.
AwaitHeaders(n) ==
    /\ ~Overflows(n) /\ inHeaders /\ used + n < HeaderLen
    /\ response_buffer_count' = used + n
    /\ response_body_total_count' = total + n
    /\ response_buffer' = Accumulated(n)
    /\ content_length' = expected
    /\ is_processing_headers' = TRUE
    /\ UNCHANGED <<phase, result, clientVars>>

\* Not an answer this client processes; that Content-Length is missing is not
\* reported to the error callback.
RejectHeaders(n) ==
    /\ ~Overflows(n) /\ inHeaders /\ used + n >= HeaderLen
    /\ \/ /\ answer.status = "malformed"
          /\ errors' = errors \cup {"HTTP_ERR_INVALID_STATUS_LINE"}
       \/ /\ answer.status = "other"
          /\ errors' = errors \cup {"HTTP_ERR_NON_200_STATUS_CODE"}
       \/ /\ answer.status = "200" /\ answer.length = Missing
          /\ UNCHANGED errors
    /\ RequestReturns("HTTP_SUCCESS")
    /\ response_buffer_count' = used + n
    /\ response_body_total_count' = total + n
    /\ response_buffer' = HeadersAsText(n)
    /\ content_length' = expected
    /\ is_processing_headers' = TRUE
    /\ UNCHANGED <<delivered, ends, stopped>>

\* Mutant: the last byte of the body is taken to be one before the last.
LengthPassed(bytes) == bytes > content_length'

LengthReached(bytes) == bytes >= content_length'

\* Mutant: the next fragment does not start at the beginning of the buffer.
FragmentKept(count) == response_buffer_count' = count

FragmentConsumed(count) == response_buffer_count' = 0

GiveToCallback(buffer, count) == delivered' = delivered \o SubSeq(buffer, 1, count)

WaitForBody(count) ==
    /\ response_mode = "WAIT_FOR_COMPLETE_BODY"
    /\ ~LengthReached(count)
    /\ response_buffer_count' = count
    /\ UNCHANGED <<phase, result, clientVars>>

WholeBody(buffer, count) ==
    /\ response_mode = "WAIT_FOR_COMPLETE_BODY"
    /\ LengthReached(count)
    /\ response_buffer_count' = count
    /\ GiveToCallback(buffer, count)
    /\ stopped' = TRUE
    /\ RequestReturns("HTTP_SUCCESS")
    /\ UNCHANGED <<errors, ends>>

NoFragment(count) ==
    /\ response_mode = "STREAM_BODY"
    /\ count = 0
    /\ response_buffer_count' = count
    /\ UNCHANGED <<phase, result, clientVars>>

\* The callback stops, or the body ends with this fragment, or there is more.
\* Mutant: what the callback answers is not looked at.
StopIgnored(stop) == FALSE

StopsReceiving(stop) == stop

Fragment(buffer, count) ==
    /\ response_mode = "STREAM_BODY"
    /\ count > 0
    /\ GiveToCallback(buffer, count)
    /\ \E stop \in BOOLEAN :
          /\ stopped' = (stopped \/ stop)
          /\ \/ /\ StopsReceiving(stop)
                /\ response_buffer_count' = count
                /\ RequestReturns("HTTP_SUCCESS")
                /\ UNCHANGED ends
             \/ /\ ~StopsReceiving(stop) /\ LengthReached(response_body_total_count')
                /\ response_buffer_count' = count
                /\ ends' = ends + 1
                /\ RequestReturns("HTTP_SUCCESS")
             \/ /\ ~StopsReceiving(stop) /\ ~LengthReached(response_body_total_count')
                /\ FragmentConsumed(count)
                /\ UNCHANGED <<phase, result, ends>>
    /\ UNCHANGED errors

ProcessBody(count) ==
    /\ is_processing_headers' = FALSE
    /\ \/ WaitForBody(count)
       \/ WholeBody(response_buffer', count)
       \/ NoFragment(count)
       \/ Fragment(response_buffer', count)

\* Mutant: the headers count as body.
CountAll(n) == total + n

CountBody(n) == used + n - HeaderLen

\* The headers are complete.  What the packet holds of the body is copied to the
\* beginning of the buffer, from where it is in the packet if the headers all came
\* in this packet; the end is marked with a 0.
FirstOfBody(n) ==
    /\ ~Overflows(n) /\ inHeaders /\ used + n >= HeaderLen
    /\ answer.status = "200" /\ answer.length # Missing
    /\ content_length' = answer.length
    /\ response_body_total_count' = CountBody(n)
    /\ response_buffer' =
          [i \in 1..BufferLen |->
              IF i =< used + n - HeaderLen
                 THEN IF HeaderLen + i =< TlsBufferLen THEN tls_response_buffer'[HeaderLen + i] ELSE 0
                 ELSE IF i = used + n - HeaderLen + 1 THEN 0 ELSE HeadersAsText(n)[i]]
    /\ ProcessBody(used + n - HeaderLen)

MoreOfBody(n) ==
    /\ ~Overflows(n) /\ ~inHeaders
    /\ response_body_total_count' = total + n
    /\ response_buffer' = Accumulated(n)
    /\ content_length' = expected
    /\ ProcessBody(used + n)

https_tls_callback(n) ==
    /\ ReadPacket(n)
    /\ DropPacket(n) \/ AwaitHeaders(n) \/ RejectHeaders(n) \/ FirstOfBody(n) \/ MoreOfBody(n)

Next ==
    \/ https_send_request
    \/ \E n \in 1..TlsBufferLen : https_tls_callback(n)
    \/ EndOfFile
    \/ ReadFails

Spec == Init /\ [][Next]_vars

-----------------------------------------------------------------------------
streaming == response_mode = "STREAM_BODY"

\* The server has sent an answer that this client processes, to its end.
answeredInFull ==
    /\ answer.status = "200" /\ answer.length # Missing
    /\ sent >= HeaderLen + answer.length

\* The variables hold what their C types allow; the response buffer is never
\* filled beyond its length.
TypeOK ==
    /\ answer \in Answer
    /\ response_mode \in Mode
    /\ phase \in {"idle", "reading", "done"}
    /\ sent \in Nat
    /\ tls_response_buffer \in Cells(TlsBufferLen)
    /\ response_buffer \in Cells(BufferLen)
    /\ response_buffer_count \in 0..BufferLen
    /\ response_body_total_count \in Nat
    /\ content_length \in Nat
    /\ is_processing_headers \in BOOLEAN
    /\ result \in {"HTTP_SUCCESS", "HTTP_ERR_INVALID_ARGS", "HTTP_ERR_OUT_OF_MEMORY",
                  "HTTP_ERR_SEND_FAILED"}
    /\ errors \subseteq {"HTTP_ERR_BUFFER_TOO_SMALL", "HTTP_ERR_INVALID_STATUS_LINE",
                        "HTTP_ERR_NON_200_STATUS_CODE"}
    /\ delivered \in Seq(Int)
    /\ ends \in Nat
    /\ stopped \in BOOLEAN /\ firstLen \in Nat

\* However the answer is cut into packets, the end of a body is announced, or a
\* whole body handed over, once, and only when as many bytes as Content-Length
\* says have gone to the callback; an empty body has no end, and the end never comes
\* without a fragment.
EndMeansComplete ==
    /\ ends =< 1
    /\ ends = 1 => delivered # << >>
    /\ ends = 1 \/ (~streaming /\ delivered # << >>) => Len(delivered) >= content_length

\* However the answer is cut into packets, and whatever follows it, one that the
\* buffer could take is never left undelivered: when the request has returned the
\* callback has been given all of the body, and told so.  A body that is empty is
\* left out: its end is never announced.
AnswerIsDelivered ==
    phase = "done" /\ errors = {} /\ answeredInFull /\ answer.length > 0 =>
        stopped \/ (streaming /\ ends = 1)

\* When the callback has answered HTTP_STOP_RECEIVING, and after the last callback,
\* it is not called again for this request.
StopIsFinal ==
    [][(stopped \/ ends > 0) /\ (stopped' \/ ends' > 0) => UNCHANGED <<delivered, ends>>]_vars

\* What the callback is given is the body, from its first byte on and without gaps
\* ("If the last received packet also contains message body data, we copy it to the
\* beginning of the buffer", https_client.c).
DeliversBody == \A i \in 1..Len(delivered) : delivered[i] = HeaderLen + i

\* That is so when the headers have come in one packet: wherever the packets of the
\* body begin and end, no fragment is lost, repeated or mixed with an older one.
WholeHeadersDeliverBody == firstLen >= HeaderLen => DeliversBody

\* The string functions that read a whole body find its end: the terminator is that
\* of the headers' packet, or one of the zeroes the buffer was filled with.  The
\* bodies BodyIsText is about, and those that fill the buffer, are left out.
TextEndsWithBody ==
    LET count == Len(delivered)
    IN  /\ phase = "done" /\ ~streaming /\ count > 0 /\ firstLen >= HeaderLen
        /\ count = firstLen - HeaderLen \/ count \in firstLen..(BufferLen - 1)
        => response_buffer[count + 1] = 0

\* What the documentation says of every answer, and the code keeps for some.

\* The parser functions "Search the buffer for the specified key" (https_client.h), up
\* to a 0: behind a body that is handed over "after receiving the whole message body",
\* and leaves room in the buffer, there is one.
BodyIsText ==
    LET count == Len(delivered)
    IN  phase = "done" /\ ~streaming /\ count \in 1..(BufferLen - 1) /\ firstLen >= HeaderLen
        => response_buffer[count + 1] = 0

\* "a callback with length 0 indicates the end of the body" (https_client.h): a body
\* that has come in full is handed over or ended, an empty one too.
EndIsAnnounced ==
    phase = "done" /\ errors = {} /\ answeredInFull => stopped \/ (streaming /\ ends = 1)

\* error_callback is "Invoked if something goes wrong" (https_client.h): a request
\* that has returned HTTP_SUCCESS, and whose callback did not stop it, has been told
\* of the end of the body, or of an error.
FailuresAreReported ==
    phase = "done" /\ result = "HTTP_SUCCESS" /\ ~stopped => ends = 1 \/ errors # {}

=============================================================================
