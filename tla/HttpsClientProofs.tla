-------------------------- MODULE HttpsClientProofs --------------------------
(***************************************************************************)
(* What the HTTP client guarantees for every length of the headers and of  *)
(* the body, every size of its buffers, and every way an answer may be cut *)
(* into packets.                                                           *)
(***************************************************************************)

EXTENDS HttpsClient, SequenceTheorems, TLAPS

-----------------------------------------------------------------------------
(* Buffers.                                                                *)

LEMMA ConstantTypes ==
    /\ HeaderLen \in Nat /\ HeaderLen > 0
    /\ EmptyLineLen \in 1..HeaderLen
    /\ BufferLen \in Nat /\ HeaderLen =< BufferLen
    /\ TlsBufferLen \in Nat
    /\ \A a \in Answer : a.length # Missing => a.length \in Nat
<1>1. HeaderLen \in Nat /\ HeaderLen > 0 /\ EmptyLineLen \in 1..HeaderLen
  BY HeadersAssumption
<1>2. BufferLen \in Nat /\ HeaderLen =< BufferLen
  BY BufferAssumption
<1>3. TlsBufferLen \in Nat
  BY TlsAssumption
<1>4. \A a \in Answer : a.length # Missing => a.length \in Nat
  BY BodyAssumption DEF Answer
<1>5. QED
  BY <1>1, <1>2, <1>3, <1>4

\* What is handed to the callback.
LEMMA Given ==
    ASSUME NEW buffer \in Cells(BufferLen), NEW count \in 0..BufferLen
    PROVE  /\ SubSeq(buffer, 1, count) \in Seq(Int)
           /\ Len(SubSeq(buffer, 1, count)) = count
           /\ \A i \in 1..count : SubSeq(buffer, 1, count)[i] = buffer[i]
<1>1. count \in Nat /\ BufferLen \in Nat /\ count =< BufferLen
  BY ConstantTypes
<1>2. \A i \in 1..count : buffer[i] \in Int
  BY <1>1 DEF Cells
<1>3. SubSeq(buffer, 1, count) \in Seq(Int)
  BY <1>1, <1>2, SubSeqProperties
<1>4. Len(SubSeq(buffer, 1, count)) = IF 1 =< count THEN count - 1 + 1 ELSE 0
  BY <1>1, <1>2, SubSeqProperties
<1>5. \A i \in 1..(count - 1 + 1) : SubSeq(buffer, 1, count)[i] = buffer[1 + i - 1]
  BY <1>1, <1>2, SubSeqProperties
<1>6. ASSUME NEW i \in 1..count PROVE SubSeq(buffer, 1, count)[i] = buffer[i]
  <2>1. i \in 1..(count - 1 + 1) /\ 1 + i - 1 = i
    BY <1>1
  <2>2. QED
    BY <1>5, <2>1
<1>7. QED
  BY <1>1, <1>3, <1>4, <1>6

LEMMA ZeroedCells ==
    ASSUME NEW len \in Nat
    PROVE  Zeroed(len) \in Cells(len)
BY DEF Zeroed, Cells

-----------------------------------------------------------------------------
(* The invariant.                                                          *)

\* Before its first packet a request has come to nothing.
Untouched == delivered = << >> /\ ends = 0 /\ ~stopped

\* All that has been received is headers, and is in the buffer.
InHeaders ==
    /\ response_buffer_count = sent /\ sent < HeaderLen
    /\ firstLen =< sent
    /\ Untouched

\* What has been received of the body has been given to the callback, or is in the
\* buffer; there is more to come, or there is no body at all.
InBody ==
    /\ answer.status = "200" /\ answer.length # Missing /\ content_length = answer.length
    /\ response_body_total_count = sent - HeaderLen
    /\ response_body_total_count < content_length \/ response_body_total_count = 0
    /\ Len(delivered) + response_buffer_count = response_body_total_count
    /\ streaming => response_buffer_count = 0
    /\ ~streaming => delivered = << >>
    /\ firstLen >= HeaderLen =>
           \A i \in 1..response_buffer_count : response_buffer[i] = HeaderLen + Len(delivered) + i

Reading ==
    /\ errors = {} /\ ends = 0 /\ ~stopped
    /\ sent = 0 => Untouched
    /\ sent > 0 /\ is_processing_headers => InHeaders
    /\ sent > 0 /\ ~is_processing_headers => InBody

ClientInv ==
    /\ TypeOK
    /\ phase = "idle" => Untouched
    /\ phase = "reading" => Reading
    /\ EndMeansComplete
    /\ AnswerIsDelivered
    /\ WholeHeadersDeliverBody

-----------------------------------------------------------------------------
(* The types of one packet.                                                *)

LEMMA PacketTypes ==
    ASSUME TypeOK, NEW n \in 1..TlsBufferLen, ReadPacket(n)
    PROVE  /\ n \in Nat /\ n > 0 /\ sent \in Nat /\ sent' = sent + n
           /\ tls_response_buffer' \in Cells(TlsBufferLen)
           /\ sent' \in Nat /\ firstLen' \in Nat
           /\ used \in 0..BufferLen /\ total \in Nat /\ expected \in Nat
           /\ buffered \in Cells(BufferLen) /\ Accumulated(n) \in Cells(BufferLen)
           /\ HeadersAsText(n) \in Cells(BufferLen)
<1>1. n \in Nat /\ n > 0 /\ sent \in Nat /\ sent' = sent + n
  BY ConstantTypes DEF TypeOK, ReadPacket
<1>2. tls_response_buffer' \in Cells(TlsBufferLen)
  BY <1>1 DEF TypeOK, ReadPacket, Cells
<1>3. sent' \in Nat /\ firstLen' \in Nat
  BY <1>1 DEF TypeOK, ReadPacket
<1>4. used \in 0..BufferLen /\ total \in Nat /\ expected \in Nat
  BY ConstantTypes DEF TypeOK, used, total, expected
<1>5. buffered \in Cells(BufferLen)
  BY ZeroedCells, ConstantTypes DEF TypeOK, buffered
<1>6. Accumulated(n) \in Cells(BufferLen)
  <2>1. \A i \in 1..BufferLen : buffered[i] \in Int /\ sent + i - used \in Int
    BY <1>1, <1>4, <1>5 DEF Cells
  <2>2. QED
    BY <2>1 DEF Accumulated, Cells
<1>7. HeadersAsText(n) \in Cells(BufferLen)
  BY <1>6, 0 \in Int DEF HeadersAsText, Cells
<1>8. QED
  BY <1>1, <1>2, <1>3, <1>4, <1>5, <1>6, <1>7

-----------------------------------------------------------------------------
(* What a packet does to the body.                                         *)

\* The headers are complete, and `count' bytes of the body are in the buffer.
BodyReady(count) ==
    /\ UNCHANGED <<answer, response_mode>>
    /\ answer.status = "200" /\ answer.length # Missing /\ content_length' = answer.length
    /\ response_buffer' \in Cells(BufferLen) /\ tls_response_buffer' \in Cells(TlsBufferLen)
    /\ sent' \in Nat /\ sent' > 0 /\ firstLen' \in Nat
    /\ response_body_total_count' = sent' - HeaderLen
    /\ response_body_total_count' = Len(delivered) + count
    /\ ~streaming => delivered = << >>
    /\ Untouched \/ InBody

\* What is in the buffer follows what has been delivered.
BodyFollows(count) ==
    firstLen' >= HeaderLen =>
        /\ DeliversBody
        /\ \A i \in 1..count : response_buffer'[i] = HeaderLen + Len(delivered) + i

\* The rest of the callback.
LEMMA ProcessKeepsInv ==
    ASSUME ClientInv, phase = "reading", NEW count \in 0..BufferLen,
           BodyReady(count), BodyFollows(count), ProcessBody(count)
    PROVE  ClientInv'
<1> DEFINE given == SubSeq(response_buffer', 1, count)
           L     == Len(delivered)
<1>1. errors = {} /\ ends = 0 /\ ~stopped /\ delivered \in Seq(Int) /\ answer \in Answer
  BY DEF ClientInv, Reading, TypeOK
<1>a. /\ L \in Nat /\ count \in Nat /\ count =< BufferLen /\ HeaderLen \in Nat /\ BufferLen \in Nat
      /\ response_body_total_count' = L + count /\ L + count \in Nat /\ content_length' \in Nat
  <2>1. L \in Nat
    BY <1>1, LenProperties
  <2>2. HeaderLen \in Nat /\ BufferLen \in Nat
    BY ConstantTypes
  <2>3. count \in Nat /\ count =< BufferLen /\ L + count \in Nat
    BY <2>1, <2>2
  <2>4. content_length' \in Nat
    BY <1>1, ConstantTypes DEF BodyReady
  <2>5. response_body_total_count' = L + count
    BY DEF BodyReady
  <2>6. QED
    BY <2>1, <2>2, <2>3, <2>4, <2>5
<1>b. ~streaming => L = 0
  BY EmptySeq DEF BodyReady
<1>c. sent' \in Nat /\ sent' > 0 /\ firstLen' \in Nat /\ response_body_total_count' = sent' - HeaderLen
  BY DEF BodyReady
<1>d. ~streaming => delivered = << >>
  BY DEF BodyReady
<1> HIDE DEF L
<1>2. given \in Seq(Int) /\ Len(given) = count /\ \A i \in 1..count : given[i] = response_buffer'[i]
  BY Given DEF BodyReady
<1> HIDE DEF given
<1>3. /\ delivered \o given \in Seq(Int)
      /\ Len(delivered \o given) = L + count
      /\ \A i \in 1..(L + count) : (delivered \o given)[i] = IF i =< L THEN delivered[i] ELSE given[i - L]
  <2>1. /\ delivered \o given \in Seq(Int)
        /\ Len(delivered \o given) = Len(delivered) + Len(given)
        /\ \A i \in 1..(Len(delivered) + Len(given)) :
               (delivered \o given)[i] = IF i =< Len(delivered) THEN delivered[i] ELSE given[i - Len(delivered)]
    BY <1>1, <1>2, ConcatProperties
  <2>2. QED
    BY <1>2, <2>1 DEF L
<1>4. ASSUME firstLen' >= HeaderLen, NEW i \in 1..(L + count)
      PROVE  (delivered \o given)[i] = HeaderLen + i
  <2>1. CASE i =< L
    <3>1. i \in 1..L
      BY <1>a, <2>1
    <3>2. delivered[i] = HeaderLen + i
      BY <1>4, <3>1 DEF BodyFollows, DeliversBody, L
    <3>3. QED
      BY <1>3, <2>1, <3>2
  <2>2. CASE ~(i =< L)
    <3>1. i - L \in 1..count /\ L + (i - L) = i
      BY <1>a, <2>2
    <3>2. response_buffer'[i - L] = HeaderLen + L + (i - L)
      BY <1>4, <3>1 DEF BodyFollows, L
    <3>3. given[i - L] = HeaderLen + i
      BY <1>a, <1>2, <3>1, <3>2
    <3>4. QED
      BY <1>3, <2>2, <3>3
  <2>3. QED
    BY <2>1, <2>2
<1>5. /\ answer' = answer /\ response_mode' = response_mode /\ is_processing_headers' = FALSE
      /\ answer' \in Answer /\ response_mode' \in Mode
      /\ response_buffer' \in Cells(BufferLen) /\ tls_response_buffer' \in Cells(TlsBufferLen)
      /\ answer.status = "200" /\ answer.length # Missing /\ content_length' = answer.length
      /\ result \in {"HTTP_SUCCESS",
            "HTTP_ERR_INVALID_ARGS", "HTTP_ERR_OUT_OF_MEMORY", "HTTP_ERR_SEND_FAILED"}
  BY DEF BodyReady, ProcessBody, ClientInv, TypeOK
<1>6. CASE WaitForBody(count) \/ NoFragment(count)
  <2>1. /\ phase' = "reading" /\ result' = result /\ errors' = {} /\ delivered' = delivered
        /\ ends' = 0 /\ ~stopped' /\ response_buffer_count' = count /\ stopped' \in BOOLEAN
    BY <1>1, <1>6 DEF WaitForBody, NoFragment, clientVars, ClientInv, TypeOK
  <2>2. TypeOK'
    BY <1>1, <1>a, <1>c, <1>5, <2>1 DEF TypeOK
  <2>3. response_body_total_count' < content_length' \/ response_body_total_count' = 0
    <3>1. CASE WaitForBody(count)
      <4>1. L = 0
        BY <1>b, <3>1 DEF WaitForBody, streaming
      <4>2. ~(count >= content_length')
        BY <3>1 DEF WaitForBody, LengthReached
      <4>3. QED
        BY <1>a, <4>1, <4>2
    <3>2. CASE NoFragment(count)
      <4>1. count = 0 /\ response_body_total_count' = L
        BY <1>a, <3>2 DEF NoFragment
      <4>2. L = 0 \/ L < content_length'
        <5>1. CASE Untouched
          BY <5>1, EmptySeq DEF Untouched, L
        <5>2. CASE InBody
          <6>1. streaming /\ content_length' = content_length
            BY <1>5, <3>2, <5>2 DEF NoFragment, streaming, InBody
          <6>2. L + 0 = response_body_total_count
            BY <5>2, <6>1 DEF InBody, L
          <6>3. response_body_total_count < content_length \/ response_body_total_count = 0
            BY <5>2 DEF InBody
          <6>4. QED
            BY <1>a, <6>1, <6>2, <6>3
        <5>3. QED
          BY <5>1, <5>2 DEF BodyReady
      <4>3. QED
        BY <4>1, <4>2
    <3>3. QED
      BY <1>6, <3>1, <3>2
  <2>4. /\ streaming' => response_buffer_count' = 0
        /\ ~streaming' => delivered' = << >>
    BY <1>d, <1>5, <1>6, <2>1 DEF streaming, WaitForBody, NoFragment
  <2>5. InBody'
    <3>1. Len(delivered') = L
      BY <2>1 DEF L
    <3>2. Len(delivered') + response_buffer_count' = response_body_total_count'
      BY <1>a, <2>1, <3>1
    <3>3. firstLen' >= HeaderLen => \A i \in 1..response_buffer_count' :
              response_buffer'[i] = HeaderLen + Len(delivered') + i
      BY <2>1 DEF BodyFollows
    <3>4. QED
      BY <1>c, <1>5, <2>1, <2>3, <2>4, <3>2, <3>3 DEF InBody
  <2>6. Reading'
    BY <1>c, <1>5, <2>1, <2>5 DEF Reading
  <2>7. EndMeansComplete'
    BY <2>1, <2>4 DEF EndMeansComplete
  <2>8. AnswerIsDelivered' /\ WholeHeadersDeliverBody'
    BY <2>1 DEF BodyFollows, AnswerIsDelivered, WholeHeadersDeliverBody, DeliversBody
  <2>9. QED
    BY <2>1, <2>2, <2>6, <2>7, <2>8 DEF ClientInv
<1>7. CASE WholeBody(response_buffer', count) \/ Fragment(response_buffer', count)
  <2>1. /\ delivered' = delivered \o given /\ errors' = {} /\ stopped' \in BOOLEAN
        /\ ends' \in {0, 1} /\ result' \in {result, "HTTP_SUCCESS"}
        /\ response_buffer_count' \in {count, 0}
        /\ phase' \in {"reading", "done"}
    <3>1. CASE WholeBody(response_buffer', count)
      BY <1>1, <3>1 DEF WholeBody, GiveToCallback, RequestReturns, given
    <3>2. CASE Fragment(response_buffer', count)
      <4>1. ends + 1 = 1
        BY <1>1
      <4>2. stopped \in BOOLEAN
        BY DEF ClientInv, TypeOK
      <4>3. phase = "reading"
        OBVIOUS
      <4>4. QED
        BY <1>1, <3>2, <4>1, <4>2, <4>3 DEF Fragment, GiveToCallback, RequestReturns, FragmentConsumed, given
    <3>3. QED
      BY <1>7, <3>1, <3>2
  <2>2. TypeOK'
    <3>1. response_buffer_count' \in 0..BufferLen /\ ends' \in Nat
      BY <1>a, <2>1
    <3>2. delivered' \in Seq(Int)
      BY <1>3, <2>1
    <3>3. response_body_total_count' \in Nat /\ content_length' \in Nat /\ sent' \in Nat /\ firstLen' \in Nat
      BY <1>a, <1>c
    <3>4. result' \in {"HTTP_SUCCESS", "HTTP_ERR_INVALID_ARGS", "HTTP_ERR_OUT_OF_MEMORY",
                       "HTTP_ERR_SEND_FAILED"}
      BY <1>5, <2>1
    <3>5. QED
      BY <1>5, <2>1, <3>1, <3>2, <3>3, <3>4, Zenon DEF TypeOK
  <2>3. WholeHeadersDeliverBody'
    BY <1>3, <1>4, <2>1 DEF WholeHeadersDeliverBody, DeliversBody
  <2>4. Len(delivered') = response_body_total_count'
    BY <1>a, <1>3, <2>1
  <2>5. CASE phase' = "done"
    <3>1. /\ (ends' = 1 => response_body_total_count' >= content_length')
          /\ (ends' = 1 => delivered' # << >>)
          /\ stopped' \/ (streaming' /\ ends' = 1)
      <4>1. CASE WholeBody(response_buffer', count)
        BY <1>1, <4>1 DEF WholeBody
      <4>2. CASE Fragment(response_buffer', count)
        <5>1. Len(delivered') > 0
          BY <1>a, <1>3, <2>1, <4>2 DEF Fragment
        <5>2. delivered' # << >>
          BY <5>1, EmptySeq
        <5>3. QED
          BY <1>1, <1>5, <2>5, <4>2, <5>2 DEF Fragment, LengthReached, RequestReturns, streaming, StopsReceiving
      <4>3. QED
        BY <1>7, <4>1, <4>2
    <3>2. ~streaming' => response_body_total_count' >= content_length'
      <4>1. CASE WholeBody(response_buffer', count)
        <5>1. count >= content_length'
          BY <4>1 DEF WholeBody, LengthReached
        <5>2. L = 0
          BY <1>b, <4>1 DEF WholeBody, streaming
        <5>3. QED
          BY <1>a, <5>1, <5>2
      <4>2. CASE Fragment(response_buffer', count)
        BY <1>5, <4>2 DEF Fragment, streaming
      <4>3. QED
        BY <1>7, <4>1, <4>2
    <3>3. EndMeansComplete'
      BY <1>a, <2>1, <2>4, <3>1, <3>2 DEF EndMeansComplete
    <3>4. AnswerIsDelivered'
      BY <3>1 DEF AnswerIsDelivered
    <3>5. QED
      BY <2>2, <2>3, <2>5, <3>3, <3>4 DEF ClientInv
  <2>6. CASE phase' = "reading"
    <3>1. Fragment(response_buffer', count) /\ ~WholeBody(response_buffer', count)
      BY <1>7, <2>6 DEF WholeBody, RequestReturns
    <3>2. /\ ~LengthReached(response_body_total_count') /\ response_buffer_count' = 0
          /\ ends' = 0 /\ streaming' /\ ~stopped'
      BY <1>1, <1>5, <2>6, <3>1
         DEF Fragment, FragmentConsumed, RequestReturns, streaming, StopsReceiving
    <3>3. response_body_total_count' < content_length'
      BY <1>a, <3>2 DEF LengthReached
    <3>4. InBody'
      <4>1. Len(delivered') + response_buffer_count' = response_body_total_count'
        BY <1>a, <2>4, <3>2
      <4>2. 1..response_buffer_count' = {}
        BY <3>2
      <4>3. QED
        BY <1>c, <1>5, <3>2, <3>3, <4>1, <4>2 DEF InBody
    <3>5. Reading'
      BY <1>c, <1>5, <2>1, <3>2, <3>4 DEF Reading
    <3>6. EndMeansComplete' /\ AnswerIsDelivered'
      BY <2>6, <3>2 DEF EndMeansComplete, AnswerIsDelivered
    <3>7. QED
      BY <2>2, <2>3, <2>6, <3>5, <3>6 DEF ClientInv
  <2>7. QED
    BY <2>1, <2>5, <2>6
<1>8. QED
  BY <1>6, <1>7 DEF ProcessBody

-----------------------------------------------------------------------------
(* The kinds of packets.                                                   *)

\* While headers are expected everything received is in the buffer.
LEMMA HeadersSoFar ==
    ASSUME ClientInv, phase = "reading", inHeaders
    PROVE  used = sent /\ expected \in Nat /\ Untouched /\ (sent > 0 => firstLen < HeaderLen)
<1>1. sent \in Nat /\ firstLen \in Nat /\ HeaderLen \in Nat /\ content_length \in Nat
  BY ConstantTypes DEF ClientInv, TypeOK
<1>2. CASE sent = 0
  BY <1>1, <1>2 DEF ClientInv, Reading, used, first, expected
<1>3. CASE sent > 0
  <2>1. is_processing_headers /\ ~first
    BY <1>1, <1>3 DEF inHeaders, first
  <2>2. InHeaders
    BY <1>3, <2>1 DEF ClientInv, Reading
  <2>3. firstLen < HeaderLen
    BY <1>1, <2>2 DEF InHeaders
  <2>4. QED
    BY <1>1, <2>1, <2>2, <2>3 DEF InHeaders, used, expected
<1>4. QED
  BY <1>1, <1>2, <1>3

LEMMA FirstOfBodyKeepsInv ==
    ASSUME ClientInv, NEW n \in 1..TlsBufferLen, ReadPacket(n), FirstOfBody(n)
    PROVE  ClientInv'
<1> DEFINE count == used + n - HeaderLen
<1>1. phase = "reading" /\ inHeaders /\ ~Overflows(n) /\ used + n >= HeaderLen
  BY DEF ReadPacket, FirstOfBody
<1>2. used = sent /\ Untouched /\ (sent > 0 => firstLen < HeaderLen)
  BY <1>1, HeadersSoFar
<1>3. /\ n \in Nat /\ n > 0 /\ sent \in Nat /\ sent' = sent + n /\ sent' \in Nat /\ firstLen' \in Nat
      /\ tls_response_buffer' \in Cells(TlsBufferLen) /\ Accumulated(n) \in Cells(BufferLen)
      /\ HeadersAsText(n) \in Cells(BufferLen)
  BY PacketTypes DEF ClientInv
<1>4. HeaderLen \in Nat /\ HeaderLen > 0 /\ BufferLen \in Nat /\ TlsBufferLen \in Nat
  BY ConstantTypes
<1>5. used + n =< BufferLen
  BY <1>1, <1>2, <1>3, <1>4 DEF Overflows
<1>6. count \in 0..BufferLen /\ count = sent' - HeaderLen /\ 0 + count = count
  BY <1>1, <1>2, <1>3, <1>4, <1>5
<1>7. \A i \in 1..BufferLen : response_buffer'[i] =
          IF i =< count
             THEN IF HeaderLen + i =< TlsBufferLen THEN tls_response_buffer'[HeaderLen + i] ELSE 0
             ELSE IF i = count + 1 THEN 0 ELSE HeadersAsText(n)[i]
  BY DEF FirstOfBody
<1>8. response_buffer' \in Cells(BufferLen)
  <2>1. \A i \in 1..BufferLen : HeaderLen + i =< TlsBufferLen => HeaderLen + i \in 1..TlsBufferLen
    BY <1>4
  <2>2. \A i \in 1..BufferLen :
            (IF i =< count
             THEN IF HeaderLen + i =< TlsBufferLen THEN tls_response_buffer'[HeaderLen + i] ELSE 0
             ELSE IF i = count + 1 THEN 0 ELSE HeadersAsText(n)[i]) \in Int
    BY <1>3, <2>1 DEF Cells
  <2>3. QED
    BY <2>2 DEF FirstOfBody, Cells
<1>9. BodyReady(count)
  <2>1. Len(delivered) = 0 /\ delivered = << >>
    BY <1>2, EmptySeq DEF Untouched
  <2>2. sent' > 0
    BY <1>3
  <2>3. response_body_total_count' = count /\ answer.status = "200" /\ answer.length # Missing
        /\ content_length' = answer.length
    BY DEF FirstOfBody, CountBody
  <2>4. UNCHANGED <<answer, response_mode>>
    BY DEF ReadPacket
  <2>5. response_body_total_count' = Len(delivered) + count
    BY <1>6, <2>1, <2>3
  <2>6. QED
    BY <1>2, <1>3, <1>6, <1>8, <2>1, <2>2, <2>3, <2>4, <2>5 DEF BodyReady
<1>10. BodyFollows(count)
  <2>1. SUFFICES ASSUME firstLen' >= HeaderLen
                 PROVE  /\ DeliversBody
                        /\ \A i \in 1..count : response_buffer'[i] = HeaderLen + Len(delivered) + i
    BY DEF BodyFollows
  <2>2. sent = 0
    <3>1. CASE sent > 0
      <4>1. firstLen' = firstLen /\ firstLen < HeaderLen
        BY <1>2, <1>3, <3>1 DEF ReadPacket
      <4>2. QED
        BY <1>3, <1>4, <2>1, <4>1
    <3>2. QED
      BY <1>3, <3>1
  <2>3. Len(delivered) = 0 /\ DeliversBody
    BY <1>2, EmptySeq DEF Untouched, DeliversBody
  <2>4. ASSUME NEW i \in 1..count PROVE response_buffer'[i] = HeaderLen + Len(delivered) + i
    <3>1. i \in 1..BufferLen /\ i =< count /\ HeaderLen + i =< n /\ HeaderLen + i \in 1..TlsBufferLen
          /\ HeaderLen + i =< TlsBufferLen /\ HeaderLen + 0 + i = HeaderLen + i
      BY <1>2, <1>3, <1>4, <1>6, <2>2
    <3>2. response_buffer'[i] = tls_response_buffer'[HeaderLen + i]
      BY <1>7, <3>1
    <3>3. tls_response_buffer'[HeaderLen + i] = sent + (HeaderLen + i)
      BY <3>1 DEF ReadPacket
    <3>4. QED
      BY <1>4, <2>2, <2>3, <3>1, <3>2, <3>3
  <2>5. QED
    BY <2>3, <2>4
<1>11. ProcessBody(count)
  BY DEF FirstOfBody
<1>12. QED
  BY <1>1, <1>6, <1>9, <1>10, <1>11, ProcessKeepsInv

LEMMA MoreOfBodyKeepsInv ==
    ASSUME ClientInv, NEW n \in 1..TlsBufferLen, ReadPacket(n), MoreOfBody(n)
    PROVE  ClientInv'
<1> DEFINE count == used + n
           L     == Len(delivered)
<1>1. phase = "reading" /\ ~inHeaders /\ ~Overflows(n) /\ ProcessBody(count)
  BY DEF ReadPacket, MoreOfBody
<1>2. /\ n \in Nat /\ n > 0 /\ sent \in Nat /\ sent' = sent + n /\ sent' \in Nat /\ firstLen' \in Nat
      /\ tls_response_buffer' \in Cells(TlsBufferLen) /\ Accumulated(n) \in Cells(BufferLen)
  BY PacketTypes DEF ClientInv
<1>3. HeaderLen \in Nat /\ BufferLen \in Nat
  BY ConstantTypes
<1>4. sent > 0 /\ ~first /\ ~is_processing_headers /\ sent # 0
  BY <1>1, <1>2 DEF inHeaders, first
<1>5. InBody
  BY <1>1, <1>4 DEF ClientInv, Reading
<1>6. used = response_buffer_count /\ total = response_body_total_count /\ expected = content_length
      /\ buffered = response_buffer
  BY <1>4 DEF used, total, expected, buffered
<1>7. used \in Nat /\ used + n =< BufferLen /\ L \in Nat
  <2>1. used \in Nat
    BY <1>6 DEF ClientInv, TypeOK
  <2>2. L \in Nat
    BY LenProperties DEF ClientInv, TypeOK
  <2>3. QED
    BY <1>1, <1>2, <1>3, <2>1, <2>2 DEF Overflows
<1>8. L + used = sent - HeaderLen
  BY <1>5, <1>6 DEF InBody
<1>9. count \in 0..BufferLen
  BY <1>2, <1>3, <1>7
<1>10. BodyReady(count)
  <2>1. response_body_total_count' = (sent - HeaderLen) + n /\ content_length' = answer.length
        /\ response_buffer' = Accumulated(n)
    BY <1>5, <1>6 DEF MoreOfBody, InBody
  <2>2. response_body_total_count' = sent' - HeaderLen /\ response_body_total_count' = L + count /\ sent' > 0
    BY <1>2, <1>3, <1>7, <1>8, <2>1
  <2>3. UNCHANGED <<answer, response_mode>>
    BY DEF ReadPacket
  <2>4. QED
    BY <1>2, <1>5, <2>1, <2>2, <2>3 DEF BodyReady, InBody
<1>11. BodyFollows(count)
  <2>1. SUFFICES ASSUME firstLen' >= HeaderLen
                 PROVE  /\ DeliversBody
                        /\ \A i \in 1..count : response_buffer'[i] = HeaderLen + Len(delivered) + i
    BY DEF BodyFollows
  <2>2. firstLen >= HeaderLen
    BY <1>4, <2>1 DEF ReadPacket
  <2>3. DeliversBody
    BY <2>2 DEF ClientInv, WholeHeadersDeliverBody
  <2>4. ASSUME NEW i \in 1..count PROVE response_buffer'[i] = HeaderLen + L + i
    <3>1. i \in 1..BufferLen /\ (i \in 1..used \/ i \in (used + 1)..(used + n))
      BY <1>2, <1>3, <1>7
    <3>2. response_buffer'[i] =
              IF i \in (used + 1)..(used + n) THEN sent + i - used ELSE response_buffer[i]
      BY <1>6, <3>1 DEF MoreOfBody, Accumulated
    <3>3. CASE i \in (used + 1)..(used + n)
      <4>1. sent + i - used = HeaderLen + L + i
        BY <1>2, <1>3, <1>7, <1>8, <3>3
      <4>2. QED
        BY <3>2, <3>3, <4>1
    <3>4. CASE i \in 1..used
      <4>1. ~(i \in (used + 1)..(used + n))
        BY <1>2, <1>7, <3>4
      <4>2. response_buffer[i] = HeaderLen + L + i
        BY <1>5, <1>6, <2>2, <3>4 DEF InBody
      <4>3. QED
        BY <3>2, <4>1, <4>2
    <3>5. QED
      BY <3>1, <3>3, <3>4
  <2>5. QED
    BY <2>3, <2>4
<1>12. QED
  BY <1>1, <1>9, <1>10, <1>11, ProcessKeepsInv

\* What all packets that do not come to the body have in common.
LEMMA HeaderPacketTypes ==
    ASSUME ClientInv, NEW n \in 1..TlsBufferLen, ReadPacket(n),
           DropPacket(n) \/ AwaitHeaders(n) \/ RejectHeaders(n)
    PROVE  /\ TypeOK'
           /\ sent' > 0
           /\ UNCHANGED <<answer, response_mode, delivered, ends, stopped>>
<1>1. /\ n \in Nat /\ n > 0 /\ sent \in Nat /\ sent' = sent + n /\ sent' \in Nat /\ firstLen' \in Nat
      /\ tls_response_buffer' \in Cells(TlsBufferLen) /\ Accumulated(n) \in Cells(BufferLen)
      /\ HeadersAsText(n) \in Cells(BufferLen)
      /\ buffered \in Cells(BufferLen) /\ used \in 0..BufferLen /\ total \in Nat /\ expected \in Nat
  BY PacketTypes DEF ClientInv
<1>2. BufferLen \in Nat /\ sent' > 0
  BY <1>1, ConstantTypes
<1>3. /\ answer' \in Answer /\ response_mode' \in Mode /\ delivered' \in Seq(Int) /\ ends' \in Nat
      /\ stopped' \in BOOLEAN
      /\ UNCHANGED <<answer, response_mode, delivered, ends, stopped>>
  BY DEF ClientInv, TypeOK, ReadPacket, DropPacket, AwaitHeaders, RejectHeaders, clientVars
<1>4. /\ response_buffer' \in Cells(BufferLen) /\ content_length' \in Nat
      /\ is_processing_headers' \in BOOLEAN
      /\ phase' \in {"reading", "done"}
  BY <1>1 DEF ReadPacket, DropPacket, AwaitHeaders, RejectHeaders, RequestReturns, inHeaders, first,
         ClientInv, TypeOK
<1>5. response_buffer_count' \in 0..BufferLen /\ response_body_total_count' \in Nat
  <2>1. CASE DropPacket(n)
    BY <1>1, <2>1 DEF DropPacket
  <2>2. CASE AwaitHeaders(n) \/ RejectHeaders(n)
    <3>1. ~(used + n > BufferLen) /\ response_buffer_count' = used + n
          /\ response_body_total_count' = total + n
      BY <2>2 DEF AwaitHeaders, RejectHeaders, Overflows
    <3>2. QED
      BY <1>1, <1>2, <3>1
  <2>3. QED
    BY <2>1, <2>2
<1>6. /\ result' \in {"HTTP_SUCCESS", "HTTP_ERR_INVALID_ARGS", "HTTP_ERR_OUT_OF_MEMORY",
                      "HTTP_ERR_SEND_FAILED"}
      /\ errors' \subseteq {"HTTP_ERR_BUFFER_TOO_SMALL", "HTTP_ERR_INVALID_STATUS_LINE",
                            "HTTP_ERR_NON_200_STATUS_CODE"}
  BY DEF DropPacket, AwaitHeaders, RejectHeaders, RequestReturns, ClientInv, TypeOK, clientVars
<1>7. phase' \in {"idle", "reading", "done"}
  BY <1>4
<1>8. QED
  BY <1>1, <1>2, <1>3, <1>4, <1>5, <1>6, <1>7, Zenon DEF TypeOK

\* A packet of the headers delivers nothing.
LEMMA HeaderPacketKeepsInv ==
    ASSUME ClientInv, NEW n \in 1..TlsBufferLen, ReadPacket(n),
           DropPacket(n) \/ AwaitHeaders(n) \/ RejectHeaders(n)
    PROVE  ClientInv'
<1>1. TypeOK' /\ sent' > 0 /\ UNCHANGED <<answer, response_mode, delivered, ends, stopped>>
  BY HeaderPacketTypes
<1>2. phase = "reading" /\ Reading /\ ends' = 0 /\ ~stopped'
  BY <1>1 DEF ReadPacket, ClientInv, Reading
<1>3. ~streaming' => delivered' = << >>
  <2>1. sent \in Nat
    BY DEF ClientInv, TypeOK
  <2>2. sent = 0 \/ sent > 0
    BY <2>1
  <2>3. QED
    BY <1>1, <1>2, <2>2 DEF Reading, InHeaders, InBody, Untouched, streaming
<1>4. EndMeansComplete'
  BY <1>2, <1>3 DEF EndMeansComplete
<1>5. WholeHeadersDeliverBody'
  <2>1. CASE sent = 0
    <3>1. delivered' = << >>
      BY <1>1, <1>2, <2>1 DEF Reading, Untouched
    <3>2. 1..Len(delivered') = {}
      BY <3>1, EmptySeq
    <3>3. QED
      BY <3>2 DEF WholeHeadersDeliverBody, DeliversBody
  <2>2. CASE sent # 0
    <3>1. firstLen' = firstLen
      BY <2>2 DEF ReadPacket
    <3>2. QED
      BY <1>1, <3>1 DEF ClientInv, WholeHeadersDeliverBody, DeliversBody
  <2>3. QED
    BY <2>1, <2>2
<1>6. CASE DropPacket(n)
  <2>1. phase' = "done" /\ errors' # {}
    BY <1>6 DEF DropPacket, RequestReturns
  <2>2. QED
    BY <1>1, <1>4, <1>5, <2>1 DEF ClientInv, AnswerIsDelivered
<1>7. CASE RejectHeaders(n)
  <2>1. phase' = "done"
    BY <1>7 DEF RejectHeaders, RequestReturns
  <2>2. errors' # {} \/ ~answeredInFull'
    BY <1>1, <1>7 DEF RejectHeaders, answeredInFull
  <2>3. QED
    BY <1>1, <1>4, <1>5, <2>1, <2>2 DEF ClientInv, AnswerIsDelivered
<1>8. CASE AwaitHeaders(n)
  <2>1. inHeaders /\ used + n < HeaderLen /\ response_buffer_count' = used + n
        /\ is_processing_headers' = TRUE /\ phase' = phase /\ errors' = errors
    BY <1>8 DEF AwaitHeaders, clientVars
  <2>2. used = sent /\ Untouched /\ (sent > 0 => firstLen < HeaderLen)
    BY <1>2, <2>1, HeadersSoFar
  <2>3. sent \in Nat /\ n \in Nat /\ sent' = sent + n /\ firstLen \in Nat
    BY PacketTypes DEF ClientInv, TypeOK
  <2>4. firstLen' =< sent'
    <3>1. CASE sent = 0
      BY <2>3, <3>1 DEF ReadPacket
    <3>2. CASE sent # 0
      <4>1. sent > 0 /\ ~first /\ firstLen' = firstLen
        BY <2>3, <3>2 DEF ReadPacket, first
      <4>2. firstLen =< sent
        BY <1>2, <2>1, <4>1 DEF Reading, InHeaders, inHeaders
      <4>3. QED
        BY <2>3, <4>1, <4>2
    <3>3. QED
      BY <3>1, <3>2
  <2>5. response_buffer_count' = sent' /\ sent' < HeaderLen
    BY <2>1, <2>2, <2>3
  <2>6. Untouched'
    BY <1>1, <2>2 DEF Untouched
  <2>7. InHeaders'
    BY <2>4, <2>5, <2>6 DEF InHeaders
  <2>8. Reading'
    BY <1>2, <2>1, <2>6, <2>7 DEF Reading
  <2>9. QED
    BY <1>1, <1>2, <1>4, <1>5, <2>1, <2>8 DEF ClientInv, AnswerIsDelivered
<1>9. QED
  BY <1>6, <1>7, <1>8

-----------------------------------------------------------------------------
(* The other steps.                                                        *)

\* When the stream ends, an answer that has come in full has been dealt with before.
LEMMA StreamEndKeepsInv ==
    ASSUME ClientInv, EndOfFile \/ ReadFails
    PROVE  ClientInv'
<1>1. /\ phase = "reading" /\ phase' = "done" /\ Reading
      /\ UNCHANGED <<answer, response_mode, sent, tls_response_buffer, response_buffer, contextVars,
                     clientVars, firstLen>>
      /\ result' \in {"HTTP_SUCCESS", "HTTP_ERR_SEND_FAILED"}
  BY DEF EndOfFile, ReadFails, RequestReturns, ClientInv
<1>2. TypeOK'
  BY <1>1, Zenon DEF ClientInv, TypeOK, contextVars, clientVars
<1>3. EndMeansComplete' /\ WholeHeadersDeliverBody'
  BY <1>1 DEF ClientInv, EndMeansComplete, WholeHeadersDeliverBody, DeliversBody, streaming,
         contextVars, clientVars
<1>4. ~(answeredInFull /\ answer.length > 0)
  <2>1. SUFFICES ASSUME answeredInFull, answer.length > 0 PROVE FALSE
    OBVIOUS
  <2>2. /\ answer.length \in Nat /\ HeaderLen \in Nat /\ HeaderLen > 0 /\ sent \in Nat
        /\ sent >= HeaderLen + answer.length
    BY <2>1, ConstantTypes DEF answeredInFull, ClientInv, TypeOK
  <2>3. sent > 0 /\ ~(sent < HeaderLen)
    BY <2>1, <2>2
  <2>4. InBody
    BY <1>1, <2>3 DEF Reading, InHeaders
  <2>5. sent - HeaderLen < answer.length \/ sent - HeaderLen = 0
    BY <2>4 DEF InBody
  <2>6. QED
    BY <2>1, <2>2, <2>5
<1>5. AnswerIsDelivered'
  BY <1>1, <1>4 DEF AnswerIsDelivered, answeredInFull
<1>6. QED
  BY <1>1, <1>2, <1>3, <1>5 DEF ClientInv

LEMMA RequestStartsAnew ==
    ASSUME ClientInv, https_send_request
    PROVE  ClientInv'
<1>1. /\ answer' \in Answer /\ response_mode' \in Mode /\ phase' \in {"reading", "done"}
      /\ sent' = 0 /\ delivered' = << >> /\ ends' = 0 /\ stopped' = FALSE /\ errors' = {}
  BY DEF https_send_request
<1>2. /\ << >> \in Seq(Int) /\ Len(<< >>) = 0 /\ 1..0 = {}
      /\ HeaderLen \in Nat /\ HeaderLen > 0 /\ BufferLen \in Nat /\ TlsBufferLen \in Nat
      /\ 0 \in 0..BufferLen /\ 0 \in Nat
  BY EmptySeq, ConstantTypes
<1>3. TypeOK'
  BY <1>1, <1>2, ZeroedCells, Zenon DEF https_send_request, ClientInv, TypeOK
<1>4. Untouched' /\ Reading'
  BY <1>1 DEF Untouched, Reading
<1>5. EndMeansComplete' /\ WholeHeadersDeliverBody'
  BY <1>1, <1>2 DEF EndMeansComplete, WholeHeadersDeliverBody, DeliversBody
<1>6. AnswerIsDelivered'
  <2>1. answer'.length # Missing => answer'.length \in Nat
    BY <1>1, ConstantTypes
  <2>2. ~answeredInFull'
    BY <1>1, <1>2, <2>1 DEF answeredInFull
  <2>3. QED
    BY <2>2 DEF AnswerIsDelivered
<1>7. QED
  BY <1>1, <1>3, <1>4, <1>5, <1>6 DEF ClientInv

LEMMA InitClient == Init => ClientInv
<1> SUFFICES ASSUME Init PROVE ClientInv
  OBVIOUS
<1>1. /\ << >> \in Seq(Int) /\ Len(<< >>) = 0 /\ 1..0 = {}
      /\ BufferLen \in Nat /\ TlsBufferLen \in Nat
      /\ 0 \in 0..BufferLen /\ 0 \in Nat
  BY EmptySeq, ConstantTypes
<1>2. TypeOK
  BY <1>1, ZeroedCells, Zenon DEF Init, TypeOK
<1>3. QED
  BY <1>1, <1>2 DEF Init, ClientInv, Untouched, EndMeansComplete, AnswerIsDelivered,
         WholeHeadersDeliverBody, DeliversBody

LEMMA NextKeepsClient == ClientInv /\ [Next]_vars => ClientInv'
<1> SUFFICES ASSUME ClientInv, [Next]_vars PROVE ClientInv'
  OBVIOUS
<1>1. CASE https_send_request
  BY <1>1, RequestStartsAnew
<1>2. ASSUME NEW n \in 1..TlsBufferLen, https_tls_callback(n) PROVE ClientInv'
  BY <1>2, HeaderPacketKeepsInv, FirstOfBodyKeepsInv, MoreOfBodyKeepsInv DEF https_tls_callback
<1>3. CASE EndOfFile \/ ReadFails
  BY <1>3, StreamEndKeepsInv
<1>4. CASE UNCHANGED vars
  BY <1>4 DEF vars, contextVars, clientVars, ClientInv, TypeOK, Untouched, Reading, InHeaders, InBody,
         EndMeansComplete, AnswerIsDelivered, answeredInFull, WholeHeadersDeliverBody, DeliversBody,
         streaming
<1>5. QED
  BY <1>1, <1>2, <1>3, <1>4 DEF Next

\* The response buffer is never filled beyond its length, for every size of the
\* buffers and every way the answer is cut into packets.
THEOREM BufferSuffices == Spec => []TypeOK
<1>1. ClientInv => TypeOK
  BY DEF ClientInv
<1>2. QED
  BY <1>1, InitClient, NextKeepsClient, PTL DEF Spec

\* The end of a body is announced once, and only for a body that has come in full.
THEOREM EndIsTrue == Spec => []EndMeansComplete
<1>1. ClientInv => EndMeansComplete
  BY DEF ClientInv
<1>2. QED
  BY <1>1, InitClient, NextKeepsClient, PTL DEF Spec

\* No answer the buffer can take is left undelivered.
THEOREM AnswersAreDelivered == Spec => []AnswerIsDelivered
<1>1. ClientInv => AnswerIsDelivered
  BY DEF ClientInv
<1>2. QED
  BY <1>1, InitClient, NextKeepsClient, PTL DEF Spec

\* When the headers come in one packet, the callback is given the body byte for byte,
\* wherever the packets after it begin and end.
THEOREM BodyIsDelivered == Spec => []WholeHeadersDeliverBody
<1>1. ClientInv => WholeHeadersDeliverBody
  BY DEF ClientInv
<1>2. QED
  BY <1>1, InitClient, NextKeepsClient, PTL DEF Spec

\* Nothing is delivered after the callback has stopped, or after the end.
THEOREM NothingAfterTheEnd == Spec => StopIsFinal
<1>1. ClientInv /\ [Next]_vars =>
          [(stopped \/ ends > 0) /\ (stopped' \/ ends' > 0) => UNCHANGED <<delivered, ends>>]_vars
  <2>1. SUFFICES ASSUME ClientInv, Next, stopped \/ ends > 0, stopped' \/ ends' > 0
                 PROVE  UNCHANGED <<delivered, ends>>
    OBVIOUS
  <2>2. phase # "reading"
    <3>1. ~(0 > 0)
      OBVIOUS
    <3>2. QED
      BY <2>1, <3>1 DEF ClientInv, Reading
  <2>3. https_send_request
    BY <2>1, <2>2 DEF Next, https_tls_callback, ReadPacket, EndOfFile, ReadFails
  <2>4. stopped' = FALSE /\ ends' = 0
    BY <2>3 DEF https_send_request
  <2>5. QED
    BY <2>1, <2>4
<1>2. QED
  BY <1>1, InitClient, NextKeepsClient, PTL DEF Spec, StopIsFinal

-----------------------------------------------------------------------------
(* The end of the text.                                                    *)

\* Behind the body that has been received so far: the 0 written with the first packet,
\* which has len bytes, until there is more of the body; and zeroes from where neither
\* that packet nor the body has reached.
TextBehind(buffer, count, len) ==
    /\ count >= len - HeaderLen
    /\ count = len - HeaderLen => count < BufferLen /\ buffer[count + 1] = 0
    /\ \A i \in 1..BufferLen : i > len /\ i > count => buffer[i] = 0

TextInv ==
    /\ TextEndsWithBody
    /\ phase = "reading" /\ sent > 0 /\ ~is_processing_headers /\ ~streaming
       /\ firstLen >= HeaderLen
          => TextBehind(response_buffer, response_buffer_count, firstLen)

\* While a whole body is waited for nothing has been delivered.
LEMMA NothingYet ==
    ASSUME ClientInv, phase = "reading", ~streaming
    PROVE  delivered = << >>
<1>1. sent \in Nat
  BY DEF ClientInv, TypeOK
<1>2. sent = 0 \/ sent > 0
  BY <1>1
<1>3. QED
  BY <1>2 DEF ClientInv, Reading, InHeaders, InBody, Untouched

LEMMA ProcessKeepsText ==
    ASSUME ClientInv, phase = "reading", UNCHANGED response_mode, NEW count \in 0..BufferLen,
           response_buffer' \in Cells(BufferLen), firstLen' \in Nat,
           firstLen' >= HeaderLen => TextBehind(response_buffer', count, firstLen'),
           ProcessBody(count)
    PROVE  TextInv'
<1> DEFINE given == SubSeq(response_buffer', 1, count)
<1>1. streaming' = streaming
  BY DEF streaming
<1>2. CASE streaming
  BY <1>1, <1>2 DEF TextInv, TextEndsWithBody
<1>3. CASE ~streaming
  <2>1. delivered = << >> /\ Len(<< >>) = 0
    BY <1>3, NothingYet
  <2>2. CASE WaitForBody(count)
    <3>1. /\ phase' = phase /\ delivered' = << >> /\ response_buffer_count' = count
          /\ is_processing_headers' = FALSE
      BY <2>1, <2>2 DEF WaitForBody, clientVars, ProcessBody
    <3>2. ~(Len(delivered') > 0)
      BY <2>1, <3>1
    <3>3. QED
      BY <3>1, <3>2 DEF TextInv, TextEndsWithBody
  <2>3. CASE WholeBody(response_buffer', count)
    <3>1. phase' = "done" /\ delivered' = << >> \o given
      BY <2>1, <2>3 DEF WholeBody, GiveToCallback, RequestReturns
    <3>2. given \in Seq(Int) /\ Len(given) = count
      BY Given
    <3>3. Len(delivered') = count
      BY <3>1, <3>2, ConcatEmptySeq
    <3>4. count \in Nat /\ BufferLen \in Nat /\ HeaderLen \in Nat /\ HeaderLen > 0
      BY ConstantTypes
    <3>5. ASSUME firstLen' >= HeaderLen,
                 count = firstLen' - HeaderLen \/ count \in firstLen'..(BufferLen - 1)
          PROVE  response_buffer'[count + 1] = 0
      <4>1. TextBehind(response_buffer', count, firstLen')
        BY <3>5
      <4>2. CASE count = firstLen' - HeaderLen
        BY <4>1, <4>2 DEF TextBehind
      <4>3. CASE count \in firstLen'..(BufferLen - 1)
        <5>1. count + 1 \in 1..BufferLen /\ count + 1 > firstLen' /\ count + 1 > count
          BY <3>4, <4>3
        <5>2. QED
          BY <4>1, <5>1 DEF TextBehind
      <4>4. QED
        BY <3>5, <4>2, <4>3
    <3>6. QED
      BY <3>1, <3>3, <3>5 DEF TextInv, TextEndsWithBody
  <2>4. ~NoFragment(count) /\ ~Fragment(response_buffer', count)
    BY <1>3 DEF NoFragment, Fragment, streaming
  <2>5. QED
    BY <2>2, <2>3, <2>4 DEF ProcessBody
<1>4. QED
  BY <1>2, <1>3

\* The packet the headers end in.
LEMMA FirstOfBodyKeepsText ==
    ASSUME ClientInv, NEW n \in 1..TlsBufferLen, ReadPacket(n), FirstOfBody(n)
    PROVE  TextInv'
<1> DEFINE count == used + n - HeaderLen
<1>1. /\ phase = "reading" /\ inHeaders /\ ~Overflows(n) /\ used + n >= HeaderLen
      /\ UNCHANGED response_mode
  BY DEF ReadPacket, FirstOfBody
<1>2. used = sent /\ (sent > 0 => firstLen < HeaderLen)
  BY <1>1, HeadersSoFar
<1>3. /\ n \in Nat /\ n > 0 /\ sent \in Nat /\ firstLen \in Nat /\ firstLen' \in Nat
      /\ HeaderLen \in Nat /\ HeaderLen > 0 /\ BufferLen \in Nat
  BY PacketTypes, ConstantTypes DEF ClientInv, TypeOK
<1>4. used + n =< BufferLen /\ count \in 0..BufferLen /\ count < BufferLen
  BY <1>1, <1>2, <1>3 DEF Overflows
<1>5. ProcessBody(count) /\ ClientInv'
  BY FirstOfBodyKeepsInv DEF FirstOfBody
<1>6. response_buffer' \in Cells(BufferLen)
  BY <1>5 DEF ClientInv, TypeOK
<1>7. ASSUME firstLen' >= HeaderLen
      PROVE  TextBehind(response_buffer', count, firstLen')
  <2>1. sent = 0
    <3>1. CASE sent > 0
      <4>1. firstLen' = firstLen /\ firstLen < HeaderLen
        BY <1>2, <1>3, <3>1 DEF ReadPacket
      <4>2. QED
        BY <1>3, <1>7, <4>1
    <3>2. QED
      BY <1>3, <3>1
  <2>2. first /\ firstLen' = n /\ used = 0 /\ count = n - HeaderLen
    BY <1>2, <1>3, <2>1 DEF first, ReadPacket
  <2>3. \A i \in 1..BufferLen : response_buffer'[i] =
            IF i =< count
               THEN IF HeaderLen + i =< TlsBufferLen THEN tls_response_buffer'[HeaderLen + i] ELSE 0
               ELSE IF i = count + 1 THEN 0 ELSE HeadersAsText(n)[i]
    BY DEF FirstOfBody
  <2>4. count + 1 \in 1..BufferLen /\ ~(count + 1 =< count)
    BY <1>3, <1>4
  <2>5. response_buffer'[count + 1] = 0
    BY <2>3, <2>4
  <2>6. ASSUME NEW i \in 1..BufferLen, i > n, i > count
        PROVE  response_buffer'[i] = 0
    <3>1. Accumulated(n)[i] = IF i \in (used + 1)..(used + n) THEN sent + i - used ELSE buffered[i]
      BY DEF Accumulated
    <3>2. ~(i \in (used + 1)..(used + n)) /\ ~(i =< count)
      BY <1>3, <1>4, <2>2, <2>6
    <3>3. buffered[i] = 0
      BY <2>2 DEF buffered, Zeroed
    <3>4. i # HeaderLen - EmptyLineLen + 1
      BY <1>1, <1>3, <2>2, <2>6, ConstantTypes
    <3>5. HeadersAsText(n)[i] = Accumulated(n)[i]
      BY <3>4 DEF HeadersAsText, Accumulated
    <3>6. QED
      BY <2>3, <3>1, <3>2, <3>3, <3>5
  <2> HIDE DEF count
  <2>7. QED
    BY <1>3, <1>4, <2>2, <2>5, <2>6 DEF TextBehind
<1> HIDE DEF count
<1>8. QED
  BY <1>1, <1>3, <1>4, <1>5, <1>6, <1>7, ProcessKeepsText

\* A packet of the body, which leaves what is behind it as it was.
LEMMA MoreOfBodyKeepsText ==
    ASSUME ClientInv, TextInv, NEW n \in 1..TlsBufferLen, ReadPacket(n), MoreOfBody(n)
    PROVE  TextInv'
<1> DEFINE count == used + n
<1>1. /\ phase = "reading" /\ ~inHeaders /\ ~Overflows(n) /\ UNCHANGED response_mode
      /\ ProcessBody(count) /\ response_buffer' = Accumulated(n) /\ ClientInv'
  BY MoreOfBodyKeepsInv DEF ReadPacket, MoreOfBody
<1>2. /\ n \in Nat /\ n > 0 /\ sent \in Nat /\ firstLen' \in Nat /\ response_buffer_count \in Nat
      /\ HeaderLen \in Nat /\ BufferLen \in Nat
  BY PacketTypes, ConstantTypes DEF ClientInv, TypeOK
<1>3. sent > 0 /\ sent # 0 /\ ~first /\ ~is_processing_headers
  BY <1>1, <1>2 DEF inHeaders, first
<1>4. used = response_buffer_count /\ buffered = response_buffer /\ firstLen' = firstLen
  BY <1>3 DEF used, buffered, ReadPacket
<1>5. used + n =< BufferLen /\ count \in 0..BufferLen
  BY <1>1, <1>2, <1>4 DEF Overflows
<1>6. response_buffer' \in Cells(BufferLen)
  BY <1>1 DEF ClientInv, TypeOK
<1>7. CASE streaming
  BY <1>1, <1>7 DEF TextInv, TextEndsWithBody, streaming
<1>8. CASE ~streaming
  <2>1. ASSUME firstLen' >= HeaderLen
        PROVE  TextBehind(response_buffer', count, firstLen')
    <3>1. TextBehind(response_buffer, used, firstLen')
      BY <1>1, <1>3, <1>4, <1>8, <2>1 DEF TextInv
    <3>2. count > firstLen' - HeaderLen
      BY <1>2, <1>4, <3>1 DEF TextBehind
    <3>3. ASSUME NEW i \in 1..BufferLen, i > firstLen', i > count
          PROVE  response_buffer'[i] = 0
      <4>1. ~(i \in (used + 1)..(used + n)) /\ i > used
        BY <1>2, <1>4, <3>3
      <4>2. response_buffer'[i] = response_buffer[i]
        BY <1>1, <1>4, <4>1 DEF Accumulated
      <4>3. QED
        BY <3>1, <3>3, <4>1, <4>2 DEF TextBehind
    <3>4. count >= firstLen' - HeaderLen /\ ~(count = firstLen' - HeaderLen)
      BY <1>2, <1>4, <3>2
    <3> HIDE DEF count
    <3>5. QED
      BY <3>3, <3>4, Zenon DEF TextBehind
  <2> HIDE DEF count
  <2>2. QED
    BY <1>1, <1>2, <1>5, <1>6, <2>1, ProcessKeepsText
<1>9. QED
  BY <1>7, <1>8

\* The other steps deliver nothing to a request for a whole body.
LEMMA NothingDelivered ==
    ASSUME ClientInv,
           \/ https_send_request \/ EndOfFile \/ ReadFails
           \/ \E n \in 1..TlsBufferLen : /\ ReadPacket(n)
                                         /\ DropPacket(n) \/ AwaitHeaders(n) \/ RejectHeaders(n)
    PROVE  TextInv'
<1>1. Len(<< >>) = 0 /\ ~(0 > 0)
  OBVIOUS
<1>2. CASE https_send_request
  <2>1. delivered' = << >> /\ sent' = 0
    BY <1>2 DEF https_send_request
  <2>2. QED
    BY <1>1, <2>1 DEF TextInv, TextEndsWithBody
<1>3. CASE \/ EndOfFile \/ ReadFails
           \/ \E n \in 1..TlsBufferLen : /\ ReadPacket(n)
                                         /\ DropPacket(n) \/ AwaitHeaders(n) \/ RejectHeaders(n)
  <2>1. phase = "reading" /\ delivered' = delivered /\ streaming' = streaming
    BY <1>3 DEF EndOfFile, ReadFails, ReadPacket, DropPacket, AwaitHeaders, RejectHeaders,
                clientVars, streaming
  <2>2. ~streaming => delivered = << >>
    BY <2>1, NothingYet
  <2>3. phase' = "reading" => is_processing_headers' = TRUE
    BY <1>3 DEF EndOfFile, ReadFails, DropPacket, AwaitHeaders, RejectHeaders, RequestReturns
  <2>4. QED
    BY <1>1, <2>1, <2>2, <2>3 DEF TextInv, TextEndsWithBody
<1>4. QED
  BY <1>2, <1>3

\* The string functions find the end of a whole body, for every length of the first
\* packet and of the body.
THEOREM TextsAreTerminated == Spec => []TextEndsWithBody
<1>1. Init => TextInv
  <2>1. Len(<< >>) = 0 /\ ~(0 > 0)
    OBVIOUS
  <2>2. QED
    BY <2>1 DEF Init, TextInv, TextEndsWithBody
<1>2. ClientInv /\ TextInv /\ [Next]_vars => TextInv'
  <2> SUFFICES ASSUME ClientInv, TextInv, [Next]_vars PROVE TextInv'
    OBVIOUS
  <2>1. CASE https_send_request \/ EndOfFile \/ ReadFails
    BY <2>1, NothingDelivered
  <2>2. ASSUME NEW n \in 1..TlsBufferLen, https_tls_callback(n) PROVE TextInv'
    BY <2>2, NothingDelivered, FirstOfBodyKeepsText, MoreOfBodyKeepsText DEF https_tls_callback
  <2>3. CASE UNCHANGED vars
    BY <2>3, Zenon DEF vars, contextVars, clientVars, TextInv, TextEndsWithBody, TextBehind, streaming
  <2>4. QED
    BY <2>1, <2>2, <2>3 DEF Next
<1>3. TextInv => TextEndsWithBody
  BY DEF TextInv
<1>4. QED
  BY <1>1, <1>2, <1>3, InitClient, NextKeepsClient, PTL DEF Spec
=============================================================================
