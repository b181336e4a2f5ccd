---------------------------- MODULE WifiTlsProofs ----------------------------
(***************************************************************************)
(* What wifi_tls.c guarantees for every number of sockets, set of keys,    *)
(* buffer size and length of a request.                                    *)
(***************************************************************************)

EXTENDS WifiTls, SequenceTheorems, FiniteSetTheorems, TLAPS

\* The groups of variables a step leaves alone.
USE DEF objectVars, contextVars, socketVars, historyVars

-----------------------------------------------------------------------------
(* The comparison of keys.                                                 *)

LEMMA BufferEndsWithKey ==
    ASSUME NEW key \in Key
    PROVE  /\ key \in Seq(Nat) /\ Len(key) \in 0..BufSize
           /\ Buffer(key) \in Seq(Nat) /\ Len(Buffer(key)) = BufSize
           /\ \A i \in 1..Len(key) : Buffer(key)[BufSize - Len(key) + i] = key[i]
           /\ \A i \in 1..(BufSize - Len(key)) : Buffer(key)[i] = 0
<1> DEFINE pad == BufSize - Len(key)
           zeroes == [i \in 1..pad |-> 0]
<1>1. key \in Seq(Nat) /\ Len(key) \in Nat /\ Len(key) =< BufSize /\ BufSize \in Nat
  BY KeyAssumption, LengthAssumption, LenProperties
<1>2. pad \in Nat /\ pad + Len(key) = BufSize
  BY <1>1
<1>3. zeroes \in [1..pad -> Nat]
  OBVIOUS
<1>4. zeroes \in Seq(Nat)
  BY <1>2, <1>3
<1>5. \A i \in 1..pad : zeroes[i] = 0
  OBVIOUS
<1>6. Len(zeroes) = pad
  BY <1>2, <1>3, <1>4, LenProperties
<1>7. Buffer(key) = zeroes \o key
  BY DEF Buffer
<1> HIDE DEF zeroes
<1>8. /\ zeroes \o key \in Seq(Nat)
      /\ Len(zeroes \o key) = Len(zeroes) + Len(key)
      /\ \A i \in 1..(Len(zeroes) + Len(key)) :
             (zeroes \o key)[i] = IF i =< Len(zeroes) THEN zeroes[i] ELSE key[i - Len(zeroes)]
  BY <1>1, <1>4, ConcatProperties
<1> HIDE DEF pad
<1>9. ASSUME NEW i \in 1..Len(key) PROVE Buffer(key)[pad + i] = key[i]
  <2>1. pad + i \in 1..(pad + Len(key)) /\ ~(pad + i =< pad) /\ (pad + i) - pad = i
    BY <1>1, <1>2
  <2>2. (zeroes \o key)[pad + i] = key[(pad + i) - pad]
    BY <1>6, <1>8, <2>1
  <2>3. QED
    BY <1>7, <2>1, <2>2
<1>10. \A i \in 1..Len(key) : Buffer(key)[BufSize - Len(key) + i] = key[i]
  BY <1>9 DEF pad
<1>11. \A i \in 1..pad : Buffer(key)[i] = 0
  <2> SUFFICES ASSUME NEW i \in 1..pad PROVE Buffer(key)[i] = 0
    OBVIOUS
  <2>1. i \in 1..(Len(zeroes) + Len(key)) /\ i =< Len(zeroes)
    BY <1>1, <1>2, <1>6
  <2>2. (zeroes \o key)[i] = zeroes[i]
    BY <1>8, <2>1
  <2>3. QED
    BY <1>7, <1>5, <2>2
<1>12. Buffer(key) \in Seq(Nat) /\ Len(Buffer(key)) = BufSize
  BY <1>2, <1>6, <1>7, <1>8
<1>13. Len(key) \in 0..BufSize
  BY <1>1
<1>14. QED
  BY <1>1, <1>10, <1>12, <1>13, <1>11 DEF pad

\* As many bytes as a key has, from the beginning of its buffer.
LEMMA ComparedBytes ==
    ASSUME NEW key \in Key
    PROVE  /\ SubSeq(Buffer(key), 1, Len(key)) \in Seq(Nat)
           /\ Len(SubSeq(Buffer(key), 1, Len(key))) = Len(key)
           /\ \A j \in 1..Len(key) :
                  SubSeq(Buffer(key), 1, Len(key))[j] =
                      IF j =< BufSize - Len(key) THEN 0 ELSE key[j - (BufSize - Len(key))]
<1> DEFINE L == Len(key)
           buffer == Buffer(key)
<1>1. /\ L \in Nat /\ L =< BufSize /\ BufSize \in Nat
      /\ buffer \in Seq(Nat) /\ Len(buffer) = BufSize
  BY BufferEndsWithKey, LengthAssumption
<1>2. \A j \in 1..L : buffer[j] = IF j =< BufSize - L THEN 0 ELSE key[j - (BufSize - L)]
  <2> SUFFICES ASSUME NEW j \in 1..L
               PROVE  buffer[j] = IF j =< BufSize - L THEN 0 ELSE key[j - (BufSize - L)]
    OBVIOUS
  <2>1. CASE j =< BufSize - L
    BY <1>1, <2>1, BufferEndsWithKey
  <2>2. CASE ~(j =< BufSize - L)
    <3>1. j - (BufSize - L) \in 1..L /\ BufSize - L + (j - (BufSize - L)) = j
      BY <1>1, <2>2
    <3>2. buffer[BufSize - L + (j - (BufSize - L))] = key[j - (BufSize - L)]
      BY <3>1, BufferEndsWithKey
    <3>3. QED
      BY <2>2, <3>1, <3>2
  <2>3. QED
    BY <2>1, <2>2
<1> HIDE DEF buffer
<1>3. \A j \in 1..L : buffer[j] \in Nat
  BY <1>1, ElementOfSeq
<1>4. /\ SubSeq(buffer, 1, L) \in Seq(Nat)
      /\ Len(SubSeq(buffer, 1, L)) = IF 1 =< L THEN L - 1 + 1 ELSE 0
      /\ \A j \in 1..(L - 1 + 1) : SubSeq(buffer, 1, L)[j] = buffer[1 + j - 1]
  BY <1>1, <1>3, SubSeqProperties
<1> HIDE DEF L
<1>5. /\ Len(SubSeq(buffer, 1, L)) = L
      /\ \A j \in 1..L : SubSeq(buffer, 1, L)[j] = buffer[j]
  BY <1>1, <1>4
<1>6. \A j \in 1..L : SubSeq(buffer, 1, L)[j] = IF j =< BufSize - L THEN 0 ELSE key[j - (BufSize - L)]
  BY <1>2, <1>5
<1>7. QED
  BY <1>4, <1>5, <1>6 DEF buffer, L

\* What the comparison of two keys of one length sees: mbedTLS writes them to the end of
\* their buffers, and as many bytes as they have are compared from the beginning, so that
\* it sees no more of them than their first 2 * Len - BufSize bytes.
THEOREM ComparisonReach ==
    ASSUME NEW key \in Key
    PROVE  Matches(key) <=>
               /\ Len(key) = Len(PinnedKey)
               /\ \A i \in 1..(2 * Len(key) - BufSize) : key[i] = PinnedKey[i]
<1> SUFFICES ASSUME Len(key) = Len(PinnedKey)
             PROVE  (SubSeq(Buffer(key), 1, Len(key)) = SubSeq(Buffer(PinnedKey), 1, Len(key)))
                        <=> (\A i \in 1..(2 * Len(key) - BufSize) : key[i] = PinnedKey[i])
  BY DEF Matches
<1> DEFINE L == Len(key)
           pad == BufSize - L
           a == SubSeq(Buffer(key), 1, L)
           b == SubSeq(Buffer(PinnedKey), 1, L)
<1>1. /\ a \in Seq(Nat) /\ Len(a) = L
      /\ \A j \in 1..L : a[j] = IF j =< pad THEN 0 ELSE key[j - pad]
  BY ComparedBytes
<1>2. /\ b \in Seq(Nat) /\ Len(b) = L
      /\ \A j \in 1..L : b[j] = IF j =< pad THEN 0 ELSE PinnedKey[j - pad]
  BY ComparedBytes, KeyAssumption
<1>3. L \in Nat /\ L =< BufSize /\ BufSize \in Nat
  BY BufferEndsWithKey, LengthAssumption
<1> HIDE DEF a, b, L
<1>4. ASSUME a = b, NEW i \in 1..(2 * L - BufSize) PROVE key[i] = PinnedKey[i]
  <2>1. pad + i \in 1..L /\ ~(pad + i =< pad) /\ (pad + i) - pad = i
    BY <1>3
  <2>2. a[pad + i] = key[(pad + i) - pad] /\ b[pad + i] = PinnedKey[(pad + i) - pad]
    BY <1>1, <1>2, <2>1
  <2>3. QED
    BY <1>4, <2>1, <2>2
<1>5. ASSUME \A i \in 1..(2 * L - BufSize) : key[i] = PinnedKey[i] PROVE a = b
  <2>1. ASSUME NEW j \in 1..L PROVE a[j] = b[j]
    <3>1. CASE j =< pad
      BY <1>1, <1>2, <3>1
    <3>2. CASE ~(j =< pad)
      <4>1. j - pad \in 1..(2 * L - BufSize)
        BY <1>3, <3>2
      <4>2. a[j] = key[j - pad] /\ b[j] = PinnedKey[j - pad]
        BY <1>1, <1>2, <3>2
      <4>3. QED
        BY <1>5, <4>1, <4>2
    <3>3. QED
      BY <3>1, <3>2
  <2>2. QED
    BY <1>1, <1>2, <2>1, SeqEqual
<1>6. QED
  BY <1>4, <1>5 DEF a, b, L

-----------------------------------------------------------------------------
(* Sockets and objects.                                                    *)

\* What is held besides the connection in hand belongs to requests that were given up.
HeldInv ==
    /\ open \subseteq Socket
    /\ abandoned \in Nat
    /\ is_valid \in BOOLEAN /\ leaked \in BOOLEAN
    /\ is_valid = (mbedtls = "set_up")
    /\ pc \in {"create", "failed"} => ~is_valid
    /\ is_valid /\ pc = "idle" => abandoned # 0
    /\ leaked => abandoned # 0
    /\ pc \in {"create", "idle", "net_connect", "failed"} => Cardinality(open) =< abandoned
    /\ Cardinality(open \ {server_fd}) =< abandoned

\* Which sockets are open counts only with the one in hand left out.
LEMMA OpenCounts ==
    ASSUME open \subseteq Socket, NEW s
    PROVE  /\ IsFiniteSet(open) /\ Cardinality(open) \in Nat
           /\ Cardinality(open \ {s}) \in Nat
           /\ Cardinality(open \ {s}) =< Cardinality(open)
           /\ Cardinality(open) =< Cardinality(open \ {s}) + 1
<1>1. IsFiniteSet(open)
  BY SocketAssumption, FS_Subset
<1>2. Cardinality(open) \in Nat
  BY <1>1, FS_CardinalityType
<1>3. IsFiniteSet(open \ {s}) /\ Cardinality(open \ {s}) =
          IF s \in open THEN Cardinality(open) - 1 ELSE Cardinality(open)
  BY <1>1, FS_RemoveElement
<1>4. Cardinality(open \ {s}) \in Nat
  BY <1>3, FS_CardinalityType
<1>5. QED
  BY <1>1, <1>2, <1>3, <1>4

LEMMA DisconnectKeepsHeld ==
    ASSUME HeldInv, wifi_tls_disconnect, UNCHANGED <<abandoned, leaked>>
    PROVE  HeldInv'
<1>1. open' = open \ {server_fd} /\ is_valid' = FALSE /\ mbedtls' = "freed"
  BY DEF wifi_tls_disconnect, wifi_tls_reset_context
<1>2. Cardinality(open') =< abandoned' /\ abandoned' \in Nat /\ open' \subseteq Socket
  BY <1>1 DEF HeldInv
<1>3. Cardinality(open' \ {server_fd'}) \in Nat /\ Cardinality(open' \ {server_fd'}) =< Cardinality(open')
      /\ Cardinality(open') \in Nat
  <2>1. open' \subseteq Socket /\ SocketAssumption
    BY <1>2, SocketAssumption
  <2>2. IsFiniteSet(open')
    BY <2>1, SocketAssumption, FS_Subset
  <2>3. Cardinality(open') \in Nat
    BY <2>2, FS_CardinalityType
  <2>4. open' \ {server_fd'} \in SUBSET open'
    OBVIOUS
  <2>5. IsFiniteSet(open' \ {server_fd'}) /\ Cardinality(open' \ {server_fd'}) =< Cardinality(open')
    BY <2>2, <2>4, FS_Subset
  <2>6. QED
    BY <2>3, <2>5, FS_CardinalityType
<1>4. Cardinality(open' \ {server_fd'}) =< abandoned'
  BY <1>2, <1>3
<1>5. QED
  BY <1>1, <1>2, <1>4 DEF HeldInv

LEMMA NextKeepsHeld == HeldInv /\ [Next]_vars => HeldInv'
<1> SUFFICES ASSUME HeldInv, [Next]_vars PROVE HeldInv'
  OBVIOUS
<1>1. CASE wifi_tls_create_context
  BY <1>1 DEF HeldInv, wifi_tls_create_context
<1>2. CASE wifi_tls_free_context
  <2>1. Cardinality(open) \in Nat /\ Cardinality(open \ {0}) \in Nat
        /\ Cardinality(open \ {0}) =< Cardinality(open)
    BY OpenCounts DEF HeldInv
  <2>2. Cardinality(open \ {0}) =< abandoned
    BY <1>2, <2>1 DEF HeldInv, wifi_tls_free_context
  <2>3. QED
    BY <1>2, <2>2, Zenon DEF HeldInv, wifi_tls_free_context
<1>3. CASE wifi_tls_init_context
  BY <1>3, Zenon DEF HeldInv, wifi_tls_init_context, wifi_tls_reset_context
<1>4. CASE NetConnect
  <2>1. ASSUME NEW s \in Socket \ open, server_fd' = s, open' = open \cup {s},
               UNCHANGED <<is_valid, mbedtls, session>>, pc' = "handshake"
        PROVE  HeldInv'
    <3>1. open' \ {server_fd'} = open /\ open' \subseteq Socket
      BY <2>1 DEF HeldInv
    <3>2. QED
      BY <1>4, <2>1, <3>1 DEF HeldInv, NetConnect
  <2>2. ASSUME wifi_tls_reset_context, pc' = "failed", UNCHANGED open
        PROVE  HeldInv'
    <3>1. Cardinality(open) \in Nat /\ Cardinality(open \ {server_fd'}) \in Nat
          /\ Cardinality(open \ {server_fd'}) =< Cardinality(open)
      BY OpenCounts DEF HeldInv
    <3>2. Cardinality(open \ {server_fd'}) =< abandoned
      BY <1>4, <3>1 DEF HeldInv, NetConnect
    <3>3. QED
      BY <1>4, <2>2, <3>2, Zenon DEF HeldInv, NetConnect, wifi_tls_reset_context
  <2>3. QED
    BY <1>4, <2>1, <2>2 DEF NetConnect
<1>5. CASE wifi_tls_handshake
  <2>1. CASE wifi_tls_disconnect
    BY <1>5, <2>1, DisconnectKeepsHeld DEF wifi_tls_handshake
  <2>2. CASE ~wifi_tls_disconnect
    BY <1>5, <2>2 DEF HeldInv, wifi_tls_handshake, ConnectFails
  <2>3. QED
    BY <2>1, <2>2
<1>6. CASE wifi_tls_cert_pinning
  <2>1. CASE wifi_tls_disconnect
    BY <1>6, <2>1, DisconnectKeepsHeld DEF wifi_tls_cert_pinning
  <2>2. CASE ~wifi_tls_disconnect
    BY <1>6, <2>2 DEF HeldInv, wifi_tls_cert_pinning, ConnectFails
  <2>3. QED
    BY <2>1, <2>2
<1>7. CASE CheckGivesUp \/ BeginRequest
  BY <1>7 DEF HeldInv, CheckGivesUp, BeginRequest
<1>8. CASE Abandon
  <2>1. Cardinality(open) =< Cardinality(open \ {server_fd}) + 1
        /\ Cardinality(open) \in Nat /\ Cardinality(open \ {server_fd}) \in Nat
    BY OpenCounts DEF HeldInv
  <2>2. QED
    BY <1>8, <2>1 DEF HeldInv, Abandon
<1>9. CASE Write
  <2>1. CASE wifi_tls_disconnect
    BY <1>9, <2>1, DisconnectKeepsHeld DEF Write
  <2>2. CASE ~wifi_tls_disconnect
    BY <1>9, <2>2 DEF HeldInv, Write, RequestEnds
  <2>3. QED
    BY <2>1, <2>2
<1>10. CASE Read
  <2>1. CASE wifi_tls_disconnect
    BY <1>10, <2>1, DisconnectKeepsHeld DEF Read
  <2>2. CASE ~wifi_tls_disconnect
    BY <1>10, <2>2 DEF HeldInv, Read, RequestEnds
  <2>3. QED
    BY <2>1, <2>2
<1>11. CASE Panic
  <2>1. {} \ {0} = {} /\ Cardinality({}) = 0 /\ 0 \in Nat /\ 0 =< 0 /\ {} \subseteq Socket
    BY FS_EmptySet
  <2>2. QED
    BY <1>11, <2>1, Zenon DEF HeldInv, Panic
<1>12. CASE Settle
  BY <1>12 DEF HeldInv, Settle
<1>13. CASE UNCHANGED vars
  BY <1>13 DEF HeldInv, vars
<1>14. QED
  BY <1>1, <1>2, <1>3, <1>4, <1>5, <1>6, <1>7, <1>8, <1>9, <1>10, <1>11, <1>12, <1>13
     DEF Next, Caller

LEMMA InitHeld == Init => HeldInv
<1>1. {} \ {0} = {} /\ Cardinality({}) = 0 /\ 0 \in Nat /\ 0 =< 0 /\ {} \subseteq Socket
  BY FS_EmptySet
<1>2. QED
  BY <1>1, Zenon DEF Init, HeldInv

\* However connections and requests fail, no socket and no mbedTLS object is left over
\* from them but those of requests that were given up before wifi_tls saw them.
THEOREM NothingIsLeft == Spec => []NothingHeldBetweenRequests
<1>1. HeldInv => NothingHeldBetweenRequests
  BY DEF HeldInv, NothingHeldBetweenRequests
<1>2. QED
  BY <1>1, InitHeld, NextKeepsHeld, PTL DEF Spec

-----------------------------------------------------------------------------
(* The handshake.                                                          *)

Verified == peer.trusted /\ Matches(peer.key)

\* The session's keys work only on the socket of its handshake, which stays open as
\* long as they are kept.
HandshakeInv ==
    /\ peer \in Server
    /\ session # 0 => session \in open
    /\ is_valid = FALSE => session = 0
    /\ pc = "idle" /\ is_valid => given_up
    /\ pc \in {"net_connect", "handshake"} /\ ~given_up => session = 0
    /\ pc \in {"pinning", "connected"} /\ ~given_up => session = server_fd
    /\ pc = "handshake" => server_fd # session /\ server_fd \in open
    /\ pc = "pinning" /\ session = server_fd => peer.trusted
    /\ pc \in {"connected", "write", "read"} /\ mbedtls = "set_up" /\ session = server_fd => Verified
    /\ pc = "read" => mbedtls = "set_up"
    /\ AnswersAreVerified

LEMMA DisconnectKeepsHandshake ==
    ASSUME HandshakeInv, wifi_tls_disconnect, pc' \in {"failed", "idle"},
           UNCHANGED <<peer, abandoned, read_from>>
    PROVE  HandshakeInv'
BY DEF HandshakeInv, wifi_tls_disconnect, wifi_tls_reset_context, AnswersAreVerified

LEMMA NextKeepsHandshake == HeldInv /\ HandshakeInv /\ [Next]_vars => HandshakeInv'
<1> SUFFICES ASSUME HeldInv, HandshakeInv, [Next]_vars PROVE HandshakeInv'
  OBVIOUS
<1> USE DEF AnswersAreVerified, Verified
<1>1. CASE wifi_tls_create_context
  BY <1>1 DEF HeldInv, HandshakeInv, wifi_tls_create_context
<1>2. CASE wifi_tls_free_context
  BY <1>2 DEF HandshakeInv, wifi_tls_free_context
<1>3. CASE wifi_tls_init_context
  <2>1. CASE is_valid /\ pc' = "net_connect" /\ UNCHANGED objectVars
    BY <1>3, <2>1, Zenon DEF HandshakeInv, wifi_tls_init_context
  <2>2. CASE ~is_valid /\ pc' = "net_connect" /\ session' = 0 /\ is_valid' = TRUE
    BY <1>3, <2>2, Zenon DEF HandshakeInv, wifi_tls_init_context
  <2>3. CASE wifi_tls_reset_context /\ pc' = "failed"
    BY <1>3, <2>3, Zenon DEF HandshakeInv, wifi_tls_init_context, wifi_tls_reset_context
  <2>4. QED
    BY <1>3, <2>1, <2>2, <2>3 DEF wifi_tls_init_context
<1>4. CASE NetConnect
  <2>1. ASSUME NEW s \in Socket \ open, server_fd' = s, open' = open \cup {s},
               peer' \in IF faulty THEN Server ELSE {Intended},
               UNCHANGED <<is_valid, mbedtls, session>>, pc' = "handshake"
        PROVE  HandshakeInv'
    <3>1. Intended \in Server
      BY KeyAssumption DEF Server, Intended
    <3>2. s # session
      BY <2>1, SocketAssumption DEF HandshakeInv
    <3>3. QED
      BY <1>4, <2>1, <3>1, <3>2 DEF HandshakeInv, NetConnect
  <2>2. ASSUME wifi_tls_reset_context, pc' = "failed", UNCHANGED <<open, peer>>
        PROVE  HandshakeInv'
    BY <1>4, <2>2 DEF HandshakeInv, NetConnect, wifi_tls_reset_context
  <2>3. QED
    BY <1>4, <2>1, <2>2 DEF NetConnect
<1>5. CASE wifi_tls_handshake
  <2>1. CASE ConnectFails
    BY <1>5, <2>1, DisconnectKeepsHandshake DEF wifi_tls_handshake, ConnectFails
  <2>2. CASE ~ConnectFails
    BY <1>5, <2>2 DEF HeldInv, HandshakeInv, wifi_tls_handshake
  <2>3. QED
    BY <2>1, <2>2
<1>6. CASE wifi_tls_cert_pinning
  <2>1. CASE ConnectFails
    BY <1>6, <2>1, DisconnectKeepsHandshake DEF wifi_tls_cert_pinning, ConnectFails
  <2>2. CASE ~ConnectFails
    <3>1. session = server_fd => Matches(peer.key)
      BY <1>6, <2>2 DEF wifi_tls_cert_pinning
    <3>2. QED
      BY <1>6, <2>2, <3>1 DEF HandshakeInv, wifi_tls_cert_pinning
  <2>3. QED
    BY <2>1, <2>2
<1>7. CASE CheckGivesUp
  BY <1>7 DEF HeldInv, HandshakeInv, CheckGivesUp
<1>8. CASE BeginRequest
  BY <1>8 DEF HeldInv, HandshakeInv, BeginRequest
<1>9. CASE Abandon
  BY <1>9 DEF HandshakeInv, Abandon
<1>10. CASE Write
  <2>1. CASE RequestEnds
    BY <1>10, <2>1, DisconnectKeepsHandshake DEF Write, RequestEnds
  <2>2. CASE ~RequestEnds
    BY <1>10, <2>2 DEF HandshakeInv, Write
  <2>3. QED
    BY <2>1, <2>2
<1>11. CASE Read
  <2>1. CASE session = server_fd /\ read_from' = read_from \cup {peer}
    <3>1. Verified /\ \A s \in read_from' : s.trusted /\ Matches(s.key)
      BY <1>11, <2>1 DEF Read, HandshakeInv
    <3>2. CASE RequestEnds
      BY <1>11, <3>1, <3>2 DEF Read, RequestEnds, wifi_tls_disconnect, wifi_tls_reset_context,
             HandshakeInv
    <3>3. CASE ~RequestEnds
      BY <1>11, <3>1, <3>3 DEF Read, HandshakeInv
    <3>4. QED
      BY <3>2, <3>3
  <2>2. CASE RequestEnds /\ UNCHANGED read_from
    BY <1>11, <2>2, DisconnectKeepsHandshake DEF Read, RequestEnds
  <2>3. QED
    BY <1>11, <2>1, <2>2 DEF Read
<1>12. CASE Panic
  <2>1. Intended \in Server
    BY KeyAssumption DEF Server, Intended
  <2>2. QED
    BY <1>12, <2>1 DEF HandshakeInv, Panic
<1>13. CASE Settle
  BY <1>13 DEF HandshakeInv, Settle
<1>14. CASE UNCHANGED vars
  BY <1>14 DEF HandshakeInv, vars
<1>15. QED
  BY <1>1, <1>2, <1>3, <1>4, <1>5, <1>6, <1>7, <1>8, <1>9, <1>10, <1>11, <1>12, <1>13, <1>14
     DEF Next, Caller

LEMMA InitHandshake == Init => HandshakeInv
BY KeyAssumption DEF Init, HandshakeInv, AnswersAreVerified, Server, Intended

\* A connection that is reported has made its own handshake, but for the context a
\* request has been given up on since it was set up: the old handshake is not taken for
\* new once the context has been through a request, or a failure, again.
THEOREM HandshakeWasMade == Spec => []ConnectedMeansHandshake
<1>1. HandshakeInv => ConnectedMeansHandshake
  BY DEF HandshakeInv, ConnectedMeansHandshake
<1>2. QED
  BY <1>1, InitHeld, InitHandshake, NextKeepsHeld, NextKeepsHandshake, PTL DEF Spec

\* Whatever was given up or failed before, only a server is listened to whose chain has
\* been verified and whose key has been compared; ComparisonReach says how far.
THEOREM OnlyVerifiedAnswers == Spec => []AnswersAreVerified
<1>1. HandshakeInv => AnswersAreVerified
  BY DEF HandshakeInv
<1>2. QED
  BY <1>1, InitHeld, InitHandshake, NextKeepsHeld, NextKeepsHandshake, PTL DEF Spec

-----------------------------------------------------------------------------
(* The types.                                                              *)

LEMMA DisconnectKeepsTypes ==
    ASSUME TypeOK, wifi_tls_disconnect
    PROVE  /\ is_valid' \in BOOLEAN /\ mbedtls' \in {"freed", "set_up"} /\ session' \in Socket \cup {0}
           /\ server_fd' \in Socket \cup {0} /\ open' \subseteq Socket
           /\ given_up' \in BOOLEAN
BY DEF TypeOK, wifi_tls_disconnect, wifi_tls_reset_context

LEMMA NextKeepsTypes == TypeOK /\ [Next]_vars => TypeOK'
<1> SUFFICES ASSUME TypeOK, [Next]_vars PROVE TypeOK'
  OBVIOUS
<1> USE DEF TypeOK
<1>1. CASE wifi_tls_create_context \/ wifi_tls_free_context
  BY <1>1, Zenon DEF wifi_tls_create_context, wifi_tls_free_context
<1>2. CASE wifi_tls_init_context
  BY <1>2 DEF wifi_tls_init_context, wifi_tls_reset_context
<1>3. CASE NetConnect
  <2>1. Intended \in Server
    BY KeyAssumption DEF Server, Intended
  <2>2. QED
    BY <1>3, <2>1 DEF NetConnect, wifi_tls_reset_context
<1>4. CASE wifi_tls_handshake
  BY <1>4, DisconnectKeepsTypes DEF wifi_tls_handshake, ConnectFails
<1>5. CASE wifi_tls_cert_pinning
  BY <1>5, DisconnectKeepsTypes DEF wifi_tls_cert_pinning, ConnectFails
<1>6. CASE CheckGivesUp
  BY <1>6 DEF CheckGivesUp
<1>7. CASE BeginRequest
  <2>1. lenRemaining' \in 0..RequestLen
    BY <1>7, LengthAssumption DEF BeginRequest
  <2>2. QED
    BY <1>7, <2>1 DEF BeginRequest
<1>8. CASE Abandon
  <2>1. abandoned' \in 0..MaxAbandoned
    BY <1>8, LengthAssumption DEF Abandon
  <2>2. QED
    BY <1>8, <2>1 DEF Abandon
<1>9. CASE Write
  <2>1. lenRemaining' \in 0..RequestLen
    BY <1>9, LengthAssumption DEF Write, Unsent
  <2>2. QED
    BY <1>9, <2>1, DisconnectKeepsTypes DEF Write, RequestEnds
<1>10. CASE Read
  BY <1>10, DisconnectKeepsTypes DEF Read, RequestEnds
<1>11. CASE Panic
  <2>1. Intended \in Server /\ 0 \in 0..RequestLen /\ 0 \in 0..MaxAbandoned
    BY KeyAssumption, LengthAssumption DEF Server, Intended
  <2>2. QED
    BY <1>11, <2>1 DEF Panic
<1>12. CASE Settle
  BY <1>12 DEF Settle
<1>13. CASE UNCHANGED vars
  BY <1>13 DEF vars
<1>14. QED
  BY <1>1, <1>2, <1>3, <1>4, <1>5, <1>6, <1>7, <1>8, <1>9, <1>10, <1>11, <1>12, <1>13
     DEF Next, Caller

\* The variables keep their types; in particular what remains of a request, which is
\* unsigned in the code, never passes below 0.
THEOREM TypesAreKept == Spec => []TypeOK
<1>1. Init => TypeOK
  <2>1. Intended \in Server /\ 0 \in 0..RequestLen /\ 0 \in 0..MaxAbandoned
    BY KeyAssumption, LengthAssumption DEF Server, Intended
  <2>2. QED
    BY <2>1 DEF Init, TypeOK
<1>2. QED
  BY <1>1, NextKeepsTypes, PTL DEF Spec

=============================================================================
