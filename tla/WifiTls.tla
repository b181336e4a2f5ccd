------------------------------- MODULE WifiTls -------------------------------
(***************************************************************************)
(* The TLS connection (wifi_tls.c) as the updater drives it: create a      *)
(* context, then again and again connect and send a request.  The check    *)
(* gives up when it cannot connect, the download sends its request all the *)
(* same (iap_https.c), and the HTTP client may give up before it comes to  *)
(* wifi_tls_send_request (https_client.c).                                 *)
(*                                                                         *)
(* One action is one call that may block or fail.  mbedTLS and the sockets *)
(* are external: the six mbedTLS objects of a context are set up and freed *)
(* together, and records can be read only with the keys of the handshake   *)
(* that was made on the same socket.                                       *)
(***************************************************************************)

EXTENDS Integers, Sequences, FiniteSets

CONSTANTS Socket,           \* socket numbers (CONFIG_LWIP_MAX_SOCKETS of them)
          Key,              \* public keys in DER, of the servers one may reach
          PinnedKey,        \* the key in peer_public_key_pem
          BufSize,          \* of the two buffers of wifi_tls_cert_pinning
          RequestLen,       \* bytes of a request
          MaxAbandoned      \* bound: requests given up before they are sent

ASSUME SocketAssumption == Socket \subseteq Nat \ {0} /\ IsFiniteSet(Socket)
\* "in practice, the length was 294 bytes", of 512 (wifi_tls.c)
ASSUME KeyAssumption    == PinnedKey \in Key /\ \A k \in Key : k \in Seq(Nat) /\ Len(k) =< BufSize
ASSUME LengthAssumption == RequestLen \in Nat \ {0} /\ MaxAbandoned \in Nat /\ BufSize \in Nat

Part == {"context", "server_host_name", "server_root_ca_public_key_pem", "peer_public_key_pem"}

VARIABLES
    heap,           \* the blocks of a wifi_tls_context_t that are allocated
    is_valid,
    mbedtls,        \* "freed" (or all zero), or "set_up"
    session,        \* the socket on which the handshake has been made, or 0
    server_fd,      \* a socket number, perhaps one that is closed; 0 for -1
    open,           \* the sockets that are open
    peer,           \* the server at the other end of server_fd: its key and chain
    lenRemaining,   \* of the request
    pc,             \* where the caller is
    faulty,         \* may anything fail?
    \* history
    abandoned,      \* connections made for a request that was given up
    given_up,       \* was one since the context was set up?
    read_from,      \* servers the response callback has been given bytes of
    answered,       \* has the last connection come to a response?
    leaked          \* mbedTLS objects whose memory nobody will free

objectVars  == <<is_valid, mbedtls, session, given_up>>
contextVars == <<heap, objectVars>>
socketVars  == <<server_fd, open, peer>>
historyVars == <<abandoned, read_from, answered, leaked>>
vars == <<contextVars, socketVars, lenRemaining, pc, faulty, historyVars>>

\* Is the chain signed by the Root CA, and which key has the certificate?
Server   == [trusted : BOOLEAN, key : Key]
Intended == [trusted |-> TRUE, key |-> PinnedKey]

Init ==
    /\ heap = {}
    /\ is_valid = FALSE
    /\ mbedtls = "freed"
    /\ session = 0
    /\ server_fd = 0
    /\ open = {}
    /\ peer = Intended
    /\ lenRemaining = 0
    /\ pc = "create"
    /\ faulty = TRUE
    /\ abandoned = 0
    /\ given_up = FALSE
    /\ read_from = {}
    /\ answered = FALSE
    /\ leaked = FALSE

-----------------------------------------------------------------------------
(* The life of a context.                                                  *)

\* Blocks are allocated in this order; when one cannot be had, those before it are
\* freed and the result is NULL.
wifi_tls_create_context ==
    /\ pc = "create"
    /\ \/ heap' = Part
       \/ faulty /\ heap' = {}
    /\ pc' = "idle"
    /\ UNCHANGED <<objectVars, socketVars, lenRemaining, faulty, historyVars>>

\* Frees the strings and the structure, and looks neither at the mbedTLS objects nor
\* at the socket.  The updater never calls it; here it may be called while faults last.
wifi_tls_free_context ==
    /\ pc = "idle" /\ heap # {} /\ faulty
    /\ heap' = {}
    /\ leaked' = (leaked \/ mbedtls = "set_up")
    /\ is_valid' = FALSE /\ mbedtls' = "freed" /\ session' = 0 /\ given_up' = FALSE
    /\ server_fd' = 0
    /\ pc' = "create"
    /\ UNCHANGED <<open, peer, lenRemaining, faulty, abandoned, read_from, answered>>

\* Mutant: a context that has been freed is still thought to be ready.
ResetKeepsFlag ==
    /\ UNCHANGED is_valid
    /\ mbedtls' = "freed"
    /\ session' = 0
    /\ given_up' = FALSE

wifi_tls_reset_context ==
    /\ is_valid' = FALSE
    /\ mbedtls' = "freed"
    /\ session' = 0
    /\ given_up' = FALSE

\* Mutants: the socket stays open; the context stays as it is.
DisconnectOnlyResets == UNCHANGED <<open, server_fd>> /\ wifi_tls_reset_context
DisconnectOnlyCloses ==
    /\ open' = open \ {server_fd}
    /\ server_fd' = 0
    /\ given_up' = FALSE
    /\ UNCHANGED <<is_valid, mbedtls, session>>

\* mbedtls_net_free closes the number whether or not it is still a socket of ours.
wifi_tls_disconnect ==
    /\ open' = open \ {server_fd}
    /\ server_fd' = 0
    /\ wifi_tls_reset_context

-----------------------------------------------------------------------------
(* wifi_tls_connect.                                                       *)

\* A context that is valid is used as it is.  NULL is dereferenced: see Panic.
wifi_tls_init_context ==
    /\ pc = "idle" /\ heap # {}
    /\ answered' = FALSE
    /\ \/ /\ is_valid
          /\ pc' = "net_connect"
          /\ UNCHANGED objectVars
       \/ /\ ~is_valid
          /\ is_valid' = TRUE
          /\ mbedtls' = "set_up"
          /\ session' = 0
          /\ pc' = "net_connect"
          /\ UNCHANGED given_up
       \/ /\ ~is_valid /\ faulty
          /\ wifi_tls_reset_context
          /\ pc' = "failed"
    /\ UNCHANGED <<heap, socketVars, lenRemaining, faulty, abandoned, read_from, leaked>>

\* server_fd is initialised first, whatever it was.  A socket that could not be
\* connected is closed, and its number stays in server_fd.
NetConnect ==
    /\ pc = "net_connect"
    /\ \/ \E s \in Socket \ open :
             /\ server_fd' = s
             /\ open' = open \cup {s}
             /\ peer' \in IF faulty THEN Server ELSE {Intended}
             /\ pc' = "handshake"
             /\ UNCHANGED objectVars
       \/ /\ faulty \/ Socket \subseteq open
          /\ server_fd' \in IF Socket \subseteq open THEN {0} ELSE Socket \ open
          /\ wifi_tls_reset_context
          /\ pc' = "failed"
          /\ UNCHANGED <<open, peer>>
    /\ UNCHANGED <<heap, lenRemaining, faulty, historyVars>>

\* Mutant: what has been connected stays as it is.
FailsConnected == pc' = "failed" /\ UNCHANGED <<objectVars, server_fd, open>>

ConnectFails ==
    /\ wifi_tls_disconnect
    /\ pc' = "failed"

\* An object that has made its handshake makes no other.  The chain is verified in
\* the handshake (MBEDTLS_SSL_VERIFY_REQUIRED), and the result looked at again.
wifi_tls_handshake ==
    /\ pc = "handshake"
    /\ \/ /\ mbedtls = "set_up"
          /\ session = 0 => peer.trusted
          /\ session' = IF session = 0 THEN server_fd ELSE session
          /\ pc' = "pinning"
          /\ UNCHANGED <<is_valid, mbedtls, given_up, server_fd, open>>
       \/ /\ session = 0
          /\ faulty \/ mbedtls = "freed" \/ ~peer.trusted
          /\ ConnectFails
    /\ UNCHANGED <<heap, peer, lenRemaining, faulty, historyVars>>

\* mbedTLS writes a key to the end of a buffer of zeroes.
Buffer(key) == [i \in 1..(BufSize - Len(key)) |-> 0] \o key

\* As many bytes as the key has are compared, from the beginning of the buffers.
Matches(key) ==
    /\ Len(key) = Len(PinnedKey)
    /\ SubSeq(Buffer(key), 1, Len(key)) = SubSeq(Buffer(PinnedKey), 1, Len(key))

\* The certificate looked at is that of the session.
wifi_tls_cert_pinning ==
    /\ pc = "pinning"
    /\ \/ /\ session = server_fd => Matches(peer.key)
          /\ pc' = "connected"
          /\ UNCHANGED <<objectVars, server_fd, open>>
       \/ /\ faulty \/ (session = server_fd /\ ~Matches(peer.key))
          /\ ConnectFails
    /\ UNCHANGED <<heap, peer, lenRemaining, faulty, historyVars>>

-----------------------------------------------------------------------------
(* The caller, and wifi_tls_send_request.                                  *)

\* The check gives up; the download goes on.
CheckGivesUp ==
    /\ pc = "failed"
    /\ pc' = "idle"
    /\ UNCHANGED <<contextVars, socketVars, lenRemaining, faulty, historyVars>>

BeginRequest ==
    /\ pc \in {"connected", "failed"}
    /\ lenRemaining' = RequestLen
    /\ pc' = "write"
    /\ UNCHANGED <<contextVars, socketVars, faulty, historyVars>>

\* https_send_request refuses the request, or has no memory for it.
Abandon ==
    /\ pc = "connected"
    /\ faulty /\ abandoned < MaxAbandoned
    /\ abandoned' = abandoned + 1
    /\ given_up' = TRUE
    /\ pc' = "idle"
    /\ UNCHANGED <<heap, is_valid, mbedtls, session, socketVars, lenRemaining, faulty, read_from,
                   answered, leaked>>

RequestEnds ==
    /\ wifi_tls_disconnect
    /\ pc' = "idle"

\* Mutant: the negative code of MBEDTLS_ERR_SSL_WANT_WRITE is subtracted as well.
CodeSubtracted(n) == lenRemaining + n

Unsent(n) == lenRemaining - n

\* mbedtls_ssl_write refuses an object that has been freed.
Write ==
    /\ pc = "write"
    /\ \/ /\ mbedtls = "set_up" /\ server_fd \in open
          /\ \E n \in 1..lenRemaining :
                /\ lenRemaining' = Unsent(n)
                /\ pc' = IF Unsent(n) = 0 THEN "read" ELSE "write"
          /\ UNCHANGED <<objectVars, server_fd, open>>
       \/ /\ faulty \/ mbedtls = "freed" \/ server_fd \notin open
          /\ RequestEnds
          /\ UNCHANGED lenRemaining
    /\ UNCHANGED <<heap, peer, faulty, historyVars>>

\* Bytes for the callback, which may want more; or the end of the stream; or an
\* error, as always with the keys of another connection.
Read ==
    /\ pc = "read"
    /\ \/ /\ session = server_fd
          /\ read_from' = read_from \cup {peer}
          /\ answered' = TRUE
          /\ \/ UNCHANGED <<objectVars, server_fd, open, pc>>
             \/ RequestEnds
       \/ /\ faulty \/ answered \/ session # server_fd
          /\ RequestEnds
          /\ UNCHANGED <<read_from, answered>>
    /\ UNCHANGED <<heap, peer, lenRemaining, faulty, abandoned, leaked>>

\* A context that is NULL is passed on by the updater and dereferenced; power may
\* also be cut.  Both restart the chip.
Panic ==
    /\ \/ pc = "idle" /\ heap = {}
       \/ faulty
    /\ heap' = {}
    /\ is_valid' = FALSE /\ mbedtls' = "freed" /\ session' = 0 /\ given_up' = FALSE
    /\ server_fd' = 0 /\ open' = {} /\ peer' = Intended
    /\ lenRemaining' = 0
    /\ pc' = "create"
    /\ abandoned' = 0 /\ read_from' = {} /\ answered' = FALSE /\ leaked' = FALSE
    /\ UNCHANGED faulty

Settle ==
    /\ faulty
    /\ faulty' = FALSE
    /\ UNCHANGED <<contextVars, socketVars, lenRemaining, pc, historyVars>>

Caller ==
    \/ wifi_tls_create_context
    \/ wifi_tls_init_context \/ NetConnect \/ wifi_tls_handshake \/ wifi_tls_cert_pinning
    \/ CheckGivesUp \/ BeginRequest \/ Abandon \/ Write \/ Read
    \/ (~faulty /\ Panic)

Next == Caller \/ wifi_tls_free_context \/ Panic \/ Settle

\* The updater task runs, and a server that is reached answers in the end: nothing
\* in the code makes it stop waiting.
Spec == Init /\ [][Next]_vars /\ WF_vars(Caller)

-----------------------------------------------------------------------------
TypeOK ==
    /\ heap \in {{}, Part}
    /\ is_valid \in BOOLEAN
    /\ mbedtls \in {"freed", "set_up"}
    /\ session \in Socket \cup {0}
    /\ server_fd \in Socket \cup {0}
    /\ open \subseteq Socket
    /\ peer \in Server
    /\ lenRemaining \in 0..RequestLen
    /\ pc \in {"create", "idle", "net_connect", "handshake", "pinning", "connected", "failed",
               "write", "read"}
    /\ abandoned \in 0..MaxAbandoned
    /\ read_from \subseteq Server
    /\ {faulty, given_up, answered, leaked} \subseteq BOOLEAN

\* The callback is only ever given bytes of a server that has passed both checks, of its
\* chain and of its key, although the download sends its request after a connection that
\* failed as well, and although a context is used again that has made its handshake on
\* another socket.  (How much the second check sees of the key is PinnedKeyOnly's matter.)
AnswersAreVerified == \A s \in read_from : s.trusted /\ Matches(s.key)

\* "Compare the expected to the actual public key" (wifi_tls.c): a server with another
\* key is not listened to.
PinnedKeyOnly == \A s \in read_from : s.key = PinnedKey

\* Between two requests nothing is held: no socket, and no mbedTLS object, is left but
\* those of connections whose request was given up before wifi_tls saw it, however the
\* connections and the requests ended (wifi_tls.c: "We transparently clean up the
\* context in case of errors").
NothingHeldBetweenRequests ==
    pc \in {"create", "idle"} =>
        /\ Cardinality(open) =< abandoned
        /\ is_valid \/ leaked => abandoned > 0

\* "Connects to the server, performs the TLS handshake and certificate verification.
\* Returns 0 on success" (wifi_tls.h): on the socket it has opened, that is.
HandshakeOnThisSocket == pc = "connected" => session = server_fd

\* That is so of every context that no request has been given up on since it was set up:
\* the first request that wifi_tls sees, or a connection that fails, ends what was wrong.
ConnectedMeansHandshake == pc = "connected" /\ ~given_up => session = server_fd

\* Once faults have ceased, requests are answered again and again: nothing that went
\* wrong before leaves a context, a flag or a socket behind that keeps it from there.
\* (As long as fewer requests were given up than there are sockets.)
AnsweredAgain == []<>(faulty \/ answered)
=============================================================================
