----------------------------- MODULE Handshake -----------------------------
(***************************************************************************)
(* What client and server agree on before a connection is ready: the checks *)
(* of INFO against the options, the upgrade to TLS, the signing of the      *)
(* nonce with credentials that are read from a file on every connection,    *)
(* and CONNECT.  What fails ends the connection, and the close event of its *)
(* socket leads to the next one.  Which server that is, and how often it is *)
(* tried, is the subject of Lifecycle.                                      *)
(*                                                                          *)
(* Options, an INFO, keys and certificates are reduced to what the checks   *)
(* tell apart.  A first INFO is handled in one go, but the file is read up  *)
(* to three times meanwhile and may change, so each reading has a step.     *)
(***************************************************************************)
EXTENDS Naturals

CONSTANT MaxFaults      \* bound: changes of the file and of what the servers
                        \* ask for, failures of a connection

ASSUME HandshakeAssumption == MaxFaults \in Nat

(* tls: off (false), any (undefined), on, or broken: options for which      *)
(* tls.connect() throws.  auth: no nonceSigner that comes with an nkey or a *)
(* userJWT (none), one that does (own), or the file it is built from.       *)
OptionRecords ==
    [tls : {"off", "any", "on", "broken"}, cert : BOOLEAN, noEcho : BOOLEAN,
     auth : {"none", "own", "nkeyCreds", "userCreds"}, timeout : BOOLEAN]

InfoRecords ==
    [tls_required : BOOLEAN, tls_verify : BOOLEAN, echo : BOOLEAN, nonce : BOOLEAN]

NoInfo == [tls_required |-> FALSE, tls_verify |-> FALSE, echo |-> FALSE, nonce |-> FALSE]

VARIABLES
    options,        \* this.options, as the application gave them
    userJWT,        \* options.userJWT has been built from userCreds
    offer,          \* the INFO that servers send now
    file            \* the file of the credentials: good, noSeed, gone

VARIABLES
    stream,         \* none, tcp, info (CONNECT written), ready (PONG read)
    secure,         \* plain, handshaking (a TLSSocket), tls
    listening,      \* the stream has the listeners of TCPTransport
    closeEvent      \* the close event of a destroyed stream is due

VARIABLES
    info,           \* this.info
    infoReceived,   \* this.infoReceived
    at,             \* where processInbound() is with a first INFO, or idle
    retry,          \* a reconnect is due
    closed,         \* this.closed
    wasConnected,   \* this.wasConnected
    didConnect      \* currentServer.didConnect

VARIABLES
    asked,          \* the first INFO of this connection required TLS
    connectsSent,   \* CONNECTs written on this connection
    threw,          \* tls.connect() has thrown
    faults

servers == <<offer, file, faults>>
socket == <<stream, secure, listening, closeEvent>>
connection == <<info, infoReceived, asked, connectsSent>>
client == <<options, userJWT, retry, closed, wasConnected, didConnect, threw>>
vars == <<servers, socket, connection, at, client>>

TypeOK ==
    /\ options \in OptionRecords /\ userJWT \in BOOLEAN
    /\ offer \in InfoRecords /\ info \in InfoRecords
    /\ file \in {"good", "noSeed", "gone"}
    /\ stream \in {"none", "tcp", "info", "ready"}
    /\ secure \in {"plain", "handshaking", "tls"}
    /\ listening \in BOOLEAN /\ closeEvent \in BOOLEAN
    /\ infoReceived \in BOOLEAN
    /\ at \in {"idle", "checked", "upgraded", "signed"}
    /\ retry \in BOOLEAN /\ closed \in BOOLEAN
    /\ wasConnected \in BOOLEAN /\ didConnect \in BOOLEAN
    /\ asked \in BOOLEAN /\ connectsSent \in 0..1
    /\ threw \in BOOLEAN /\ faults \in 0..MaxFaults

FromFile == options.auth \in {"nkeyCreds", "userCreds"}

\* Where Client.connect() resolves.  cert is a field of the tls options.
Init ==
    /\ options \in OptionRecords /\ (options.cert => options.tls \in {"on", "broken"})
    /\ userJWT = FALSE
    /\ offer \in InfoRecords
    /\ file \in {"good", "noSeed", "gone"} /\ (~FromFile => file = "good")
    /\ stream = "tcp" /\ secure = "plain" /\ listening = TRUE /\ closeEvent = FALSE
    /\ info = NoInfo /\ infoReceived = FALSE /\ at = "idle"
    /\ retry = FALSE /\ closed = FALSE /\ wasConnected = FALSE /\ didConnect = FALSE
    /\ asked = FALSE /\ connectsSent = 0 /\ threw = FALSE /\ faults = 0

-----------------------------------------------------------------------------
(* The checks of INFO                                                       *)

CheckTLSMismatch(i) ==
    \/ options.tls = "off" /\ i.tls_required
    \/ options.tls \in {"on", "broken"} /\ ~i.tls_required
    \/ i.tls_verify /\ ~options.cert

CheckNoEchoMismatch(i) == options.noEcho /\ ~i.echo

\* nkeyCreds is parsed by the check; of userCreds only the JWT is.
CheckNonceSigner(i) ==
    i.nonce /\ CASE options.auth = "none" -> TRUE
                 [] options.auth = "own" -> FALSE
                 [] options.auth = "nkeyCreds" -> file # "good"
                 [] options.auth = "userCreds" -> file = "gone"

Mismatch(i) == CheckTLSMismatch(i) \/ CheckNoEchoMismatch(i) \/ CheckNonceSigner(i)

-----------------------------------------------------------------------------
(* Ends of a connection                                                     *)

\* Faulty: the listeners go first, as in close().
CloseStreamSilently ==
    /\ stream' = "none"
    /\ UNCHANGED <<closeEvent, secure, listening>>

\* closeStream(): only a stream that still has its listeners tells.
CloseStream ==
    /\ stream' = "none"
    /\ closeEvent' = (closeEvent \/ (stream # "none" /\ listening))
    /\ UNCHANGED <<secure, listening>>

\* handlers.error() leaves the stream to its close event.
ErrorIgnored == wasConnected /\ didConnect

Fault == faults < MaxFaults /\ faults' = faults + 1

-----------------------------------------------------------------------------
(* INFO and CONNECT                                                         *)

\* Faulty: every INFO is taken for the first.
EveryInfo == TRUE

FirstInfo == ~infoReceived

\* INFO replaces this.info and is checked; the first one of a connection is
\* then answered.  What a closed client is sent it does not read.
ReceiveInfo ==
    /\ at = "idle" /\ ~closed /\ stream # "none" /\ listening /\ secure # "handshaking"
    /\ info' = offer
    /\ \/ /\ Mismatch(offer)
          /\ CloseStream
          /\ UNCHANGED <<userJWT, at, asked>>
       \/ /\ ~Mismatch(offer)
          /\ userJWT' = (userJWT \/ (offer.nonce /\ options.auth = "userCreds"))
          /\ at' = IF FirstInfo THEN "checked" ELSE at
          /\ asked' = IF FirstInfo THEN offer.tls_required ELSE asked
          /\ UNCHANGED socket
    /\ UNCHANGED <<servers, infoReceived, connectsSent, options, retry, closed, wasConnected,
                   didConnect, threw>>

\* Faulty: TLS is only used if the options ask for it.
NeedsUpgradeIfSet == options.tls = "on" /\ secure = "plain" /\ stream # "none"

\* The stream may be gone: a listener of 'serversChanged' can close the client.
NeedsUpgrade == info.tls_required /\ secure = "plain" /\ stream # "none"

\* upgrade() moves the listeners to the TLSSocket; when tls.connect() throws,
\* the old stream stays without any, and handlers.error() destroys it or
\* ignores the error.
Upgrade ==
    /\ at = "checked" /\ at' = "upgraded"
    /\ \/ ~NeedsUpgrade /\ UNCHANGED <<socket, threw>>
       \/ /\ NeedsUpgrade /\ options.tls # "broken"
          /\ secure' = "handshaking"
          /\ UNCHANGED <<stream, listening, closeEvent, threw>>
       \/ /\ NeedsUpgrade /\ options.tls = "broken"
          /\ listening' = FALSE /\ threw' = TRUE
          /\ stream' = IF ErrorIgnored THEN stream ELSE "none"
          /\ UNCHANGED <<secure, closeEvent>>
    /\ UNCHANGED <<servers, connection, options, userJWT, retry, closed, wasConnected,
                   didConnect>>

Signs == info.nonce /\ FromFile => file = "good"

\* The signature of CONNECT.  A signer of the client's own that fails closes the
\* stream and returns nothing to encode: the exception leaves processInbound().
Sign ==
    /\ at = "upgraded"
    /\ \/ Signs /\ at' = "signed" /\ UNCHANGED socket
       \/ ~Signs /\ at' = "idle" /\ CloseStream
    /\ UNCHANGED <<servers, connection, client>>

\* loadJwt() closes the stream when it fails, and nothing is thrown.
LoadsJwt == userJWT => file # "gone"

\* CONNECT with its JWT, and PING, are written if there is a stream.
WriteConnect ==
    /\ at = "signed" /\ at' = "idle"
    /\ infoReceived' = TRUE
    /\ \/ /\ LoadsJwt /\ stream # "none"
          /\ stream' = "info" /\ connectsSent' = connectsSent + 1
          /\ UNCHANGED <<secure, listening, closeEvent>>
       \/ /\ ~LoadsJwt \/ stream = "none"
          /\ CloseStream
          /\ UNCHANGED connectsSent
    /\ UNCHANGED <<servers, info, asked, client>>

\* The callback of tls.connect().
Secured ==
    /\ at = "idle" /\ stream = "info" /\ secure = "handshaking"
    /\ secure' = "tls"
    /\ UNCHANGED <<servers, stream, listening, closeEvent, connection, at, client>>

\* The PONG of the handshake, and connectCB().
HandshakePong ==
    /\ at = "idle" /\ ~closed /\ stream = "info" /\ listening /\ secure # "handshaking"
    /\ stream' = "ready" /\ wasConnected' = TRUE /\ didConnect' = TRUE
    /\ UNCHANGED <<servers, secure, listening, closeEvent, connection, at, options, userJWT,
                   retry, closed, threw>>

\* The handshake timer: processErr().  A server that answers too late counts
\* as a failure.
HandshakeTimer ==
    /\ at = "idle" /\ options.timeout /\ stream \in {"tcp", "info"}
    /\ CloseStream
    /\ IF listening THEN Fault ELSE UNCHANGED faults
    /\ UNCHANGED <<offer, file, connection, at, client>>

\* The peer ends the connection or the TLS handshake fails; without listeners
\* nobody hears of it.
SocketFails ==
    /\ at = "idle" /\ stream # "none" /\ listening
    /\ CloseStream
    /\ Fault
    /\ UNCHANGED <<offer, file, connection, at, client>>

-----------------------------------------------------------------------------
(* The next connection                                                      *)

\* handlers.close(): scheduleReconnect(), which may find the pool empty.
CloseEvent ==
    /\ at = "idle" /\ closeEvent /\ closeEvent' = FALSE
    /\ stream' = "none"
    /\ \/ closed /\ UNCHANGED <<retry, closed>>
       \/ ~closed /\ retry' = TRUE /\ UNCHANGED closed
       \/ ~closed /\ closed' = TRUE /\ UNCHANGED retry
    /\ UNCHANGED <<servers, secure, listening, connection, at, options, userJWT, wasConnected,
                   didConnect, threw>>

\* A new socket, connected.  A listener of 'reconnecting' may close the client.
Dialed ==
    /\ at = "idle" /\ retry /\ ~closed /\ retry' = FALSE
    /\ closed' \in {FALSE, wasConnected}
    /\ stream' = "tcp" /\ secure' = "plain" /\ listening' = TRUE
    /\ asked' = FALSE /\ connectsSent' = 0
    /\ didConnect' \in IF wasConnected THEN BOOLEAN ELSE {FALSE}
    /\ UNCHANGED <<servers, closeEvent, at, options, userJWT, wasConnected, threw>>

\* Faulty: what is known of the last connection is left as it is.
ReconnectUnprepared == Dialed /\ UNCHANGED <<info, infoReceived>>

\* prepareConnection() and the connection callback, of this or another server.
Reconnect == Dialed /\ info' = NoInfo /\ infoReceived' = FALSE

\* close(), also by a listener of 'serversChanged' while INFO is handled.
Close ==
    /\ at \in {"idle", "checked"}
    /\ closed' = TRUE
    /\ CloseStream
    /\ UNCHANGED <<servers, connection, at, options, userJWT, retry, wasConnected, didConnect,
                   threw>>

\* The file of the credentials is removed, replaced, or put back.
FileChanges ==
    /\ FromFile /\ Fault
    /\ file' \in {"good", "noSeed", "gone"} \ {file}
    /\ UNCHANGED <<offer, socket, connection, at, client>>

\* A server asks for something else, or the next connection goes to one that
\* does.  On an open connection it may send another INFO then.
OfferChanges ==
    /\ Fault
    /\ \E f \in DOMAIN offer : offer' = [offer EXCEPT ![f] = ~@]
    /\ UNCHANGED <<file, socket, connection, at, client>>

Answering == Upgrade \/ Sign \/ WriteConnect

Next ==
    \/ ReceiveInfo \/ Answering \/ Secured \/ HandshakePong
    \/ HandshakeTimer \/ SocketFails
    \/ CloseEvent \/ Reconnect \/ Close
    \/ FileChanges \/ OfferChanges

Spec == Init /\ [][Next]_vars

\* The event loop runs what is due, servers greet and answer, and a TLS
\* handshake that does not fail completes.  No later INFO is relied on.
FairSpec ==
    /\ Spec
    /\ WF_vars(stream = "tcp" /\ ReceiveInfo) /\ WF_vars(Answering)
    /\ WF_vars(Secured) /\ WF_vars(HandshakePong)
    /\ WF_vars(CloseEvent) /\ WF_vars(Reconnect)

-----------------------------------------------------------------------------
(* Properties                                                               *)

\* Options and an INFO ask nothing of each other that cannot be had.
AgreesWith(i) ==
    /\ options.tls = "off" => ~i.tls_required
    /\ options.tls \in {"on", "broken"} => i.tls_required
    /\ i.tls_verify => options.cert
    /\ options.noEcho => i.echo
    /\ i.nonce => options.auth # "none"

\* A connection is ready only with one CONNECT, over TLS if the options or the
\* INFO it began with ask for it and in the clear if neither does, and while
\* the options agree with the last INFO read: whatever servers, lost
\* connections and changes of the credentials came before.  An INFO that asks
\* for TLS later does not get it (protocolhandler.ts 650-698, 737-849).
ReadyAsAgreed ==
    stream = "ready" =>
        /\ connectsSent = 1
        /\ secure = IF asked THEN "tls" ELSE "plain"
        /\ options.tls # "any" => secure = IF options.tls = "off" THEN "plain" ELSE "tls"
        /\ AgreesWith(info)

\* Every check that fails, every signature that cannot be made and every
\* timeout leaves a way to the next connection: an INFO that is handled, a
\* stream that is heard, its close event, or a reconnect that is due.  Left out
\* is tls.connect() throwing: the old stream has lost its listeners by then,
\* and the close event that handlers.error() and closeStream() count on never
\* comes (tcptransport.ts 129-145, protocolhandler.ts 450, 984).
NeverStranded ==
    \/ closed \/ threw
    \/ at # "idle" \/ closeEvent \/ retry \/ (stream # "none" /\ listening)

\* Once both sides agree for good, the client ends up with a connection that is
\* ready, unless its credentials stay unusable or it is closed: nothing a
\* failed attempt leaves behind spoils the next (prepareConnection,
\* checkNonceSigner, loadJwt).
Recovers ==
    <>[]AgreesWith(offer) => <>[](stream = "ready" \/ closed \/ threw \/ file # "good")
=============================================================================
