--------------------------- MODULE HandshakeProofs ---------------------------
(***************************************************************************)
(* Type correctness of Handshake, that no failed check, signature or timer  *)
(* strands the client, and that a connection is ready only as agreed, for   *)
(* any number of INFOs, connections, and changes of what servers ask for.   *)
(***************************************************************************)
EXTENDS Handshake, TLAPS

-----------------------------------------------------------------------------
(* The invariant                                                            *)

\* Only tls.connect() throwing leaves a stream without listeners.
Deaf == listening \/ threw

\* A connection starts without INFO or CONNECT; CONNECT follows its first INFO.
Begun ==
    /\ stream = "tcp" => ~infoReceived /\ connectsSent = 0
    /\ stream \in {"info", "ready"} => infoReceived /\ connectsSent = 1 /\ at = "idle"

\* A first INFO has passed its checks.
Passed == stream \in {"info", "ready"} \/ (stream = "tcp" /\ at # "idle")

\* What passes the checks agrees with the options, and what the first INFO
\* asked for was checked as well.
Checked ==
    Passed => /\ AgreesWith(info)
              /\ options.tls = "off" => ~asked
              /\ options.tls \in {"on", "broken"} => asked

\* The stream is encrypted from the upgrade on, if and only if it was asked for,
\* and the upgrade that fails leaves a stream that is never ready.
Encrypted ==
    /\ at = "checked" => asked = info.tls_required
    /\ stream = "tcp" /\ at \in {"idle", "checked"} => secure = "plain"
    /\ Passed /\ at # "checked" /\ listening => (asked <=> secure # "plain")
    /\ stream = "ready" => listening /\ secure # "handshaking"

\* While a first INFO is handled its stream can only go with the client, or by
\* the upgrade that fails.
Answered == at # "idle" => stream = "tcp" \/ closed \/ threw

IInv == TypeOK /\ NeverStranded /\ Deaf /\ Begun /\ Checked /\ Encrypted /\ Answered

-----------------------------------------------------------------------------
(* Lemmas                                                                   *)

\* An INFO that passes the checks is one that both sides can agree on
\* (checkTLSMismatch, checkNoEchoMismatch, checkNonceSigner).
LEMMA PassedChecksAgree ==
    ASSUME TypeOK, NEW i, ~Mismatch(i)
    PROVE  AgreesWith(i)
<1>1. i.nonce => options.auth # "none"
  BY DEF Mismatch, CheckNonceSigner
<1>2. QED BY <1>1 DEF Mismatch, CheckTLSMismatch, CheckNoEchoMismatch, AgreesWith

LEMMA FaultCounts ==
    ASSUME TypeOK, Fault \/ UNCHANGED faults
    PROVE  faults' \in 0..MaxFaults
BY HandshakeAssumption DEF Fault, TypeOK

\* closeStream() of a stream that is heard announces its end, and leaves
\* nothing that has begun.
LEMMA CloseStreamKeeps ==
    ASSUME IInv, CloseStream,
           UNCHANGED <<options, offer, file, retry, wasConnected, didConnect, threw, userJWT,
                       connectsSent>>,
           closed' \in BOOLEAN, closed => closed', faults' \in 0..MaxFaults,
           info' \in InfoRecords, infoReceived' \in BOOLEAN,
           \/ at' = "idle" /\ UNCHANGED asked
           \/ closed' /\ UNCHANGED <<at, asked, info>>
    PROVE  IInv'
<1>1. PICK b \in BOOLEAN : closeEvent' = b /\ (b <=> closeEvent \/ (stream # "none" /\ listening))
  <2>1. (closeEvent \/ (stream # "none" /\ listening)) \in BOOLEAN
    BY DEF IInv, TypeOK
  <2>2. QED BY <2>1 DEF CloseStream
<1>2. TypeOK'
  BY <1>1 DEF IInv, TypeOK, CloseStream
<1>3. NeverStranded' /\ Answered'
  BY <1>1 DEF IInv, TypeOK, NeverStranded, Deaf, Answered, CloseStream
<1>4. Deaf' /\ Begun' /\ Checked' /\ Encrypted'
  BY DEF IInv, Deaf, Begun, Passed, Checked, Encrypted, CloseStream
<1>5. QED BY <1>2, <1>3, <1>4 DEF IInv

-----------------------------------------------------------------------------
(* Every step keeps it                                                      *)

LEMMA InitEstablishes == Init => IInv
<1> SUFFICES ASSUME Init PROVE IInv
  OBVIOUS
<1>1. TypeOK
  <2>1. connectsSent \in 0..1 /\ faults \in 0..MaxFaults
    BY HandshakeAssumption DEF Init
  <2>2. info \in InfoRecords
    BY DEF Init, NoInfo, InfoRecords
  <2>3. options \in OptionRecords /\ offer \in InfoRecords /\ file \in {"good", "noSeed", "gone"}
    BY DEF Init
  <2>4. listening \in BOOLEAN /\ closeEvent \in BOOLEAN /\ infoReceived \in BOOLEAN
    BY DEF Init
  <2>5. retry \in BOOLEAN /\ closed \in BOOLEAN /\ wasConnected \in BOOLEAN
    BY DEF Init
  <2>6. didConnect \in BOOLEAN /\ asked \in BOOLEAN /\ threw \in BOOLEAN /\ userJWT \in BOOLEAN
    BY DEF Init
  <2>7. QED BY <2>1, <2>2, <2>3, <2>4, <2>5, <2>6 DEF Init, TypeOK
<1>2. stream = "tcp" /\ secure = "plain" /\ listening /\ at = "idle"
      /\ ~infoReceived /\ connectsSent = 0
  BY DEF Init
<1>3. NeverStranded /\ Deaf /\ Begun /\ Checked /\ Encrypted /\ Answered
  BY <1>2 DEF NeverStranded, Deaf, Begun, Passed, Checked, Encrypted, Answered
<1>4. QED BY <1>1, <1>3 DEF IInv

LEMMA ReceiveInfoKeeps == IInv /\ ReceiveInfo => IInv'
<1> SUFFICES ASSUME IInv, ReceiveInfo PROVE IInv'
  OBVIOUS
<1>1. /\ at = "idle" /\ ~closed /\ stream # "none" /\ listening /\ secure # "handshaking"
      /\ info' = offer /\ offer \in InfoRecords
      /\ UNCHANGED <<offer, file, faults, infoReceived, connectsSent, options, retry, closed,
                     wasConnected, didConnect, threw>>
  BY DEF ReceiveInfo, servers, IInv, TypeOK
<1>2. CASE Mismatch(offer) /\ CloseStream /\ UNCHANGED <<userJWT, at, asked>>
  BY <1>1, <1>2, CloseStreamKeeps DEF IInv, TypeOK
<1>3. CASE /\ ~Mismatch(offer)
           /\ userJWT' = (userJWT \/ (offer.nonce /\ options.auth = "userCreds"))
           /\ at' = IF FirstInfo THEN "checked" ELSE at
           /\ asked' = IF FirstInfo THEN offer.tls_required ELSE asked
           /\ UNCHANGED socket
  <2>1. UNCHANGED <<stream, secure, listening, closeEvent>>
    BY <1>3 DEF socket
  <2>2. AgreesWith(offer)
    BY <1>3, PassedChecksAgree DEF IInv
  <2>3. AgreesWith(info)'
    BY <1>1, <2>2 DEF AgreesWith
  <2>4. offer.nonce \in BOOLEAN /\ offer.tls_required \in BOOLEAN
    BY <1>1 DEF InfoRecords
  <2>5. userJWT' \in BOOLEAN
    BY <1>3, <2>4 DEF IInv, TypeOK
  <2>6. CASE FirstInfo
    <3>1. at' = "checked" /\ asked' = offer.tls_required /\ stream = "tcp" /\ secure = "plain"
      BY <1>1, <1>3, <2>6 DEF FirstInfo, IInv, TypeOK, Begun, Encrypted
    <3>2. TypeOK'
      BY <1>1, <2>1, <2>4, <2>5, <3>1 DEF IInv, TypeOK
    <3>3. Checked'
      BY <1>1, <2>2, <2>3, <3>1 DEF Checked, AgreesWith
    <3>4. NeverStranded' /\ Deaf' /\ Begun' /\ Encrypted' /\ Answered'
      BY <1>1, <2>1, <3>1 DEF IInv, NeverStranded, Deaf, Begun, Passed, Encrypted, Answered
    <3>5. QED BY <3>2, <3>3, <3>4 DEF IInv
  <2>7. CASE ~FirstInfo
    <3>1. at' = at /\ asked' = asked /\ stream \in {"info", "ready"}
      BY <1>1, <1>3, <2>7 DEF FirstInfo, IInv, TypeOK, Begun
    <3>2. TypeOK'
      BY <1>1, <2>1, <2>5, <3>1 DEF IInv, TypeOK
    <3>3. Checked'
      BY <1>1, <2>1, <2>3, <3>1 DEF IInv, Passed, Checked
    <3>4. NeverStranded' /\ Deaf' /\ Begun' /\ Encrypted' /\ Answered'
      BY <1>1, <2>1, <3>1 DEF IInv, NeverStranded, Deaf, Begun, Passed, Encrypted, Answered
    <3>5. QED BY <3>2, <3>3, <3>4 DEF IInv
  <2>8. QED BY <2>6, <2>7
<1>4. QED BY <1>2, <1>3 DEF ReceiveInfo

LEMMA UpgradeKeeps == IInv /\ Upgrade => IInv'
<1> SUFFICES ASSUME IInv, Upgrade PROVE IInv'
  OBVIOUS
<1>1. /\ at = "checked" /\ at' = "upgraded" /\ asked = info.tls_required
      /\ stream \in {"none", "tcp"} /\ (stream = "tcp" => secure = "plain")
      /\ UNCHANGED <<offer, file, faults, info, infoReceived, asked, connectsSent, options,
                     userJWT, retry, closed, wasConnected, didConnect>>
  BY DEF Upgrade, servers, connection, IInv, TypeOK, Begun, Encrypted
<1>2. AgreesWith(info)' <=> AgreesWith(info)
  BY <1>1 DEF AgreesWith
<1>3. CASE ~NeedsUpgrade /\ UNCHANGED <<socket, threw>>
  <2>1. UNCHANGED <<stream, secure, listening, closeEvent, threw>>
    BY <1>3 DEF socket
  <2>2. TypeOK'
    BY <1>1, <2>1 DEF IInv, TypeOK
  <2>3. QED
    BY <1>1, <1>2, <1>3, <2>1, <2>2 DEF IInv, NeedsUpgrade, NeverStranded, Deaf, Begun, Passed,
       Checked, Encrypted, Answered
<1>4. CASE /\ NeedsUpgrade /\ secure' = "handshaking"
           /\ UNCHANGED <<stream, listening, closeEvent, threw>>
  <2>1. TypeOK'
    BY <1>1, <1>4 DEF IInv, TypeOK
  <2>2. QED
    BY <1>1, <1>2, <1>4, <2>1 DEF IInv, NeedsUpgrade, NeverStranded, Deaf, Begun, Passed,
       Checked, Encrypted, Answered
<1>5. CASE /\ NeedsUpgrade /\ listening' = FALSE /\ threw' = TRUE
           /\ stream' = IF ErrorIgnored THEN stream ELSE "none"
           /\ UNCHANGED <<secure, closeEvent>>
  <2>1. stream' \in {stream, "none"} /\ listening' \in BOOLEAN /\ threw' \in BOOLEAN
    BY <1>5
  <2>2. TypeOK'
    BY <1>1, <1>5, <2>1 DEF IInv, TypeOK
  <2>3. QED
    BY <1>1, <1>2, <1>5, <2>1, <2>2 DEF IInv, NeverStranded, Deaf, Begun, Passed, Checked,
       Encrypted, Answered
<1>6. QED BY <1>3, <1>4, <1>5 DEF Upgrade

LEMMA SignKeeps == IInv /\ Sign => IInv'
<1> SUFFICES ASSUME IInv, Sign PROVE IInv'
  OBVIOUS
<1>1. /\ at = "upgraded"
      /\ UNCHANGED <<offer, file, faults, info, infoReceived, asked, connectsSent, options,
                     userJWT, retry, closed, wasConnected, didConnect, threw>>
  BY DEF Sign, servers, connection, client
<1>2. CASE at' = "signed" /\ UNCHANGED socket
  <2>1. UNCHANGED <<stream, secure, listening, closeEvent>>
    BY <1>2 DEF socket
  <2>2. TypeOK'
    BY <1>1, <1>2, <2>1 DEF IInv, TypeOK
  <2>3. QED
    BY <1>1, <1>2, <2>1, <2>2 DEF IInv, NeverStranded, Deaf, Begun, Passed, Checked, Encrypted,
       Answered, AgreesWith
<1>3. CASE at' = "idle" /\ CloseStream
  BY <1>1, <1>3, CloseStreamKeeps DEF IInv, TypeOK
<1>4. QED BY <1>2, <1>3 DEF Sign

LEMMA WriteConnectKeeps == IInv /\ WriteConnect => IInv'
<1> SUFFICES ASSUME IInv, WriteConnect PROVE IInv'
  OBVIOUS
<1>1. /\ at = "signed" /\ at' = "idle" /\ infoReceived' = TRUE
      /\ UNCHANGED <<offer, file, faults, info, asked, options, userJWT, retry, closed,
                     wasConnected, didConnect, threw>>
  BY DEF WriteConnect, servers, client
<1>2. CASE /\ stream # "none" /\ stream' = "info" /\ connectsSent' = connectsSent + 1
           /\ UNCHANGED <<secure, listening, closeEvent>>
  <2>1. stream = "tcp" /\ connectsSent' = 1 /\ infoReceived' \in BOOLEAN
    BY <1>1, <1>2 DEF IInv, TypeOK, Begun
  <2>2. TypeOK'
    BY <1>1, <1>2, <2>1 DEF IInv, TypeOK
  <2>3. QED
    BY <1>1, <1>2, <2>1, <2>2 DEF IInv, NeverStranded, Deaf, Begun, Passed, Checked, Encrypted,
       Answered, AgreesWith
<1>3. CASE CloseStream /\ UNCHANGED connectsSent
  <2>1. infoReceived' \in BOOLEAN
    BY <1>1
  <2>2. QED BY <1>1, <1>3, <2>1, CloseStreamKeeps DEF IInv, TypeOK
<1>4. QED BY <1>2, <1>3 DEF WriteConnect

LEMMA SecuredKeeps == IInv /\ Secured => IInv'
  BY DEF Secured, servers, connection, client, IInv, TypeOK, NeverStranded, Deaf, Begun, Passed,
         Checked, Encrypted, Answered, AgreesWith

LEMMA HandshakePongKeeps == IInv /\ HandshakePong => IInv'
  BY DEF HandshakePong, servers, connection, IInv, TypeOK, NeverStranded, Deaf, Begun, Passed,
         Checked, Encrypted, Answered, AgreesWith

LEMMA HandshakeTimerKeeps == IInv /\ HandshakeTimer => IInv'
<1> SUFFICES ASSUME IInv, HandshakeTimer PROVE IInv'
  OBVIOUS
<1>1. faults' \in 0..MaxFaults
  BY FaultCounts DEF HandshakeTimer, IInv
<1>2. QED BY <1>1, CloseStreamKeeps DEF HandshakeTimer, connection, client, IInv, TypeOK

LEMMA SocketFailsKeeps == IInv /\ SocketFails => IInv'
<1> SUFFICES ASSUME IInv, SocketFails PROVE IInv'
  OBVIOUS
<1>1. faults' \in 0..MaxFaults
  BY FaultCounts DEF SocketFails, IInv
<1>2. QED BY <1>1, CloseStreamKeeps DEF SocketFails, connection, client, IInv, TypeOK

LEMMA CloseEventKeeps == IInv /\ CloseEvent => IInv'
<1> SUFFICES ASSUME IInv, CloseEvent PROVE IInv'
  OBVIOUS
<1>1. TypeOK'
  <2>1. closeEvent' \in BOOLEAN
    BY DEF CloseEvent
  <2>2. closed' \in BOOLEAN /\ retry' \in BOOLEAN
    BY DEF CloseEvent, IInv, TypeOK
  <2>3. QED BY <2>1, <2>2 DEF CloseEvent, servers, connection, IInv, TypeOK
<1>2. NeverStranded' /\ Deaf' /\ Answered'
  BY DEF CloseEvent, IInv, NeverStranded, Deaf, Answered
<1>3. Begun' /\ Checked' /\ Encrypted'
  BY DEF CloseEvent, Begun, Passed, Checked, Encrypted
<1>4. QED BY <1>1, <1>2, <1>3 DEF IInv

LEMMA ReconnectKeeps == IInv /\ Reconnect => IInv'
<1> SUFFICES ASSUME IInv, Reconnect PROVE IInv'
  OBVIOUS
<1>1. /\ at = "idle" /\ stream' = "tcp" /\ secure' = "plain" /\ listening' = TRUE
      /\ retry' = FALSE /\ asked' = FALSE /\ connectsSent' = 0
      /\ infoReceived' = FALSE /\ info' = NoInfo
      /\ UNCHANGED <<offer, file, faults, closeEvent, at, options, userJWT, wasConnected, threw>>
  BY DEF Reconnect, Dialed, servers
<1>2. TypeOK'
  <2>1. didConnect' \in BOOLEAN
    BY DEF Reconnect, Dialed
  <2>2. NoInfo \in InfoRecords
    BY DEF NoInfo, InfoRecords
  <2>3. closed' \in BOOLEAN
    BY DEF Reconnect, Dialed, IInv, TypeOK
  <2>4. retry' \in BOOLEAN /\ listening' \in BOOLEAN /\ infoReceived' \in BOOLEAN
    BY DEF Reconnect, Dialed
  <2>5. asked' \in BOOLEAN
    BY DEF Reconnect, Dialed
  <2>6. connectsSent' \in 0..1
    BY DEF Reconnect, Dialed
  <2>7. QED BY <1>1, <2>1, <2>2, <2>3, <2>4, <2>5, <2>6 DEF IInv, TypeOK
<1>3. at' = "idle" /\ stream' = "tcp" /\ secure' = "plain" /\ listening'
      /\ ~infoReceived' /\ connectsSent' = 0
  BY <1>1
<1>4. NeverStranded' /\ Deaf' /\ Begun' /\ Checked' /\ Encrypted' /\ Answered'
  BY <1>3 DEF NeverStranded, Deaf, Begun, Passed, Checked, Encrypted, Answered
<1>5. QED BY <1>2, <1>4 DEF IInv

LEMMA CloseKeeps == IInv /\ Close => IInv'
<1> SUFFICES ASSUME IInv, Close PROVE IInv'
  OBVIOUS
<1>1. closed' = TRUE /\ UNCHANGED <<servers, connection, at, options, userJWT, retry,
                                   wasConnected, didConnect, threw>>
  BY DEF Close
<1>2. QED BY <1>1, CloseStreamKeeps DEF Close, servers, connection, IInv, TypeOK

\* The file and the offer change alone.
LEMMA ChangesKeep == IInv /\ (FileChanges \/ OfferChanges) => IInv'
<1> SUFFICES ASSUME IInv, FileChanges \/ OfferChanges PROVE IInv'
  OBVIOUS
<1>1. UNCHANGED <<socket, connection, at, client>>
  BY DEF FileChanges, OfferChanges
<1>2. faults' \in 0..MaxFaults
  BY FaultCounts DEF FileChanges, OfferChanges, IInv
<1>3. file' \in {"good", "noSeed", "gone"}
  BY DEF FileChanges, OfferChanges, IInv, TypeOK
<1>4. offer' \in InfoRecords
  <2>1. CASE UNCHANGED offer
    BY <2>1 DEF IInv, TypeOK
  <2>2. ASSUME NEW f \in DOMAIN offer, offer' = [offer EXCEPT ![f] = ~@]
        PROVE  offer' \in InfoRecords
    BY <2>2 DEF IInv, TypeOK, InfoRecords
  <2>3. QED BY <2>1, <2>2 DEF FileChanges, OfferChanges
<1>5. TypeOK'
  BY <1>1, <1>2, <1>3, <1>4 DEF socket, connection, client, IInv, TypeOK
<1>6. NeverStranded' /\ Deaf' /\ Begun' /\ Checked' /\ Encrypted' /\ Answered'
  BY <1>1 DEF socket, connection, client, IInv, NeverStranded, Deaf, Begun, Passed, Checked,
     Encrypted, Answered, AgreesWith
<1>7. QED BY <1>5, <1>6 DEF IInv

LEMMA StepKeeps == IInv /\ [Next]_vars => IInv'
<1> SUFFICES ASSUME IInv, [Next]_vars PROVE IInv'
  OBVIOUS
<1>1. CASE UNCHANGED vars
  <2>1. UNCHANGED <<servers, socket, connection, at, client>>
    BY <1>1 DEF vars
  <2>2. TypeOK'
    BY <2>1 DEF servers, socket, connection, client, IInv, TypeOK
  <2>3. QED
    BY <2>1, <2>2 DEF socket, connection, client, IInv, NeverStranded, Deaf, Begun, Passed,
       Checked, Encrypted, Answered, AgreesWith
<1>2. CASE Next
  BY <1>2, ReceiveInfoKeeps, UpgradeKeeps, SignKeeps, WriteConnectKeeps, SecuredKeeps,
     HandshakePongKeeps, HandshakeTimerKeeps, SocketFailsKeeps, CloseEventKeeps,
     ReconnectKeeps, CloseKeeps, ChangesKeep DEF Next, Answering
<1>3. QED BY <1>1, <1>2

LEMMA Invariance == Spec => []IInv
  BY InitEstablishes, StepKeeps, PTL DEF Spec

-----------------------------------------------------------------------------
(* Theorems                                                                 *)

\* Whatever check, signature, timer or close ends a connection, the client
\* keeps a way to the next one, unless tls.connect() has thrown (processErr,
\* closeStream, handlers.close).
THEOREM AlwaysAWayOn == Spec => []NeverStranded
<1>1. IInv => NeverStranded
  BY DEF IInv
<1>2. QED BY Invariance, <1>1, PTL

\* A ready connection has one CONNECT, TLS exactly if its options or its first
\* INFO ask for it, and options that agree with the last INFO read, over any
\* number of INFOs and connections (protocolhandler.ts 650-698).
THEOREM ReadyOnlyAsAgreed == Spec => []ReadyAsAgreed
<1>1. ASSUME IInv, stream = "ready"
      PROVE  /\ connectsSent = 1
             /\ secure = IF asked THEN "tls" ELSE "plain"
             /\ options.tls # "any" => secure = IF options.tls = "off" THEN "plain" ELSE "tls"
             /\ AgreesWith(info)
  <2>1. Passed /\ at = "idle" /\ listening /\ secure # "handshaking" /\ connectsSent = 1
    BY <1>1 DEF IInv, Begun, Passed, Encrypted
  <2>2. asked <=> secure # "plain"
    BY <1>1, <2>1 DEF IInv, Encrypted
  <2>3. secure \in {"plain", "tls"} /\ options.tls \in {"off", "any", "on", "broken"}
    BY <1>1, <2>1 DEF IInv, TypeOK, OptionRecords
  <2>4. AgreesWith(info) /\ (options.tls = "off" => ~asked)
        /\ (options.tls \in {"on", "broken"} => asked)
    BY <1>1, <2>1 DEF IInv, Checked
  <2>5. QED BY <2>1, <2>2, <2>3, <2>4
<1>2. IInv => ReadyAsAgreed
  BY <1>1 DEF ReadyAsAgreed
<1>3. QED BY Invariance, <1>2, PTL

\* The fields hold what they should, and no connection carries two CONNECTs.
THEOREM HandshakeTypes == Spec => []TypeOK
<1>1. IInv => TypeOK
  BY DEF IInv
<1>2. QED BY Invariance, <1>1, PTL
=============================================================================
