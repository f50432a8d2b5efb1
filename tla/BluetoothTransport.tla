-------------------------- MODULE BluetoothTransport -------------------------
(***************************************************************************)
(* BluetoothTransport (transport/bluetooth.rs) under Trezor::connect: every  *)
(* connection opens the peripheral anew and hands the stored credential to   *)
(* the fresh state; a handshake is retried only while the device is busy,    *)
(* and the state is reset, not removed, when it fails.                       *)
(***************************************************************************)
EXTENDS ThpDevice

BleMaxRetries == 3

\* read_response: CRC and channel are checked, an ERROR frame is handed on like
\* any other (c = 0: the state has no channel).
BleFrameOk(c, f) == f.ty # "garbled" /\ (c # 0 /\ f.ty # "allocRes" => f.chan = c)

BleReads(c, OnFrame(_)) ==
    \/ Receives(LAMBDA f : IF BleFrameOk(c, f) THEN OnFrame(f) ELSE Fail("crc"))
    \/ TimesOut

\* send_encrypted_message after its write; an ERROR frame does not decrypt.
BleDecrypted(f) == [ok |-> Decrypts(f), body |-> f.body, thp |-> Received]

BleAnswered(here, OnAnswer(_, _)) ==
    /\ host.pc = here
    /\ BleReads(thp.chan, LAMBDA f :
         \/ LET a == BleDecrypted(f) IN IF a.ok THEN OnAnswer(a.body, a.thp) ELSE Fail("aead")
         \/ AckFails)

\* send_encrypted_message up to its write; it does not ask whether the state is
\* paired.
BleSend(t, body, next) == SendEncrypted(t, body, 0, Await(next)) /\ UNCHANGED cred

BleRefuse(t, e) == Failed(e) /\ thp' = t /\ UNCHANGED <<up, sent, faults, cred>>

\* Trezor::connect_bluetooth up to acquire: TransportApi::open puts a fresh
\* state in the map and add_device_credentials the stored credential in it.
BleOpen ==
    /\ host.pc = "open"
    /\ \/ Fault("open") /\ Returns("open") /\ UNCHANGED <<link, up, wire, thp>>
       \/ /\ link' = TRUE /\ LineCleared
          /\ thp' = [NewState EXCEPT !.creds = cred]
          /\ host' = Await("begin")
          /\ UNCHANGED faults
    /\ UNCHANGED <<kind, dev, sent, cred, session, ops>>

\* perform_thp_handshake when its inner function has failed.
BleFailed ==
    /\ host.pc = "failed"
    /\ thp' = Reset(thp)
    /\ IF host.err = "busy" /\ host.attempt < BleMaxRetries
         THEN host' = [host EXCEPT !.pc = "begin", !.attempt = @ + 1]
         ELSE Returns(host.err)
    /\ UNCHANGED <<wire, up, sent, cred, faults, world>>
-----------------------------------------------------------------------------
(* perform_thp_handshake_inner. *)

BleBegin ==
    /\ host.pc = "begin"
    /\ SendPlain(AllocRequest, thp, Await("alloc"))
    /\ UNCHANGED <<wire, world>>

\* The response is read without read_response: an ERROR frame is unexpected.
BleAllocated ==
    /\ host.pc = "alloc"
    /\ BleReads(0, LAMBDA f :
         IF f.ty # "allocRes" THEN Fail("unexpected")
         ELSE SendPlain(InitRequest(f.id, FALSE), OnChannel(thp, f.id), Await("init")))

\* The first pairing credential, if it decodes, is the one to present.
BleStoredCredential == IF thp.creds = "malformed" THEN "none" ELSE thp.creds

BleInitAnswered ==
    /\ host.pc = "init"
    /\ BleReads(thp.chan, LAMBDA f :
         CASE f.ty = "error" -> Fail(f.body)
           [] f.ty = "initRes" /\ InitDecrypts(thp) ->
                SendPlain(CompletionRequest(thp, Verified(BleStoredCredential)), Keyed(thp),
                          Await("comp"))
           [] f.ty = "initRes" /\ ~InitDecrypts(thp) -> BleRefuse(Unkeyed(thp), "aead")
           [] OTHER -> Fail("unexpected"))

\* An unknown credential starts the pairing, whether one was sent or not; the
\* state is marked paired for a known one only.
BleCompleted ==
    /\ host.pc = "comp"
    /\ BleReads(thp.chan, LAMBDA f :
         \/ f.ty # "compRes" /\ Fail("unexpected")
         \/ f.ty = "compRes" /\ f.body = "unknown" /\ BleSend(thp, "pairingRequest", "pair")
         \/ /\ f.ty = "compRes" /\ f.body = "known"
            /\ BleSend([thp EXCEPT !.paired = TRUE], "endRequest", "end")
         \/ AckFails)

\* The handshake ends: the state must be paired; then the session is created.
BleFinish(t) ==
    IF t.paired THEN BleSend(NextSessionId(t), "createSession", "created")
                ELSE BleRefuse(t, "notPaired")

BleEnded ==
    \/ BleAnswered("end", LAMBDA b, t :
         CASE b = "button" -> BleSend(t, "buttonAck", "endButton")
           [] b = "endResponse" -> BleFinish(t)
           [] OTHER -> BleRefuse(t, "pairing"))
    \/ BleAnswered("endButton", LAMBDA b, t :
         IF b = "endResponse" THEN BleFinish(t) ELSE BleRefuse(t, "pairing"))

\* handle_session_response presses on through buttons; acquire sets
\* handshake_complete when perform_thp_handshake has returned.
BleSessionCreated ==
    BleAnswered("created", LAMBDA b, t :
      CASE b = "button" -> BleSend(t, "buttonAck", "created")
        [] b = "success" -> /\ host' = Await("grant")
                            /\ thp' = [t EXCEPT !.complete = TRUE]
                            /\ UNCHANGED <<up, sent, faults, cred>>
        [] OTHER -> BleRefuse(t, "sessionError"))

\* acquire's session, after which connect_bluetooth files the credential.
BleGranted == Grants(IF thp.creds = "none" THEN cred ELSE thp.creds)
-----------------------------------------------------------------------------
(* perform_pairing. *)

BlePairingRequested ==
    \/ BleAnswered("pair", LAMBDA b, t :
         CASE b = "button" -> BleSend(t, "buttonAck", "pairButton")
           [] b = "approved" -> BleSend(t, "selectMethod", "select")
           [] OTHER -> BleRefuse(t, "pairing"))
    \/ BleAnswered("pairButton", LAMBDA b, t :
         IF b = "approved" THEN BleSend(t, "selectMethod", "select")
                           ELSE BleRefuse(t, "pairing"))

BleMethodSelected ==
    \/ BleAnswered("select", LAMBDA b, t :
         CASE b = "preparations" -> BleSend(t, "challenge", "commit")
           [] b = "commitment" -> BleSend(t, "challenge", "cpace")
           [] OTHER -> BleRefuse(t, "pairing"))
    \/ BleAnswered("commit", LAMBDA b, t :
         IF b = "commitment" THEN BleSend(t, "challenge", "cpace")
                             ELSE BleRefuse(t, "pairing"))

BleCpaceReceived ==
    BleAnswered("cpace", LAMBDA b, t :
      IF b = "cpace"
        THEN host' = Await("code") /\ thp' = t /\ UNCHANGED <<up, sent, faults, cred>>
        ELSE BleRefuse(t, "pairing"))

\* The code is used as it was entered, an empty one too.
BleCodeEntered ==
    /\ host.pc = "code"
    /\ \E tag \in {"tag", "badTag"} : BleSend(thp, tag, "secret")
    /\ UNCHANGED <<wire, world>>

BleSecretReceived ==
    BleAnswered("secret", LAMBDA b, t :
      CASE b = "secret" -> BleSend(t, "credentialRequest", "credential")
        [] b = "failure" -> BleRefuse(t, "badCode")
        [] OTHER -> BleRefuse(t, "pairing"))

\* The credential goes into the state; one that does not decode is an error.
BleCredentialIssued ==
    \/ BleAnswered("credential", LAMBDA b, t :
         CASE b = "button" -> BleSend(t, "buttonAck", "credentialButton")
           [] b = "credential" -> BleSend([t EXCEPT !.creds = "valid"], "endRequest", "pairEnd")
           [] OTHER -> BleRefuse(t, "pairing"))
    \/ BleAnswered("credentialButton", LAMBDA b, t :
         IF b = "credential"
           THEN BleSend([t EXCEPT !.creds = "valid"], "endRequest", "pairEnd")
           ELSE BleRefuse(t, "pairing"))

\* perform_pairing returns to perform_thp_handshake_inner.
BlePairingEnded ==
    BleAnswered("pairEnd", LAMBDA b, t :
      IF b = "endResponse" THEN BleFinish(t) ELSE BleRefuse(t, "pairing"))
-----------------------------------------------------------------------------
(* The operations on an acquired session. *)

\* call: encrypted when the state is paired, in the clear when it is not.
BleCall ==
    /\ host.pc = "call"
    /\ \/ ~thp.there /\ Returns("notFound") /\ UNCHANGED chan
       \/ /\ thp.there /\ thp.paired
          /\ SendEncrypted(thp, "call", host.id, Await("answer"))
          /\ UNCHANGED cred
       \/ /\ thp.there /\ ~thp.paired
          /\ SendPlain(Frame("plain", thp.chan, 0, "call", host.id), thp, Await("plainAnswer"))
    /\ UNCHANGED <<wire, world>>

BleCalled ==
    /\ host.pc = "answer"
    /\ BleReads(thp.chan, LAMBDA f :
         \/ IF Decrypts(f)
              THEN /\ host' = [host EXCEPT !.pc = "idle", !.res = "ok", !.got = f.id]
                   /\ thp' = Received
                   /\ UNCHANGED <<up, sent, faults, cred>>
              ELSE Fail("aead")
         \/ AckFails)

\* The plain answer is whatever comes first; the read has no timeout.
BleCalledPlain ==
    /\ host.pc = "plainAnswer"
    /\ Receives(LAMBDA f :
         /\ host' = [host EXCEPT !.pc = "idle", !.res = "ok", !.got = f.id]
         /\ UNCHANGED chan)

\* create_session is not implemented for this transport (trait default).
BleCreateSession ==
    /\ host.pc = "session"
    /\ Returns("ok")
    /\ UNCHANGED <<wire, chan, world>>

\* release: the entry is removed before the disconnect that may fail, and the
\* session only after it.
BleRelease ==
    /\ host.pc = "release"
    /\ link' = FALSE /\ LineCleared
    /\ thp' = NoState
    /\ \/ ReleaseSession /\ Returns("ok") /\ UNCHANGED faults
       \/ Fault("close") /\ Returns("close") /\ UNCHANGED session
    /\ UNCHANGED <<kind, dev, sent, cred, ops>>

BluetoothStep ==
    /\ kind = "bluetooth"
    /\ \/ BleOpen \/ BleFailed \/ BleBegin \/ BleAllocated \/ BleInitAnswered
       \/ BleCompleted \/ BleEnded \/ BleSessionCreated \/ BleGranted
       \/ BlePairingRequested \/ BleMethodSelected \/ BleCpaceReceived
       \/ BleCodeEntered \/ BleSecretReceived \/ BleCredentialIssued \/ BlePairingEnded
       \/ BleCall \/ BleCalled \/ BleCalledPlain \/ BleCreateSession \/ BleRelease
=============================================================================
