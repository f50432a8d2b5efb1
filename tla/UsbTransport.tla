---------------------------- MODULE UsbTransport -----------------------------
(***************************************************************************)
(* UsbTransport (transport/usb.rs) under Trezor::connect: a v1 Cancel finds   *)
(* out whether the device speaks THP; the handshake is retried only while    *)
(* the device is busy; frames of another channel are skipped and the CRC is  *)
(* not looked at.                                                            *)
(***************************************************************************)
EXTENDS ThpDevice

UsbMaxRetries == 6

\* read_thp_response: a frame of another channel is skipped, an ERROR frame ends
\* the read (c = 0: no channel is expected).
UsbSkips(c, f) == c # 0 /\ f.ty # "allocRes" /\ f.chan # c

UsbReads(c, OnFrame(_)) ==
    \/ Receives(LAMBDA f :
         IF UsbSkips(c, f) THEN UNCHANGED <<host, chan>>
         ELSE IF f.ty = "error" THEN Fail(f.body) ELSE OnFrame(f))
    \/ TimesOut

\* send_thp_encrypted after its write.
UsbDecrypted(f) == [ok |-> Decrypts(f), body |-> f.body, thp |-> Received]

UsbAnswered(here, OnAnswer(_, _)) ==
    /\ host.pc = here
    /\ UsbReads(thp.chan, LAMBDA f :
         \/ LET a == UsbDecrypted(f) IN IF a.ok THEN OnAnswer(a.body, a.thp) ELSE Fail("aead")
         \/ AckFails)

\* send_thp_encrypted up to its write.
UsbSend(t, body, next) == SendEncrypted(t, body, 0, Await(next)) /\ UNCHANGED cred

UsbRefuse(t, e) == Failed(e) /\ thp' = t /\ UNCHANGED <<up, sent, faults, cred>>

\* acquire: the device is opened, and the input drained, unless it is open.
UsbOpen ==
    /\ host.pc = "open"
    /\ \/ ~link /\ Fault("open") /\ Returns("open") /\ UNCHANGED <<link, up, wire>>
       \/ /\ link' = TRUE
          /\ IF link THEN UNCHANGED <<up, wire>> ELSE LineCleared
          /\ host' = Await(IF thp.complete THEN "grant" ELSE "probe")
          /\ UNCHANGED faults
    /\ UNCHANGED <<kind, dev, sent, thp, cred, session, ops>>

\* detect_thp_protocol: a v1 Cancel, and what comes back; an error on the way
\* makes acquire go on with protocol v1.
UsbProbe ==
    /\ host.pc = "probe"
    /\ \/ /\ Transmit(Frame("v1", 0, 0, "cancel", 0))
          /\ host' = Await("detect")
          /\ UNCHANGED faults
       \/ Fault("refused") /\ host' = Await("grant") /\ UNCHANGED <<up, sent>>
    /\ UNCHANGED <<wire, thp, cred, world>>

UsbDetected ==
    /\ host.pc = "detect"
    /\ \/ Receives(LAMBDA f :
            /\ host' = Await(CASE f.ty = "v1" /\ f.body = "invalidProtocol" -> "begin"
                               [] f.ty \in {"allocRes", "error", "initRes"} -> "begin"
                               [] f.ty = "v1" /\ f.body # "invalidProtocol" -> "grant"
                               [] OTHER -> "detect")
            /\ UNCHANGED chan)
       \/ /\ wire = <<>>
          /\ \/ up = <<>> /\ UNCHANGED faults
             \/ up # <<>> /\ Fault("late")
          /\ host' = Await("grant")
          /\ UNCHANGED <<wire, up, sent, thp, cred, world>>

\* perform_thp_handshake when its inner function has failed.
UsbFailed ==
    /\ host.pc = "failed"
    /\ thp' = IF thp.there THEN Reset(thp) ELSE thp
    /\ IF host.err = "busy" /\ host.attempt < UsbMaxRetries
         THEN host' = [host EXCEPT !.pc = "begin", !.attempt = @ + 1]
         ELSE Returns(host.err)
    /\ UNCHANGED <<wire, up, sent, cred, faults, world>>
-----------------------------------------------------------------------------
(* perform_thp_handshake_inner. *)

UsbBegin ==
    /\ host.pc = "begin"
    /\ SendPlain(AllocRequest, thp, Await("alloc"))
    /\ UNCHANGED <<wire, world>>

\* The credential connect_usb left pending goes into a state that has none.
UsbAllocated ==
    /\ host.pc = "alloc"
    /\ UsbReads(0, LAMBDA f :
         IF f.ty # "allocRes" THEN Fail("unexpected")
         ELSE LET t == OnChannel(IF thp.there THEN thp ELSE NewState, f.id) IN
              SendPlain(InitRequest(f.id, FALSE),
                        [t EXCEPT !.creds = IF @ = "none" THEN cred ELSE @],
                        Await("init")))

UsbStoredCredential == IF thp.creds = "malformed" THEN "none" ELSE thp.creds

UsbInitAnswered ==
    /\ host.pc = "init"
    /\ UsbReads(thp.chan, LAMBDA f :
         CASE f.ty = "initRes" /\ InitDecrypts(thp) ->
                SendPlain(CompletionRequest(thp, Verified(UsbStoredCredential)), Keyed(thp),
                          Await("comp"))
           [] f.ty = "initRes" /\ ~InitDecrypts(thp) -> UsbRefuse(Unkeyed(thp), "aead")
           [] OTHER -> Fail("unexpected"))

\* The state is marked paired before the dialogue that earns it, on both ways.
UsbCompleted ==
    /\ host.pc = "comp"
    /\ UsbReads(thp.chan, LAMBDA f :
         \/ f.ty # "compRes" /\ Fail("unexpected")
         \/ /\ f.ty = "compRes"
            /\ LET t == [thp EXCEPT !.paired = TRUE] IN
               IF f.body = "unknown" THEN UsbSend(t, "pairingRequest", "pair")
                                     ELSE UsbSend(t, "endRequest", "end")
         \/ AckFails)

\* The handshake ends: the state must be paired; then the session is created.
UsbFinish(t) ==
    IF t.paired THEN UsbSend(NextSessionId(t), "createSession", "created")
                ELSE UsbRefuse(t, "notPaired")

UsbEnded ==
    \/ UsbAnswered("end", LAMBDA b, t :
         CASE b = "button" -> UsbSend(t, "buttonAck", "endButton")
           [] b = "endResponse" -> UsbFinish(t)
           [] OTHER -> UsbRefuse(t, "unexpected"))
    \/ UsbAnswered("endButton", LAMBDA b, t :
         IF b = "endResponse" THEN UsbFinish(t) ELSE UsbRefuse(t, "unexpected"))

\* create_thp_session; handshake_complete is set when it has succeeded.
UsbSessionCreated ==
    UsbAnswered("created", LAMBDA b, t :
      CASE b = "button" -> UsbSend(t, "buttonAck", "created")
        [] b = "success" -> /\ host' = Await("grant")
                            /\ thp' = [t EXCEPT !.complete = TRUE]
                            /\ UNCHANGED <<up, sent, faults, cred>>
        [] OTHER -> UsbRefuse(t, "sessionError"))

\* acquire's session, after which connect_usb files the credential of a device
\* that speaks THP.
UsbGranted == Grants(IF thp.complete /\ thp.creds # "none" THEN thp.creds ELSE cred)
-----------------------------------------------------------------------------
(* perform_thp_pairing. *)

UsbPairingRequested ==
    \/ UsbAnswered("pair", LAMBDA b, t :
         CASE b = "button" -> UsbSend(t, "buttonAck", "pairButton")
           [] b = "approved" -> UsbSend(t, "selectMethod", "select")
           [] OTHER -> UsbRefuse(t, "pairing"))
    \/ UsbAnswered("pairButton", LAMBDA b, t :
         IF b = "approved" THEN UsbSend(t, "selectMethod", "select")
                           ELSE UsbRefuse(t, "pairing"))

UsbMethodSelected ==
    \/ UsbAnswered("select", LAMBDA b, t :
         CASE b = "preparations" -> UsbSend(t, "challenge", "commit")
           [] b = "commitment" -> UsbSend(t, "challenge", "cpace")
           [] OTHER -> UsbRefuse(t, "pairing"))
    \/ UsbAnswered("commit", LAMBDA b, t :
         IF b = "commitment" THEN UsbSend(t, "challenge", "cpace")
                             ELSE UsbRefuse(t, "pairing"))

UsbCpaceReceived ==
    UsbAnswered("cpace", LAMBDA b, t :
      IF b = "cpace"
        THEN host' = Await("code") /\ thp' = t /\ UNCHANGED <<up, sent, faults, cred>>
        ELSE UsbRefuse(t, "pairing"))

\* The code is right, wrong, empty or there is nobody to ask.
UsbCodeEntered ==
    /\ host.pc = "code"
    /\ \/ \E tag \in {"tag", "badTag"} : UsbSend(thp, tag, "secret")
       \/ Fail("cancelled")
    /\ UNCHANGED <<wire, world>>

UsbSecretReceived ==
    UsbAnswered("secret", LAMBDA b, t :
      CASE b = "secret" -> UsbSend(t, "credentialRequest", "credential")
        [] b = "failure" -> UsbRefuse(t, "badCode")
        [] OTHER -> UsbRefuse(t, "pairing"))

\* The credential goes into the state; one that does not decode is skipped.
UsbCredentialFiled(b, t) ==
    UsbSend([t EXCEPT !.creds = IF b = "credential" THEN "valid" ELSE @],
            "endRequest", "pairEnd")

UsbCredentialIssued ==
    \/ UsbAnswered("credential", LAMBDA b, t :
         CASE b = "button" -> UsbSend(t, "buttonAck", "credentialButton")
           [] b \in {"credential", "malformed"} -> UsbCredentialFiled(b, t)
           [] OTHER -> UsbRefuse(t, "pairing"))
    \/ UsbAnswered("credentialButton", LAMBDA b, t :
         IF b \in {"credential", "malformed"} THEN UsbCredentialFiled(b, t)
                                              ELSE UsbRefuse(t, "pairing"))

\* perform_thp_pairing returns to perform_thp_handshake_inner.
UsbPairingEnded ==
    UsbAnswered("pairEnd", LAMBDA b, t :
      IF b = "endResponse" THEN UsbFinish(t) ELSE UsbRefuse(t, "pairing"))
-----------------------------------------------------------------------------
(* The operations on an acquired session. *)

\* call: encrypted once the handshake is complete, protocol v1 otherwise.
UsbCall ==
    /\ host.pc = "call"
    /\ \/ /\ thp.complete
          /\ SendEncrypted(thp, "call", host.id, Await("answer"))
          /\ UNCHANGED cred
       \/ /\ ~thp.complete
          /\ SendPlain(Frame("v1", 0, 0, "call", host.id), thp, Await("v1answer"))
    /\ UNCHANGED <<wire, world>>

UsbCalled ==
    /\ host.pc = "answer"
    /\ UsbReads(thp.chan, LAMBDA f :
         \/ IF Decrypts(f)
              THEN /\ host' = [host EXCEPT !.pc = "idle", !.res = "ok", !.got = f.id]
                   /\ thp' = Received
                   /\ UNCHANGED <<up, sent, faults, cred>>
              ELSE Fail("aead")
         \/ AckFails)

\* A v1 answer: chunks without the v1 header are skipped.
UsbCalledV1 ==
    /\ host.pc = "v1answer"
    /\ \/ Receives(LAMBDA f :
            /\ host' = IF f.ty = "v1"
                         THEN [host EXCEPT !.pc = "idle", !.res = "ok", !.got = f.id]
                         ELSE host
            /\ UNCHANGED chan)
       \/ TimesOut

\* create_session is not implemented for this transport (trait default).
UsbCreateSession ==
    /\ host.pc = "session"
    /\ Returns("ok")
    /\ UNCHANGED <<wire, chan, world>>

UsbRelease ==
    /\ host.pc = "release"
    /\ link' = FALSE /\ LineCleared
    /\ thp' = NoState
    /\ ReleaseSession
    /\ Returns("ok")
    /\ UNCHANGED <<kind, dev, sent, cred, ops, faults>>

UsbStep ==
    /\ kind = "usb"
    /\ \/ UsbOpen \/ UsbProbe \/ UsbDetected \/ UsbFailed \/ UsbBegin \/ UsbAllocated
       \/ UsbInitAnswered \/ UsbCompleted \/ UsbEnded \/ UsbSessionCreated \/ UsbGranted
       \/ UsbPairingRequested \/ UsbMethodSelected \/ UsbCpaceReceived \/ UsbCodeEntered
       \/ UsbSecretReceived \/ UsbCredentialIssued \/ UsbPairingEnded
       \/ UsbCall \/ UsbCalled \/ UsbCalledV1 \/ UsbCreateSession \/ UsbRelease
=============================================================================
