-------------------------- MODULE CallbackTransport --------------------------
(***************************************************************************)
(* CallbackTransport (transport/callback.rs): the application supplies the  *)
(* raw link and keeps the pairing credential.  The handshake is retried up  *)
(* to three times with the stored credential on a reopened link; when the   *)
(* device rejects the credential, or the attempts run out, the credential   *)
(* is cleared and the device is paired afresh.                              *)
(***************************************************************************)
EXTENDS ThpDevice

CbKinds == {"callbackBle", "callbackUsb"}

\* Mutant: the first failure is the last attempt.
CbOneAttempt == 1

CbMaxRetries == 3

\* read_response: the error it makes of a frame in validate_crc, validate_channel
\* or for an ERROR frame; c = 0 stands for a read that expects no channel.
CbFrameError(c, f) ==
    CASE f.ty = "garbled" \/ (c # 0 /\ f.ty # "allocRes" /\ f.chan # c) -> "crc"
      [] f.ty = "error" -> f.body
      [] OTHER -> "none"

CbReads(c, OnFrame(_)) ==
    \/ Receives(LAMBDA f : LET e == CbFrameError(c, f)
                           IN  IF e = "none" THEN OnFrame(f) ELSE Fail(e))
    \/ TimesOut

\* send_encrypted_message after its write: decrypt, advance the nonce, unless the
\* ACK could not be written.
CbDecrypted(f) == [ok |-> Decrypts(f), body |-> f.body, thp |-> Received]

CbAnswered(here, OnAnswer(_, _)) ==
    /\ host.pc = here
    /\ CbReads(thp.chan, LAMBDA f :
         \/ LET a == CbDecrypted(f) IN IF a.ok THEN OnAnswer(a.body, a.thp) ELSE Fail("aead")
         \/ AckFails)

\* send_encrypted_message up to its write.
CbSend(t, body, next) == SendEncrypted(t, body, 0, Await(next)) /\ UNCHANGED cred

\* An answer of the wrong type ends the handshake with e.
CbRefuse(t, e) == Failed(e) /\ thp' = t /\ UNCHANGED <<up, sent, faults, cred>>

-----------------------------------------------------------------------------
(* acquire and the retry loop. *)

\* Mutant: a link that is already open needs no handshake.
CbOpenTrustsLink ==
    /\ host.pc = "open"
    /\ link' = TRUE
    /\ host' = Await(IF link THEN "grant" ELSE IF kind = "callbackBle" THEN "begin" ELSE "probe")
    /\ UNCHANGED <<kind, dev, up, wire, sent, thp, cred, session, ops, faults>>

\* Open the device; a handshake over Bluetooth unless one is complete, a look
\* at the protocol over USB.
CbOpen ==
    /\ host.pc = "open"
    /\ \/ Fault("open") /\ Returns("open") /\ UNCHANGED link
       \/ /\ link' = TRUE
          /\ host' = Await(CASE thp.complete -> "grant"
                             [] kind = "callbackBle" /\ ~thp.complete -> "begin"
                             [] OTHER -> "probe")
          /\ UNCHANGED faults
    /\ UNCHANGED <<kind, dev, up, wire, sent, thp, cred, session, ops>>

\* detect_thp_protocol writes a v1 Cancel; an error means protocol v1.
CbProbe ==
    /\ host.pc = "probe"
    /\ \/ /\ Transmit(Frame("v1", 0, 0, "cancel", 0))
          /\ host' = Await("detect")
          /\ UNCHANGED faults
       \/ Fault("refused") /\ host' = Await("grant") /\ UNCHANGED <<up, sent>>
    /\ UNCHANGED <<wire, thp, cred, world>>

\* ... and reads up to three times: Failure_InvalidProtocol or a THP frame
\* means THP, another v1 answer or silence means v1.
CbDetected ==
    /\ host.pc = "detect"
    /\ \/ Receives(LAMBDA f :
            /\ host' = Await(IF \/ f.ty = "v1" /\ f.body = "invalidProtocol"
                                \/ f.ty \in {"allocRes", "error", "initRes"}
                               THEN "begin" ELSE "grant")
            /\ UNCHANGED chan)
       \/ /\ wire = <<>>
          /\ \/ up = <<>> /\ UNCHANGED faults
             \/ up # <<>> /\ Fault("late")
          /\ host' = Await("grant")
          /\ UNCHANGED <<wire, up, sent, thp, cred, world>>

\* The session; the application has saved the credential during the pairing.
CbGranted == Grants(cred)

\* Whether the retry loop takes another turn after error e.
CbRetryable(e) ==
    e \in {"transfer", "aead", "decryptionFailed", "unallocated", "busy", "pairing"}

\* perform_thp_handshake when its inner function has failed.  The attempt that
\* unlocks the device and the one that pairs afresh are outside the loop: their
\* errors are returned as they are.
CbFailed ==
    /\ host.pc = "failed"
    /\ IF host.unlock \/ host.skip
         THEN Returns(host.err) /\ UNCHANGED <<link, up, wire, thp, cred, faults>>
         ELSE LET locked == host.err = "locked"
                  again  == CbRetryable(host.err) /\ host.attempt < CbMaxRetries
                  afresh == \/ host.err = "rejected"
                            \/ CbRetryable(host.err) /\ host.attempt = CbMaxRetries
              IN /\ thp' = NoState
                 /\ cred' = IF afresh THEN "none" ELSE cred
                 /\ \/ /\ locked \/ again \/ afresh
                       /\ host' = [host EXCEPT !.pc = "begin",
                                               !.attempt = IF again THEN @ + 1 ELSE @,
                                               !.unlock = locked, !.skip = afresh]
                       /\ LineCleared /\ UNCHANGED <<link, faults>>
                    \/ /\ locked \/ again \/ afresh
                       /\ Fault("open")
                       /\ Returns("notFound") /\ link' = FALSE /\ LineCleared
                    \/ /\ ~(locked \/ again \/ afresh)
                       /\ Returns(host.err) /\ UNCHANGED <<link, up, wire, faults>>
    /\ UNCHANGED <<kind, dev, sent, session, ops>>
-----------------------------------------------------------------------------
(* perform_thp_handshake_inner. *)

\* load_thp_credential: what does not parse counts as absent.
CbLoaded == IF host.skip \/ cred = "malformed" THEN "none" ELSE cred

\* The channel allocation request.
CbBegin ==
    /\ host.pc = "begin"
    /\ SendPlain(AllocRequest, thp, [host EXCEPT !.pc = "alloc", !.loaded = CbLoaded])
    /\ UNCHANGED <<wire, world>>

\* The response names the channel; entry().or_insert_with() keeps a state that
\* is still there.  The handshake init request follows.
CbAllocated ==
    /\ host.pc = "alloc"
    /\ CbReads(0, LAMBDA f :
         IF f.ty # "allocRes" THEN Fail("unexpected")
         ELSE LET t == OnChannel(IF thp.there THEN thp ELSE NewState, f.id) IN
              SendPlain(InitRequest(f.id, host.unlock), t, Await("init")))

\* The init response is checked and decrypted, the completion request sent.
CbInitAnswered ==
    /\ host.pc = "init"
    /\ CbReads(thp.chan, LAMBDA f :
         IF f.ty # "initRes" THEN Fail("unexpected")
         ELSE IF ~InitDecrypts(thp) THEN CbRefuse(Unkeyed(thp), "aead")
         ELSE SendPlain(CompletionRequest(thp, Verified(host.loaded)), Keyed(thp), Await("comp")))

\* Mutant: a known credential completes the handshake at once.
CbCompletedEarly ==
    /\ host.pc = "comp"
    /\ CbReads(thp.chan, LAMBDA f :
         /\ host' = Await("grant")
         /\ thp' = [thp EXCEPT !.paired = TRUE, !.complete = TRUE]
         /\ UNCHANGED <<up, sent, faults, cred>>)

\* The completion response: an unknown credential is an error when one was
\* sent and starts the pairing when none was; a known one needs ThpEndRequest.
CbCompleted ==
    /\ host.pc = "comp"
    /\ CbReads(thp.chan, LAMBDA f :
         \/ /\ f.ty # "compRes"
            /\ Fail("unexpected")
         \/ /\ f.ty = "compRes" /\ f.body = "unknown"
            /\ IF Verified(host.loaded) # "none"
                 THEN Fail("rejected")
                 ELSE CbSend([thp EXCEPT !.paired = TRUE], "pairingRequest", "pair")
         \/ /\ f.ty = "compRes" /\ f.body = "known"
            /\ CbSend([thp EXCEPT !.paired = TRUE], "endRequest", "end")
         \/ AckFails)

\* The handshake ends: the state must be paired for the channel of this run.
CbFinish(t) ==
    /\ IF t.paired
         THEN host' = Await("grant") /\ thp' = [t EXCEPT !.complete = TRUE]
         ELSE Failed("notPaired") /\ thp' = t
    /\ UNCHANGED <<up, sent, faults, cred>>

\* ThpEndResponse after a known credential, with at most one button press.
CbEnded ==
    \/ CbAnswered("end", LAMBDA b, t :
         CASE b = "button" -> CbSend(t, "buttonAck", "endButton")
           [] b = "endResponse" -> CbFinish(t)
           [] OTHER -> CbRefuse(t, "unexpected"))
    \/ CbAnswered("endButton", LAMBDA b, t :
         IF b = "endResponse" THEN CbFinish(t) ELSE CbRefuse(t, "unexpected"))
-----------------------------------------------------------------------------
(* perform_pairing. *)

CbPairingRequested ==
    \/ CbAnswered("pair", LAMBDA b, t :
         CASE b = "button" -> CbSend(t, "buttonAck", "pairButton")
           [] b = "approved" -> CbSend(t, "selectMethod", "select")
           [] OTHER -> CbRefuse(t, "pairing"))
    \/ CbAnswered("pairButton", LAMBDA b, t :
         IF b = "approved" THEN CbSend(t, "selectMethod", "select")
                           ELSE CbRefuse(t, "pairing"))

\* Code entry is selected; the device commits at once or after a challenge.
CbMethodSelected ==
    \/ CbAnswered("select", LAMBDA b, t :
         CASE b = "preparations" -> CbSend(t, "challenge", "commit")
           [] b = "commitment" -> CbSend(t, "challenge", "cpace")
           [] OTHER -> CbRefuse(t, "pairing"))
    \/ CbAnswered("commit", LAMBDA b, t :
         IF b = "commitment" THEN CbSend(t, "challenge", "cpace")
                             ELSE CbRefuse(t, "pairing"))

CbCpaceReceived ==
    CbAnswered("cpace", LAMBDA b, t :
      IF b = "cpace"
        THEN host' = Await("code") /\ thp' = t /\ UNCHANGED <<up, sent, faults, cred>>
        ELSE CbRefuse(t, "pairing"))

\* get_pairing_code: the user types the code, mistypes it or gives up.
CbCodeEntered ==
    /\ host.pc = "code"
    /\ \/ CbSend(thp, "tag", "secret")
       \/ CbSend(thp, "badTag", "secret")
       \/ Fail("cancelled")
    /\ UNCHANGED <<wire, world>>

\* The device's secret must open its commitment (validate_code_entry_tag).
CbSecretReceived ==
    CbAnswered("secret", LAMBDA b, t :
      CASE b = "secret" -> CbSend(t, "credentialRequest", "credential")
        [] b = "failure" -> CbRefuse(t, "badCode")
        [] OTHER -> CbRefuse(t, "pairing"))

\* The credential is saved; one that does not parse is skipped.
CbCredentialSaved(b, t) ==
    /\ cred' = IF b = "credential" THEN "valid" ELSE cred
    /\ SendEncrypted(t, "endRequest", 0, Await("pairEnd"))

CbCredentialIssued ==
    \/ CbAnswered("credential", LAMBDA b, t :
         CASE b = "button" -> CbSend(t, "buttonAck", "credentialButton")
           [] b \in {"credential", "malformed"} -> CbCredentialSaved(b, t)
           [] OTHER -> CbRefuse(t, "pairing"))
    \/ CbAnswered("credentialButton", LAMBDA b, t :
         IF b \in {"credential", "malformed"} THEN CbCredentialSaved(b, t)
                                              ELSE CbRefuse(t, "pairing"))

CbPairingEnded ==
    CbAnswered("pairEnd", LAMBDA b, t :
      IF b = "endResponse" THEN CbFinish(t) ELSE CbRefuse(t, "pairing"))
-----------------------------------------------------------------------------
(* The operations on an acquired session. *)

CbNeedsThp == thp.there \/ kind = "callbackBle"

\* call: encrypted on a paired channel, protocol v1 for a device without one.
CbCall ==
    /\ host.pc = "call"
    /\ \/ /\ CbNeedsThp /\ thp.paired
          /\ SendEncrypted(thp, "call", host.id, Await("answer"))
          /\ UNCHANGED cred
       \/ CbNeedsThp /\ ~thp.paired /\ Returns("notPaired") /\ UNCHANGED chan
       \/ /\ ~CbNeedsThp
          /\ SendPlain(Frame("v1", 0, 0, "call", host.id), thp, Await("v1answer"))
    /\ UNCHANGED <<wire, world>>

\* The answer is returned to the caller, whatever message it answers.
CbCalled ==
    /\ host.pc = "answer"
    /\ CbReads(thp.chan, LAMBDA f :
         \/ IF Decrypts(f)
              THEN /\ host' = [host EXCEPT !.pc = "idle", !.res = "ok", !.got = f.id]
                   /\ thp' = Received
                   /\ UNCHANGED <<up, sent, faults, cred>>
              ELSE Fail("aead")
         \/ AckFails)

\* A v1 answer: chunks without the v1 header are skipped.
CbCalledV1 ==
    /\ host.pc = "v1answer"
    /\ \/ Receives(LAMBDA f :
            /\ host' = IF f.ty = "v1"
                         THEN [host EXCEPT !.pc = "idle", !.res = "ok", !.got = f.id]
                         ELSE host
            /\ UNCHANGED chan)
       \/ TimesOut

\* create_session: the session id advances before the device has agreed.
CbCreateSession ==
    /\ host.pc = "session"
    /\ \/ ~CbNeedsThp /\ Returns("ok") /\ UNCHANGED chan
       \/ CbNeedsThp /\ ~thp.there /\ Returns("notFound") /\ UNCHANGED chan
       \/ thp.there /\ CbSend(NextSessionId(thp), "createSession", "created")
    /\ UNCHANGED <<wire, world>>

CbSessionAnswered ==
    CbAnswered("created", LAMBDA b, t :
      IF b = "button" THEN CbSend(t, "buttonAck", "created")
      ELSE /\ Returns(IF b = "success" THEN "ok" ELSE "sessionError")
           /\ thp' = t
           /\ UNCHANGED <<up, sent, faults, cred>>)

\* release: close, forget the state and the session.
CbRelease ==
    /\ host.pc = "release"
    /\ link' = FALSE /\ LineCleared
    /\ thp' = NoState
    /\ ReleaseSession
    /\ Returns("ok")
    /\ UNCHANGED <<kind, dev, sent, cred, ops, faults>>

CallbackStep ==
    /\ kind \in CbKinds
    /\ \/ CbOpen \/ CbGranted \/ CbProbe \/ CbDetected \/ CbFailed \/ CbBegin \/ CbAllocated
       \/ CbInitAnswered \/ CbCompleted \/ CbEnded \/ CbPairingRequested
       \/ CbMethodSelected \/ CbCpaceReceived \/ CbCodeEntered \/ CbSecretReceived
       \/ CbCredentialIssued \/ CbPairingEnded \/ CbCall \/ CbCalled \/ CbCalledV1
       \/ CbCreateSession \/ CbSessionAnswered \/ CbRelease
=============================================================================
