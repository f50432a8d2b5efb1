------------------------------ MODULE ThpDevice ------------------------------
(***************************************************************************)
(* The Trezor and the line to it, as the transports see them (external:     *)
(* the firmware is not part of the repository).  The device answers the     *)
(* requests in the order they arrive; it may ask for a button press before  *)
(* it answers; it decrypts only what was encrypted on its latest channel    *)
(* under the nonce it expects.                                              *)
(***************************************************************************)
EXTENDS ThpChannel

\* A device at power on: locked or not, speaking THP or only protocol v1.
DeviceInit ==
    dev \in [v1 : BOOLEAN, locked : BOOLEAN, chan : {0}, keyed : {FALSE},
             rx : {0}, tx : {1}, asked : {"none"}, committed : {FALSE},
             ended : {FALSE}]

\* The device takes the next request of type ty and puts f on the line.
Replies(ty, f) ==
    /\ up # <<>>
    /\ Head(up).ty = ty
    /\ up' = Tail(up)
    /\ wire' = Append(wire, f)
    /\ UNCHANGED <<sent, thp, host, cred, still>>

Request == Head(up)
ErrorFrame(e) == Frame("error", Request.chan, 0, e, Request.id)
OnLatest == Request.chan = dev.chan

\* Protocol v1: a THP device answers Failure_InvalidProtocol to everything.
AnswersV1 ==
    /\ Replies("v1", Frame("v1", 0, 0, IF dev.v1 THEN "success" ELSE "invalidProtocol",
                           Request.id))
    /\ UNCHANGED <<dev, faults>>

Allocates ==
    /\ ~dev.v1
    /\ dev' = [dev EXCEPT !.chan = @ + 1, !.keyed = FALSE, !.rx = 0, !.tx = 1,
                          !.asked = "none", !.committed = FALSE, !.ended = FALSE]
    /\ Replies("alloc", Frame("allocRes", 0, 0, "none", dev.chan + 1))
    /\ UNCHANGED faults

\* Another host holds the device.
IsBusy ==
    /\ ~dev.v1
    /\ \/ Replies("alloc", ErrorFrame("busy"))
       \/ Replies("init", ErrorFrame("busy"))
    /\ Fault("busy")
    /\ UNCHANGED dev

AnswersInit ==
    /\ ~dev.v1
    /\ \/ /\ Replies("init", Frame("initRes", Request.chan, 0, "none", 0))
          /\ OnLatest
          /\ ~dev.locked \/ Request.body = "unlock"     \* the PIN is entered
          /\ dev' = [dev EXCEPT !.locked = FALSE]
       \/ /\ Replies("init", ErrorFrame(IF OnLatest THEN "locked" ELSE "unallocated"))
          /\ dev.locked \/ ~OnLatest
          /\ UNCHANGED dev
    /\ UNCHANGED faults

\* The completion response carries state 0 (pair first) or 1 (credential known).
AnswersCompletion ==
    /\ ~dev.v1
    /\ \/ /\ Replies("comp", Frame("compRes", Request.chan, 0,
                                   IF Request.body = "valid" THEN "known" ELSE "unknown", 0))
          /\ OnLatest /\ Request.nonce = 1
          /\ dev' = [dev EXCEPT !.keyed = TRUE]
       \/ /\ Replies("comp", ErrorFrame(IF OnLatest THEN "decryptionFailed" ELSE "unallocated"))
          /\ Request.nonce # 1 \/ ~OnLatest
          /\ UNCHANGED dev
    /\ UNCHANGED faults

\* What the device says to a message of the pairing dialogue or of a session.
Final(m) ==
    CASE m = "pairingRequest"    -> {"approved"}
      [] m = "selectMethod"      -> {"preparations", "commitment"}
      [] m = "challenge"         -> {IF dev.committed THEN "cpace" ELSE "commitment"}
      [] m = "tag"               -> {"secret"}
      [] m = "badTag"            -> {"failure"}
      [] m = "credentialRequest" -> {"credential", "malformed"}
      [] m = "endRequest"        -> {"endResponse"}
      [] m = "createSession"     -> {"success", "failure"}
      [] m = "call"              -> {"answer"}
      [] OTHER                   -> {"failure"}

\* A connection with a known credential may be confirmed on the device, the end
\* of a pairing is not.
Prompting == {"pairingRequest", "credentialRequest", "createSession"}
                 \cup (IF dev.committed THEN {} ELSE {"endRequest"})

Readable == dev.keyed /\ OnLatest /\ Request.nonce = dev.rx

\* The message the device is answering, across a button press.
Asked == IF Request.body = "buttonAck" THEN dev.asked ELSE Request.body

Says(b) ==
    /\ Replies("enc", Frame("enc", dev.chan, dev.tx, b, Request.id))
    /\ Readable
    /\ dev' = [dev EXCEPT !.rx = @ + 1, !.tx = @ + 1,
                          !.asked = IF b = "button" THEN Request.body ELSE "none",
                          !.committed = @ \/ b = "commitment",
                          !.ended = @ \/ b = "endResponse"]

AnswersMessage ==
    /\ ~dev.v1
    /\ up # <<>> /\ Request.ty = "enc"
    /\ \/ \E b \in Final(Asked) : Says(b) /\ UNCHANGED faults
       \/ Request.body \in Prompting /\ Says("button") /\ UNCHANGED faults
       \/ Fault("failure") /\ \E b \in {"failure", "badSecret"} : Says(b)
       \/ /\ Replies("enc", ErrorFrame(IF OnLatest THEN "decryptionFailed" ELSE "unallocated"))
          /\ ~Readable
          /\ UNCHANGED <<dev, faults>>

\* What was not encrypted at all.
RejectsPlain ==
    /\ ~dev.v1
    /\ Replies("plain", ErrorFrame("decryptionFailed"))
    /\ UNCHANGED <<dev, faults>>

\* The line drops a request, or garbles the frame the host will read next.
Drops ==
    /\ up # <<>>
    /\ Fault("lost")
    /\ up' = Tail(up)
    /\ UNCHANGED <<wire, dev, sent, thp, host, cred, still>>

Garbles ==
    /\ wire # <<>>
    /\ Head(wire).ty # "garbled"
    /\ Fault("garbled")
    /\ wire' = [wire EXCEPT ![1].ty = "garbled"]
    /\ UNCHANGED <<up, dev, sent, thp, host, cred, still>>

DeviceStep ==
    \/ AnswersV1 \/ Allocates \/ IsBusy \/ AnswersInit
    \/ AnswersCompletion \/ AnswersMessage \/ RejectsPlain

LineFault == Drops \/ Garbles
=============================================================================
