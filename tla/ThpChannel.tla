----------------------------- MODULE ThpChannel -----------------------------
(***************************************************************************)
(* The Trezor Host Protocol channel between the host library               *)
(* (src/rust/trezor-connect-rs) and a device: the host's ThpState, the      *)
(* frames on the line, the SessionManager and the device as the host sees   *)
(* it.  The three transports (callback, Bluetooth, USB) are modules of      *)
(* their own that extend this one; only one operation runs at a time, as    *)
(* the callers hold the session map for the whole of an operation.          *)
(*                                                                          *)
(* A channel is named by the number of its allocation, which also stands    *)
(* for the keys of its handshake: both are fresh for every allocation.      *)
(* An ACK frame only makes the read loop go round again and is left out;    *)
(* the sync bits alternate in step with the nonces and are left out too.    *)
(***************************************************************************)
EXTENDS Integers, Sequences, FiniteSets

CONSTANTS
    Kinds,        \* the transports a run looks at
    Stored,       \* the credentials that may be on file for the device
    FaultKinds,   \* what the line, the device and the user may do wrong
    MaxFaults,    \* how often
    MaxOps        \* operations the application asks for

AllKinds == {"callbackBle", "callbackUsb", "bluetooth", "usb"}
Creds == {"none", "valid", "revoked", "foreign", "malformed"}

ASSUME ThpAssumption == /\ Kinds \subseteq AllKinds
                        /\ Stored \subseteq Creds
                        /\ {MaxFaults, MaxOps} \subseteq Nat

VARIABLES
    kind,     \* the transport
    dev,      \* the device
    link,     \* the device is open
    up,       \* requests on the way to the device
    wire,     \* frames on the way to the host
    sent,     \* what was encrypted: <<keys, nonce, plaintext, call, written whole>>
    thp,      \* the host's state for the device's path
    host,     \* where the running operation stands
    cred,     \* the stored pairing credential
    session,  \* SessionManager: the session of the path, and the counter
    ops,      \* operations started
    faults    \* faults so far

chan == <<up, sent, thp, faults, cred>>
still == <<kind, link, session, ops>>
world == <<dev, still>>
vars == <<kind, dev, link, up, wire, sent, thp, host, cred, session, ops, faults>>
-----------------------------------------------------------------------------
(* The host's state. *)

\* ThpState::new, with the handshake_complete flag the transports keep next to it.
\* keys names the channel whose handshake the host_key comes from, 0 for none.
NewState == [there |-> TRUE, chan |-> 0, keys |-> 0, send |-> 0, recv |-> 1,
             paired |-> FALSE, sid |-> 0, creds |-> "none", complete |-> FALSE]

\* No entry for the path in the transport's map.
NoState == [NewState EXCEPT !.there = FALSE]

\* ThpState::reset: everything but the pairing credentials.
Reset(t) == [NewState EXCEPT !.there = t.there, !.creds = t.creds]

\* set_channel: a new channel, until its handshake with the former keys.
OnChannel(t, c) == [t EXCEPT !.chan = c]

\* create_new_session_id: 0 is the session of the handshake and is skipped.
NextSessionId(t) == [t EXCEPT !.sid = IF @ = 255 THEN 1 ELSE @ + 1]

Frame(ty, c, nonce, body, id) ==
    [ty |-> ty, chan |-> c, nonce |-> nonce, body |-> body, id |-> id]

\* encode_channel_allocation_request
AllocRequest == Frame("alloc", 0, 0, "none", 0)

\* encode_handshake_init_request
InitRequest(c, unlock) ==
    Frame("init", c, 0, IF unlock THEN "unlock" ELSE "none", 0)

\* encode_handshake_completion_request: the credential rides encrypted under
\* the nonce handle_handshake_init took from the state.
CompletionRequest(t, c) == Frame("comp", t.chan, t.recv, c, 0)

\* encode_encrypted_message
Encrypted(t, body, id) == Frame("enc", t.chan, t.send, body, id)

\* verify_stored_credential: the credential is for another device.
Verified(c) == IF c \in {"valid", "revoked"} THEN c ELSE "none"

\* handle_handshake_init decrypts under the send nonce, which is 0 in a state
\* nothing was sent from.
InitDecrypts(t) == t.send = 0

\* set_handshake_credentials: without keys before the answer is decrypted, with
\* the keys of the channel's handshake after.
Unkeyed(t) == [t EXCEPT !.keys = 0]
Keyed(t) == [t EXCEPT !.keys = t.chan]

-----------------------------------------------------------------------------
(* The outcome of a step of the host.                                      *)

Idle == host.pc = "idle"

\* An operation returns.
Returns(res) == host' = [host EXCEPT !.pc = "idle", !.res = res]

\* A function of the handshake returns an error to the retry loop; a call or
\* a create_session returns it to the application.
Failed(e) == IF host.op = "acquire"
               THEN host' = [host EXCEPT !.pc = "failed", !.err = e]
               ELSE Returns(e)

Fail(e) == Failed(e) /\ UNCHANGED chan

Fault(k) == k \in FaultKinds /\ faults < MaxFaults /\ faults' = faults + 1

\* A request without encryption; what was encrypted under the keys before those of
\* a completed handshake is forgotten.
Transmit(q) == up' = Append(up, q) /\ sent' = IF q.ty = "comp" THEN {} ELSE sent

\* write_raw reports an error at one of the chunks: the device, if it got the first
\* ones, throws the message away when the next begins.
WriteFails == Fault("refused") /\ Failed("transfer") /\ UNCHANGED up

\* A plain request of the handshake is written and the state becomes t.
SendPlain(q, t, next) ==
    /\ thp' = t
    /\ \/ Transmit(q) /\ host' = next /\ UNCHANGED <<faults, cred>>
       \/ WriteFails /\ UNCHANGED <<sent, cred>>

\* encode_encrypted_message, under the send nonce as it stands; whole tells whether
\* all chunks of the result are then written.
Encrypts(t, body, id, whole) == sent' = sent \cup {<<t.keys, t.send, body, id, whole>>}

\* Mutant: the send nonce stays where it is.
SendEncryptedKeepsNonce(t, body, id, next) ==
    /\ Encrypts(t, body, id, TRUE) /\ up' = Append(up, Encrypted(t, body, id))
    /\ thp' = t /\ host' = next /\ UNCHANGED faults

\* The body of send_encrypted_message up to its read: encrypt, unless there is no
\* key, write, and only then update_nonce: a message that could not be written
\* leaves its nonce to the next.  Its refusal after 2^32 messages on one channel
\* is left out.
SendEncrypted(t, body, id, next) ==
    IF t.keys = 0
      THEN Failed("noKeys") /\ thp' = t /\ UNCHANGED <<up, sent, faults>>
      ELSE \/ /\ Encrypts(t, body, id, TRUE)
              /\ up' = Append(up, Encrypted(t, body, id))
              /\ thp' = [t EXCEPT !.send = @ + 1]
              /\ host' = next
              /\ UNCHANGED faults
           \/ Encrypts(t, body, id, FALSE) /\ WriteFails /\ thp' = t

\* The host goes on to wait for the answer named p.
Await(p) == [host EXCEPT !.pc = p]

\* The next frame is taken off the line.
Receives(OnFrame(_)) ==
    /\ wire # <<>>
    /\ wire' = Tail(wire)
    /\ OnFrame(Head(wire))
    /\ UNCHANGED world

\* Mutant: the read waits until a frame comes.
TimesOutNever == wire = <<>> /\ UNCHANGED <<wire, host, chan, world>>

\* The read gives up: the answer is lost for good, or it will come later.
TimesOut ==
    /\ wire = <<>>
    /\ \/ up = <<>> /\ UNCHANGED faults
       \/ up # <<>> /\ Fault(IF host.op = "acquire" THEN "slow" ELSE "late")
    /\ Failed("transfer")
    /\ UNCHANGED <<wire, up, sent, thp, cred, world>>

\* The ACK of an answer cannot be written: the answer is read and lost.
AckFails ==
    /\ Fault("refused")
    /\ Failed("transfer")
    /\ UNCHANGED <<up, sent, thp, cred>>

\* aes_gcm_decrypt under the receive nonce.
Decrypts(f) == f.ty = "enc" /\ f.nonce = thp.recv

\* update_nonce(false) after a decrypted answer.
Received == [thp EXCEPT !.recv = @ + 1]
-----------------------------------------------------------------------------
(* SessionManager, and the operations the application asks for.            *)

\* SessionManager::acquire: a path that has a session is only handed over to
\* a caller that names it.
MayAcquire(prev) == session.cur = 0 \/ prev = session.cur

\* Mutant: the counter is read but not advanced.
GrantsUncounted(saved) ==
    /\ host.pc = "grant"
    /\ session' = [session EXCEPT !.cur = session.counter + 1]
    /\ cred' = saved /\ Returns("ok")
    /\ UNCHANGED <<kind, dev, link, up, wire, sent, thp, ops, faults>>

\* The last step of acquire; saved is the credential the caller files then.
Grants(saved) ==
    /\ host.pc = "grant"
    /\ LET n == session.counter + 1 IN
       IF MayAcquire(host.prev)
         THEN session' = [cur |-> n, counter |-> n] /\ cred' = saved /\ Returns("ok")
         ELSE UNCHANGED <<session, cred>> /\ Returns("acquired")
    /\ UNCHANGED <<kind, dev, link, up, wire, sent, thp, ops, faults>>

\* SessionManager::release
ReleaseSession == session' = [session EXCEPT !.cur = 0]

IdleHost == [op |-> "none", pc |-> "idle", attempt |-> 1, skip |-> FALSE,
             unlock |-> FALSE, loaded |-> "none", err |-> "none", res |-> "none",
             prev |-> 0, id |-> 0, got |-> 0]

\* The application asks for an operation, which starts at p.
Begins(op, p, prev) ==
    /\ Idle
    /\ ops < MaxOps
    /\ ops' = ops + 1
    /\ host' = [IdleHost EXCEPT !.op = op, !.pc = p, !.prev = prev, !.id = ops + 1]
    /\ UNCHANGED <<kind, dev, link, up, wire, sent, thp, cred, session, faults>>

\* Trezor::connect names no previous session; a caller of the callback
\* transport may.
Asks ==
    \/ \E prev \in {0, IF kind \in {"bluetooth", "usb"} THEN 0 ELSE session.cur} :
         Begins("acquire", "open", prev)
    \/ session.cur # 0 /\ \E op \in {"call", "session", "release"} : Begins(op, op, 0)

\* Frames in flight are gone once the device is closed.
LineCleared == up' = <<>> /\ wire' = <<>>
=============================================================================
