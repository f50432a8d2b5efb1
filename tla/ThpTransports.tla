---------------------------- MODULE ThpTransports ----------------------------
(***************************************************************************)
(* The three transports of trezor-connect-rs against the same device and     *)
(* line.  A behaviour uses one of them throughout.                           *)
(***************************************************************************)
EXTENDS CallbackTransport, BluetoothTransport, UsbTransport

\* The application starts with a device that was never opened and whatever
\* credential an earlier run left behind; only USB devices speak protocol v1.
Init ==
    /\ kind \in Kinds
    /\ DeviceInit
    /\ dev.v1 => kind \in {"callbackUsb", "usb"}
    /\ link = FALSE /\ up = <<>> /\ wire = <<>> /\ sent = {}
    /\ thp = NoState
    /\ host = IdleHost
    /\ cred \in Stored
    /\ session = [cur |-> 0, counter |-> 0]
    /\ ops = 0 /\ faults = 0

HostStep == CallbackStep \/ BluetoothStep \/ UsbStep

Next == Asks \/ HostStep \/ DeviceStep \/ LineFault

\* An operation runs to its end once it is called, every read of it is bounded
\* in time, and the device answers what it receives.  Nothing makes the
\* application ask or the line fail.
Spec == Init /\ [][Next]_vars /\ WF_vars(HostStep) /\ WF_vars(DeviceStep)
-----------------------------------------------------------------------------
HostErrors == {"none", "transfer", "crc", "aead", "unexpected", "pairing",
               "cancelled", "badCode", "rejected", "notPaired", "sessionError",
               "busy", "locked", "unallocated", "decryptionFailed", "noKeys"}

\* Every variable has the shape the transports give it, and the host is on no
\* channel and holds no keys of a channel that the device has not allocated.
TypeOK ==
    /\ kind \in Kinds /\ link \in BOOLEAN /\ cred \in Creds
    /\ thp \in [there : BOOLEAN, chan : 0..dev.chan, keys : 0..dev.chan, send : Nat, recv : Nat \ {0},
                paired : BOOLEAN, sid : 0..255, creds : Creds, complete : BOOLEAN]
    /\ host.op \in {"none", "acquire", "call", "session", "release"}
    /\ host.err \in HostErrors /\ host.attempt \in 1..UsbMaxRetries
    /\ host.loaded \in Creds \ {"malformed"}
    /\ session.cur \in 0..session.counter
    /\ ops \in 0..MaxOps /\ faults \in 0..MaxFaults

\* update_nonce and the two halves of send_encrypted_message: of the messages that
\* were written to the end no two different ones are under one key and one nonce,
\* whatever fails, is retried or is called again.
NonceFresh == \A a, b \in sent : a[5] /\ b[5] /\ a[1] = b[1] /\ a[2] = b[2] => a = b

\* ThpState: "Host nonce (incremented for each encrypted message)": the same of
\* everything that is encrypted, a message whose write failed half way included.
NonceNeverReused ==
    \A a, b \in sent : a[1] = b[1] /\ a[2] = b[2] => a[3] = b[3] /\ a[4] = b[4]

\* handshake_complete is set on the strength of an answer of the device: it has
\* ended the pairing of exactly the channel the state is on.
CompleteMeansConfirmed == thp.complete => dev.ended /\ dev.chan = thp.chan /\ thp.paired

\* "Ensures only one call() is in-flight per device at a time": a call returns the
\* answer to the message it sent, on a complete channel and with protocol v1.
AnswerMatchesCall ==
    host.op = "call" /\ host.res = "ok" /\ (thp.complete \/ dev.v1) => host.got = host.id

\* A session over Bluetooth stands for a channel the device has confirmed: no
\* failed, interrupted or retried handshake leaves one behind.
SessionHasChannel ==
    kind = "callbackBle" /\ session.cur # 0 => thp.complete

\* perform_thp_handshake retries before it clears stored credentials: one failure
\* on the way, at whichever message, never costs the user a credential that the
\* device would accept. (Two can: see the README.)
ValidCredentialKept == [][cred = "valid" => cred' = "valid"]_vars

\* acquire ends, with a session or with an error, whatever is lost on the way.
AcquireEnds == host.op = "acquire" ~> Idle
=============================================================================
