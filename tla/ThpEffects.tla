------------------------------ MODULE ThpEffects ------------------------------
(***************************************************************************)
(* What a step of the host does, whichever transport takes it.  The three   *)
(* transports differ in how they read, retry and give up; as far as the      *)
(* safety of the channel goes, every step of each of them is one of the      *)
(* effects below.  The invariants of ThpProofs are shown of the effects.     *)
(***************************************************************************)
EXTENDS ThpTransports, SequenceTheorems, TLAPS

(* Types. *)

Pcs == {"idle", "open", "probe", "detect", "begin", "alloc", "init", "comp", "end",
        "endButton", "pair", "pairButton", "select", "commit", "cpace", "code", "secret",
        "credential", "credentialButton", "pairEnd", "created", "grant", "failed", "call",
        "answer", "v1answer", "plainAnswer", "session", "release"}

\* The dialogue of a handshake, from the completion request to its end.
Dialogue == {"comp", "end", "endButton", "pair", "pairButton", "select", "commit", "cpace",
             "code", "secret", "credential", "credentialButton", "pairEnd"}

\* The running operation waits for no answer over a channel.
Rest == {"idle", "open", "probe", "detect", "grant"}

Results == HostErrors \cup {"ok", "open", "notFound", "acquired", "close"}

FrameTypes == {"v1", "alloc", "allocRes", "init", "initRes", "comp", "compRes", "enc",
               "plain", "error", "garbled"}

Bodies == HostErrors \cup Creds \cup
          {"cancel", "success", "invalidProtocol", "unlock", "known", "unknown", "call",
           "answer", "pairingRequest", "approved", "selectMethod", "preparations",
           "commitment", "challenge", "cpace", "tag", "badTag", "secret", "badSecret",
           "failure", "credentialRequest", "credential", "endRequest", "endResponse",
           "createSession", "button", "buttonAck"}

ThpType == [there : BOOLEAN, chan : Nat, keys : Nat, send : Nat, recv : Nat \ {0},
            paired : BOOLEAN, sid : 0..255, creds : Creds, complete : BOOLEAN]

HostType == [op : {"none", "acquire", "call", "session", "release"}, pc : Pcs,
             attempt : 1..UsbMaxRetries, skip : BOOLEAN, unlock : BOOLEAN,
             loaded : Creds \ {"malformed"}, err : HostErrors, res : Results,
             prev : Nat, id : Nat, got : Nat]

FrameType == [ty : FrameTypes, chan : Nat, nonce : Nat, body : Bodies, id : Nat]

DevType == [v1 : BOOLEAN, locked : BOOLEAN, chan : Nat, keyed : BOOLEAN, rx : Nat, tx : Nat,
            asked : Bodies, committed : BOOLEAN, ended : BOOLEAN]

SessionType == {s \in [cur : Nat, counter : Nat] : s.cur <= s.counter}

\* An ERROR frame carries one of the errors the transports know.
ErrorsNamed ==
    \A i \in 1..Len(wire) : wire[i].ty = "error" => wire[i].body \in HostErrors \ {"none"}

Typed ==
    /\ kind \in AllKinds /\ link \in BOOLEAN /\ cred \in Creds
    /\ thp \in ThpType
    /\ host \in HostType
    /\ dev \in DevType
    /\ up \in Seq(FrameType)
    /\ wire \in Seq(FrameType) /\ ErrorsNamed
    /\ session \in SessionType
    /\ ops \in 0..MaxOps /\ faults \in 0..MaxFaults
-----------------------------------------------------------------------------
(* The effects. *)

Counted == faults' = faults \/ (faults < MaxFaults /\ faults' = faults + 1)

\* What holds of every step of the host.
Base ==
    /\ UNCHANGED <<kind, dev, ops>>
    /\ host' \in HostType /\ host'.op = host.op /\ host'.id = host.id
    /\ thp' \in ThpType /\ cred' \in Creds /\ link' \in BOOLEAN
    /\ session' \in SessionType /\ Counted

Hears == wire # <<>> /\ wire' = Tail(wire)
Puts(q) == q \in FrameType /\ up' = Append(up, q)

\* The channel, its keys, the send nonce and the flag stay; a pairing is not undone.
Same(t) ==
    /\ t.there = thp.there /\ t.chan = thp.chan /\ t.keys = thp.keys /\ t.send = thp.send
    /\ t.complete = thp.complete /\ (thp.paired => t.paired)

\* A state without a channel and without keys.
Blank(t) == t.chan = 0 /\ t.keys = 0 /\ ~t.complete /\ ~t.paired

\* The operation, or the attempt of a handshake, is over.
Stopped ==
    /\ host'.pc \in {"failed", "idle"}
    /\ host'.pc = "failed" => host.op = "acquire"
    /\ host'.res = "ok" => host.res = "ok" \/ host.pc \in {"session", "created"}

\* A message was encrypted under the send nonce and not written whole.
Wasted ==
    /\ thp.keys # 0
    /\ \E b \in Bodies, i \in Nat : sent' = sent \cup {<<thp.keys, thp.send, b, i, FALSE>>}

\* ... after a frame, after a write that failed, or with nothing on the line that
\* could still come, unless the operation is an acquire or answers may be late.
Stops ==
    /\ host.pc \notin Rest
    /\ Stopped
    /\ Same(thp') \/ (host.pc = "init" /\ thp' = Unkeyed(thp))
    /\ UNCHANGED <<up, session>>
    /\ sent' = sent \/ (host.pc # "init" /\ Wasted)
    /\ \/ Hears
       \/ wire' = wire /\ host.pc \in {"begin", "code", "call", "session"}
       \/ /\ wire' = wire /\ wire = <<>>
          /\ up = <<>> \/ host.op = "acquire" \/ "late" \in FaultKinds

\* A frame is passed over.
Skips == Hears /\ UNCHANGED <<host, thp, up, sent, session>>

\* A device is opened; only Bluetooth puts a fresh state in the map.
Opens ==
    /\ host.pc = "open"
    /\ UNCHANGED <<sent, session>>
    /\ UNCHANGED <<up, wire>> \/ LineCleared
    /\ \/ thp' = thp /\ host'.pc = "idle" /\ host'.res # "ok"
       \/ /\ thp' = thp /\ host'.res = host.res
          /\ host'.pc \in IF thp.complete THEN {"grant"}
                          ELSE IF kind = "callbackBle" THEN {"begin"} ELSE {"probe"}
       \/ /\ kind = "bluetooth" /\ LineCleared /\ Blank(thp') /\ host'.res = host.res
          /\ host'.pc = "begin"

Probes ==
    /\ host.pc = "probe"
    /\ UNCHANGED <<thp, wire, sent, session>>
    /\ host'.res = host.res
    /\ \/ host'.pc = "detect" /\ Puts(Frame("v1", 0, 0, "cancel", 0))
       \/ host'.pc = "grant" /\ up' = up

Detects ==
    /\ host.pc = "detect"
    /\ UNCHANGED <<thp, up, sent, session>>
    /\ host'.res = host.res
    /\ \/ /\ Hears /\ host'.pc \in {"begin", "grant", "detect"}
          /\ host'.pc = "begin" => \/ Head(wire).ty = "v1" /\ Head(wire).body = "invalidProtocol"
                                   \/ Head(wire).ty \in {"allocRes", "error", "initRes"}
       \/ wire = <<>> /\ wire' = wire /\ host'.pc = "grant" /\ (up = <<>> \/ "late" \in FaultKinds)

AsksChannel ==
    /\ host.pc = "begin"
    /\ UNCHANGED <<thp, wire, sent, session>>
    /\ host'.pc = "alloc" /\ host'.res = host.res
    /\ Puts(AllocRequest)

\* A channel is taken from the response, with the state that is there or a new one.
TakesChannel ==
    /\ host.pc = "alloc" /\ Hears /\ Head(wire).ty = "allocRes"
    /\ UNCHANGED <<sent, session>>
    /\ thp'.chan = Head(wire).id
    /\ (thp'.keys = thp.keys /\ thp'.send = thp.send) \/ thp'.keys = 0
    /\ (thp'.complete => thp.complete)
    /\ kind = "bluetooth" \/ thp'.there
    /\ \/ host'.pc = "init" /\ host'.res = host.res /\ \E u \in BOOLEAN : Puts(InitRequest(thp'.chan, u))
       \/ Stopped /\ up' = up

\* The handshake gives the channel its keys.
TakesKeys ==
    /\ host.pc = "init" /\ Hears /\ Head(wire).ty = "initRes"
    /\ thp.chan = 0 \/ Head(wire).chan = thp.chan
    /\ thp.send = 0 /\ thp' = Keyed(thp)
    /\ UNCHANGED session
    /\ \/ /\ host'.pc = "comp" /\ host'.res = host.res /\ sent' = {}
          /\ \E c \in Creds : Puts(CompletionRequest(thp, c))
       \/ Stopped /\ UNCHANGED <<up, sent>>

\* An answer that decrypts.
Answer(b) ==
    /\ Hears /\ Head(wire).ty = "enc" /\ Head(wire).body = b
    /\ thp.chan = 0 \/ Head(wire).chan = thp.chan

\* An encrypted message is written.
Speaks ==
    /\ UNCHANGED session
    /\ thp.keys # 0 /\ thp'.keys = thp.keys /\ thp'.send = thp.send + 1
    /\ thp'.chan = thp.chan /\ thp'.there = thp.there /\ thp'.complete = thp.complete
    /\ thp.paired => thp'.paired
    /\ host'.res = host.res
    /\ \E b \in Bodies : LET i == IF host.pc = "call" THEN host.id ELSE 0 IN
         /\ sent' = sent \cup {<<thp.keys, thp.send, b, i, TRUE>>}
         /\ Puts(Frame("enc", thp.chan, thp.send, b, i))
    /\ Hears \/ (wire' = wire /\ host.pc \in {"code", "call", "session"})
    /\ \/ host.pc \in Dialogue /\ host'.pc \in Dialogue \ {"comp", "code"}
       \/ /\ host.pc \in Dialogue /\ host'.pc = "created" /\ kind \notin CbKinds
          /\ Answer("endResponse") /\ thp'.paired
       \/ host.pc = "created" /\ host'.pc = "created"
       \/ host.pc = "session" /\ host'.pc = "created" /\ kind \in CbKinds
       \/ host.pc = "call" /\ host'.pc = "answer"

\* The code of a pairing is asked for.
AsksCode ==
    /\ host.pc = "cpace" /\ host'.pc = "code" /\ Hears
    /\ Same(thp') /\ host'.res = host.res
    /\ UNCHANGED <<up, sent, session>>

\* The channel is complete: after the end of the dialogue with the callback
\* transport, after the creation of its session with the others.
Completes ==
    /\ host'.pc = "grant" /\ host'.res = host.res
    /\ thp'.there = thp.there /\ thp'.chan = thp.chan /\ thp'.keys = thp.keys
    /\ thp'.send = thp.send /\ thp'.complete /\ (thp.paired => thp'.paired)
    /\ UNCHANGED <<up, sent, session>>
    /\ \/ host.pc \in Dialogue /\ kind \in CbKinds /\ Answer("endResponse") /\ thp'.paired
       \/ host.pc = "created" /\ kind \notin CbKinds /\ Hears

\* The last step of acquire, with the session or without.
GrantsSession ==
    /\ host.pc = "grant" /\ host'.pc = "idle"
    /\ UNCHANGED <<thp, up, wire, sent>>

\* perform_thp_handshake after a failed attempt.
Recovers ==
    /\ host.pc = "failed" /\ host'.pc \in {"begin", "idle"}
    /\ thp' = thp \/ Blank(thp')
    /\ UNCHANGED <<up, wire>> \/ LineCleared
    /\ UNCHANGED <<sent, session>>

\* A call in the clear.
CallsPlain ==
    /\ host.pc = "call" /\ host'.res = host.res
    /\ UNCHANGED <<thp, wire, sent, session>>
    /\ \/ /\ host'.pc = "v1answer" /\ Puts(Frame("v1", 0, 0, "call", host.id))
          /\ \/ kind = "callbackUsb" /\ ~thp.there
             \/ kind = "usb" /\ ~thp.complete
       \/ /\ host'.pc = "plainAnswer" /\ Puts(Frame("plain", thp.chan, 0, "call", host.id))
          /\ kind = "bluetooth" /\ ~thp.paired

\* The answer is handed to the caller.
Returned ==
    /\ host.pc \in {"answer", "v1answer", "plainAnswer"} /\ host'.pc = "idle"
    /\ host'.got = Head(wire).id /\ Hears
    /\ host.pc = "answer" => Head(wire).ty = "enc"
    /\ host.pc = "v1answer" => Head(wire).ty = "v1"
    /\ host.pc = "plainAnswer" => kind = "bluetooth"
    /\ Same(thp')
    /\ UNCHANGED <<up, sent, session>>

Closes ==
    /\ host.pc = "release" /\ host'.pc = "idle"
    /\ LineCleared /\ Blank(thp') /\ sent' = sent
    /\ session'.cur = 0 \/ kind = "bluetooth"

HostEffect ==
    /\ Base
    /\ \/ Stops \/ Skips \/ Opens \/ Probes \/ Detects \/ AsksChannel \/ TakesChannel
       \/ TakesKeys \/ Speaks \/ AsksCode \/ Completes \/ GrantsSession \/ Recovers
       \/ CallsPlain \/ Returned \/ Closes
-----------------------------------------------------------------------------
(* What the pieces the transports are built from do. *)

\* The errors the transports return are errors a host can stop with.
LEMMA ErrorsKnown ==
    /\ {"transfer", "crc", "aead", "unexpected", "pairing", "cancelled", "badCode", "rejected",
        "notPaired", "sessionError", "busy", "locked", "unallocated", "decryptionFailed",
        "noKeys", "none"} \subseteq HostErrors
    /\ HostErrors \subseteq Results /\ "ok" \notin HostErrors
    /\ HostErrors \subseteq Bodies /\ Creds \subseteq Bodies
  BY DEF HostErrors, Results, Bodies

\* The world, spelled out.
LEMMA WorldKept ==
  ASSUME Typed, UNCHANGED world
  PROVE  /\ UNCHANGED <<kind, dev, ops, link, session>>
         /\ link' \in BOOLEAN /\ session' \in SessionType
  BY DEF Typed, world, still

\* An operation returns a result.
LEMMA ReturnsEffect ==
  ASSUME Typed, NEW r \in Results, Returns(r)
  PROVE  /\ host' \in HostType /\ host'.op = host.op /\ host'.id = host.id
         /\ host'.pc = "idle" /\ host'.res = r
<1>1. "idle" \in Pcs
  BY DEF Pcs
<1> QED
  BY <1>1 DEF Typed, HostType, Returns

\* The error of a read or a write ends the operation or the attempt.
LEMMA FailedEffect ==
  ASSUME Typed, NEW e \in HostErrors, Failed(e)
  PROVE  /\ host' \in HostType /\ host'.op = host.op /\ host'.id = host.id
         /\ Stopped
<1>1. e \in Results /\ e # "ok" /\ "failed" \in Pcs
  BY ErrorsKnown DEF Pcs
<1>2. CASE host.op = "acquire"
  <2>1. host' = [host EXCEPT !.pc = "failed", !.err = e] /\ host \in HostType
    BY <1>2 DEF Failed, Typed
  <2>2. host' \in HostType /\ host'.op = host.op /\ host'.id = host.id
        /\ host'.pc = "failed" /\ host'.res = host.res
    BY <1>1, <2>1 DEF HostType
  <2>3. host'.res = "ok" => host.res = "ok"
    BY <2>2
  <2> QED BY <1>2, <2>2, <2>3 DEF Stopped
<1>3. CASE host.op # "acquire"
  <2>1. Returns(e)
    BY <1>3 DEF Failed
  <2> QED
    BY <1>1, <2>1, ReturnsEffect DEF Stopped
<1> QED BY <1>2, <1>3

\* The host goes on to another place.
LEMMA AwaitEffect ==
  ASSUME Typed, NEW p \in Pcs, host' = Await(p)
  PROVE  /\ host' \in HostType /\ host'.op = host.op /\ host'.id = host.id
         /\ host'.pc = p /\ host'.res = host.res
  BY DEF Typed, HostType, Await

\* A frame made of typed parts is a frame, and its parts are what it was made of.
LEMMA FrameParts ==
  ASSUME NEW ty \in FrameTypes, NEW c \in Nat, NEW n \in Nat, NEW b \in Bodies, NEW i \in Nat
  PROVE  /\ Frame(ty, c, n, b, i) \in FrameType
         /\ Frame(ty, c, n, b, i).ty = ty /\ Frame(ty, c, n, b, i).chan = c
         /\ Frame(ty, c, n, b, i).nonce = n /\ Frame(ty, c, n, b, i).body = b
         /\ Frame(ty, c, n, b, i).id = i
  BY DEF Frame, FrameType

\* The first frame on the line.
LEMMA HeadTyped ==
  ASSUME Typed, wire # <<>>
  PROVE  /\ Head(wire) \in FrameType /\ Head(wire) = wire[1] /\ 1 \in 1..Len(wire)
         /\ Head(wire).ty = "error" => Head(wire).body \in HostErrors \ {"none"}
  BY DEF Typed, ErrorsNamed

\* update_nonce after an answer touches nothing but the receive nonce.
LEMMA ReceivedSame == ASSUME Typed PROVE Received \in ThpType /\ Same(Received)
<1>1. thp \in ThpType
  BY DEF Typed
<1>2. thp.recv \in Nat /\ thp.recv + 1 \in Nat \ {0}
  BY <1>1 DEF ThpType
<1>3. Received \in ThpType
  BY <1>1, <1>2 DEF ThpType, Received
<1>4. Same(Received)
  BY <1>1 DEF ThpType, Received, Same
<1> QED BY <1>3, <1>4

\* send_encrypted_message up to its read.
LEMMA SendEffect ==
  ASSUME Typed, NEW t \in ThpType, Same(t), NEW body \in Bodies, NEW id \in Nat, NEW next,
         SendEncrypted(t, body, id, next)
  PROVE  /\ thp' \in ThpType /\ Counted
         /\ \/ /\ host' = next
               /\ thp.keys # 0 /\ thp'.keys = thp.keys /\ thp'.send = thp.send + 1
               /\ thp'.chan = thp.chan /\ thp'.there = thp.there
               /\ thp'.complete = thp.complete /\ thp'.paired = t.paired
               /\ sent' = sent \cup {<<thp.keys, thp.send, body, id, TRUE>>}
               /\ Puts(Frame("enc", thp.chan, thp.send, body, id))
            \/ /\ host' \in HostType /\ host'.op = host.op /\ host'.id = host.id
               /\ Stopped /\ thp' = t /\ up' = up /\ (sent' = sent \/ Wasted)
<1>1. {"noKeys", "transfer"} \subseteq HostErrors
  BY ErrorsKnown
<1>2. CASE t.keys = 0
  BY <1>1, <1>2, FailedEffect DEF SendEncrypted, Counted
<1>3. CASE t.keys # 0 /\ Encrypts(t, body, id, FALSE) /\ WriteFails /\ thp' = t
  <2>1. Wasted
    BY <1>3 DEF Encrypts, Wasted, Same
  <2> QED
    BY <1>1, <1>3, <2>1, FailedEffect DEF WriteFails, Fault, Counted
<1>4. CASE /\ t.keys # 0 /\ Encrypts(t, body, id, TRUE)
           /\ up' = Append(up, Encrypted(t, body, id))
           /\ thp' = [t EXCEPT !.send = @ + 1] /\ host' = next /\ UNCHANGED faults
  <2>1. thp.chan \in Nat /\ thp.send \in Nat /\ "enc" \in FrameTypes
    BY DEF Typed, ThpType, FrameTypes
  <2>2. Puts(Frame("enc", thp.chan, thp.send, body, id))
    BY <1>4, <2>1, FrameParts DEF Encrypted, Puts, Same
  <2>3. t.send \in Nat /\ t.send + 1 \in Nat
    BY DEF ThpType
  <2>4. thp' \in ThpType
    BY <1>4, <2>3 DEF ThpType
  <2>5. /\ thp'.send = t.send + 1 /\ thp'.keys = t.keys /\ thp'.chan = t.chan
        /\ thp'.there = t.there /\ thp'.complete = t.complete /\ thp'.paired = t.paired
    BY <1>4 DEF ThpType
  <2>6. sent' = sent \cup {<<thp.keys, thp.send, body, id, TRUE>>}
    BY <1>4 DEF Encrypts, Same
  <2> QED
    BY <1>4, <2>2, <2>4, <2>5, <2>6 DEF Same, Counted
<1> QED BY <1>2, <1>3, <1>4 DEF SendEncrypted

\* A request in the clear; only the completion request forgets what was encrypted.
LEMMA SendPlainEffect ==
  ASSUME Typed, NEW q \in FrameType, NEW t \in ThpType, NEW next, SendPlain(q, t, next)
  PROVE  /\ thp' = t /\ cred' = cred /\ Counted
         /\ \/ /\ Puts(q) /\ host' = next
               /\ sent' = IF q.ty = "comp" THEN {} ELSE sent
            \/ /\ host' \in HostType /\ host'.op = host.op /\ host'.id = host.id
               /\ Stopped /\ UNCHANGED <<up, sent>>
<1>1. "transfer" \in HostErrors
  BY ErrorsKnown
<1> QED
  BY <1>1, FailedEffect DEF SendPlain, Transmit, WriteFails, Fault, Counted, Puts
-----------------------------------------------------------------------------
(* Reading an answer, and what follows it. *)

\* The next frame is taken off the line, and nothing around the channel moves.
Heard == Hears /\ UNCHANGED world

\* Every way in which a read does not come to an answer.
Misheard ==
    \/ TimesOut
    \/ Heard /\ \E e \in HostErrors : Fail(e)
    \/ Heard /\ AckFails
    \/ Heard /\ UNCHANGED <<host, chan>>

\* The answer was decrypted, on the channel of the state.
Decrypted ==
    /\ Heard /\ Head(wire).ty = "enc"
    /\ thp.chan = 0 \/ Head(wire).chan = thp.chan

\* The operation, or the attempt, ends with an error in state t.
Refuses(t) ==
    (\E e \in HostErrors : Failed(e)) /\ thp' = t /\ UNCHANGED <<up, sent, faults, cred>>

\* Where the host may wait after it wrote an encrypted message in state t.
Leads(t, p) ==
    \/ host.pc \in Dialogue /\ p \in Dialogue \ {"comp", "code"}
    \/ /\ host.pc \in Dialogue /\ p = "created" /\ kind \notin CbKinds
       /\ Answer("endResponse") /\ t.paired
    \/ host.pc = "created" /\ p = "created"
    \/ host.pc = "session" /\ p = "created" /\ kind \in CbKinds
    \/ host.pc = "call" /\ p = "answer"

\* A message of the dialogue is encrypted in state t.
SaysOn(t) ==
    \E b \in Bodies, p \in Dialogue \ {"comp", "code"} :
        SendEncrypted(t, b, 0, Await(p)) /\ (cred' = cred \/ cred' = "valid")

\* The reads of the handshake and of the pairing dialogue are places of the host.
LEMMA PlacesKnown ==
    /\ Dialogue \subseteq Pcs /\ Dialogue \cap Rest = {}
    /\ {"begin", "alloc", "init", "created", "answer", "v1answer", "plainAnswer", "detect",
        "grant", "idle", "probe", "code"} \subseteq Pcs
    /\ {"begin", "alloc", "init", "created", "answer", "v1answer", "plainAnswer",
        "call", "session", "release", "failed"} \cap Rest = {}
    /\ "call" \notin Dialogue /\ "created" \notin Dialogue /\ "session" \notin Dialogue
  BY DEF Dialogue, Pcs, Rest

\* A state is the same channel as itself.
LEMMA SameSelf == ASSUME Typed PROVE thp \in ThpType /\ Same(thp)
  BY DEF Typed, Same

\* A read without an answer stops the operation or passes the frame over.
LEMMA MisheardEffect ==
  ASSUME Typed, host.pc \notin Rest, Misheard
  PROVE  HostEffect
<1>1. cred \in Creds /\ host \in HostType /\ "transfer" \in HostErrors
  BY ErrorsKnown DEF Typed
<1>2. CASE TimesOut
  <2>1. Failed("transfer") /\ wire = <<>> /\ UNCHANGED <<wire, up, sent, thp, cred, world>>
    BY <1>2 DEF TimesOut
  <2>2. Counted /\ (up = <<>> \/ host.op = "acquire" \/ "late" \in FaultKinds)
    BY <1>2 DEF TimesOut, Fault, Counted
  <2> QED
    BY <1>1, <2>1, <2>2, FailedEffect, WorldKept, SameSelf DEF HostEffect, Base, Stops
<1>3. CASE Heard /\ \E e \in HostErrors : Fail(e)
  BY <1>1, <1>3, FailedEffect, WorldKept, SameSelf
     DEF Heard, Fail, chan, HostEffect, Base, Stops, Counted
<1>4. CASE Heard /\ AckFails
  BY <1>1, <1>4, FailedEffect, WorldKept, SameSelf
     DEF Heard, AckFails, Fault, HostEffect, Base, Stops, Counted
<1>5. CASE Heard /\ UNCHANGED <<host, chan>>
  BY <1>1, <1>5, WorldKept, SameSelf DEF Heard, chan, HostEffect, Base, Skips, Counted
<1> QED BY <1>2, <1>3, <1>4, <1>5 DEF Misheard

\* An answer that is refused stops the operation.
LEMMA RefusesEffect ==
  ASSUME Typed, host.pc \notin Rest, Heard, NEW t \in ThpType, Same(t), Refuses(t)
  PROVE  HostEffect
  BY FailedEffect, WorldKept DEF Typed, Heard, Refuses, HostEffect, Base, Stops, Counted

\* An encrypted message goes out after an answer, or the operation stops.
LEMMA SpeaksEffect ==
  ASSUME Typed, host.pc \notin Rest, UNCHANGED world, cred' \in Creds,
         Hears \/ (wire' = wire /\ host.pc \in {"code", "call", "session"}),
         NEW t \in ThpType, Same(t), NEW b \in Bodies, NEW p \in Pcs, Leads(t, p),
         NEW id \in Nat, id = IF host.pc = "call" THEN host.id ELSE 0,
         SendEncrypted(t, b, id, Await(p))
  PROVE  HostEffect
<1>1. /\ UNCHANGED <<kind, dev, ops, link, session>>
      /\ link' \in BOOLEAN /\ session' \in SessionType
  BY WorldKept
<1>2. thp' \in ThpType /\ Counted
  BY SendEffect
<1>3. CASE /\ host' = Await(p)
           /\ thp.keys # 0 /\ thp'.keys = thp.keys /\ thp'.send = thp.send + 1
           /\ thp'.chan = thp.chan /\ thp'.there = thp.there
           /\ thp'.complete = thp.complete /\ thp'.paired = t.paired
           /\ sent' = sent \cup {<<thp.keys, thp.send, b, id, TRUE>>}
           /\ Puts(Frame("enc", thp.chan, thp.send, b, id))
  <2>1. /\ host' \in HostType /\ host'.op = host.op /\ host'.id = host.id
        /\ host'.pc = p /\ host'.res = host.res
    BY <1>3, AwaitEffect
  <2>2. Speaks
    BY <1>1, <1>3, <2>1 DEF Speaks, Leads, Same
  <2> QED
    BY <1>1, <1>2, <2>1, <2>2 DEF HostEffect, Base
<1>4. CASE /\ host' \in HostType /\ host'.op = host.op /\ host'.id = host.id
           /\ Stopped /\ thp' = t /\ up' = up /\ (sent' = sent \/ Wasted)
  <2>1. host.pc # "init"
    BY DEF Leads, Dialogue
  <2> QED
    BY <1>1, <1>2, <1>4, <2>1 DEF HostEffect, Base, Stops
<1> QED BY <1>3, <1>4, SendEffect

\* A message of the dialogue.
LEMMA SaysEffect ==
  ASSUME Typed, host.pc \in Dialogue, UNCHANGED world,
         Hears \/ (wire' = wire /\ host.pc = "code"),
         NEW t \in ThpType, Same(t), SaysOn(t)
  PROVE  HostEffect
<1>1. PICK b \in Bodies, p \in Dialogue \ {"comp", "code"} :
          SendEncrypted(t, b, 0, Await(p)) /\ (cred' = cred \/ cred' = "valid")
  BY DEF SaysOn
<1>2. cred' \in Creds /\ p \in Pcs /\ Leads(t, p) /\ host.pc \notin Rest /\ host.pc # "call"
  BY <1>1, PlacesKnown DEF Typed, Leads, Creds
<1> QED
  BY <1>1, <1>2, SpeaksEffect
-----------------------------------------------------------------------------
(* The dialogue of the handshake, in the three transports.                 *)

\* The end of the dialogue, as each transport takes it.
Finishes(t) ==
    \/ kind \in CbKinds /\ CbFinish(t)
    \/ kind \notin CbKinds /\ (BleFinish(t) \/ UsbFinish(t))

\* The moves of the dialogue.
Converses ==
    /\ host.pc \in Dialogue
    /\ \/ Misheard
       \/ Decrypted /\ Refuses(Received)
       \/ Decrypted /\ SaysOn(Received)
       \/ Decrypted /\ \E c \in Creds : SaysOn([Received EXCEPT !.creds = c])
       \/ Decrypted /\ Head(wire).body = "endResponse" /\ Finishes(Received)
       \/ /\ Decrypted /\ host.pc = "cpace"
          /\ host' = Await("code") /\ thp' = Received /\ UNCHANGED <<up, sent, faults, cred>>
       \/ Heard /\ (SaysOn(thp) \/ SaysOn([thp EXCEPT !.paired = TRUE]))
       \/ /\ host.pc = "code" /\ UNCHANGED <<wire, world>>
          /\ SaysOn(thp) \/ Fail("cancelled")

\* The callback transport marks the state paired and completes on the end response.
LEMMA CbFinishEffect ==
  ASSUME Typed, host.pc \in Dialogue, kind \in CbKinds, Decrypted,
         Head(wire).body = "endResponse", NEW t \in ThpType, Same(t), CbFinish(t)
  PROVE  HostEffect
<1>1. /\ UNCHANGED <<kind, dev, ops, link, session, up, sent>>
      /\ link' \in BOOLEAN /\ session' \in SessionType /\ cred' \in Creds /\ Counted
  BY WorldKept DEF Decrypted, Heard, CbFinish, Typed, Counted
<1>2. CASE t.paired
  <2>1. host' = Await("grant") /\ thp' = [t EXCEPT !.complete = TRUE]
    BY <1>2 DEF CbFinish
  <2>2. /\ host' \in HostType /\ host'.op = host.op /\ host'.id = host.id
        /\ host'.pc = "grant" /\ host'.res = host.res
    BY <2>1, AwaitEffect, PlacesKnown
  <2>3. /\ thp' \in ThpType /\ thp'.there = t.there /\ thp'.chan = t.chan
        /\ thp'.keys = t.keys /\ thp'.send = t.send /\ thp'.complete /\ thp'.paired
    BY <1>2, <2>1 DEF ThpType
  <2>4. Completes
    BY <1>1, <2>2, <2>3 DEF Completes, Same, Decrypted, Heard, Answer
  <2> QED
    BY <1>1, <2>2, <2>3, <2>4 DEF HostEffect, Base
<1>3. CASE ~t.paired
  <2>1. "notPaired" \in HostErrors /\ host.pc \notin Rest
    BY ErrorsKnown, PlacesKnown
  <2>2. Refuses(t)
    BY <1>3, <2>1 DEF CbFinish, Refuses
  <2> QED
    BY <2>1, <2>2, RefusesEffect DEF Decrypted
<1> QED BY <1>2, <1>3

\* next_session_id leaves channel, keys and nonces alone.
LEMMA SessionIdSame ==
  ASSUME Typed, NEW t \in ThpType, Same(t)
  PROVE  /\ NextSessionId(t) \in ThpType /\ Same(NextSessionId(t))
         /\ NextSessionId(t).paired = t.paired
<1>1. t.sid \in 0..255 /\ (IF t.sid = 255 THEN 1 ELSE t.sid + 1) \in 0..255
  BY DEF ThpType
<1> QED
  BY <1>1 DEF NextSessionId, ThpType, Same

\* Bluetooth and USB ask for a session on the end response, or complete at once.
LEMMA LaterFinishEffect ==
  ASSUME Typed, host.pc \in Dialogue, kind \notin CbKinds, Decrypted,
         Head(wire).body = "endResponse", NEW t \in ThpType, Same(t),
         BleFinish(t) \/ UsbFinish(t)
  PROVE  HostEffect
<1>1. host.pc \notin Rest /\ host.pc # "call" /\ "created" \in Pcs
  BY PlacesKnown
<1>2. "createSession" \in Bodies
  BY DEF Bodies
<1>3. CASE t.paired
  <2>1. SendEncrypted(NextSessionId(t), "createSession", 0, Await("created")) /\ UNCHANGED cred
    BY <1>3 DEF BleFinish, UsbFinish, BleSend, UsbSend
  <2>2. Leads(NextSessionId(t), "created")
    BY <1>3, SessionIdSame DEF Leads, Answer, Decrypted, Heard
  <2>3. UNCHANGED world /\ Hears /\ cred' \in Creds
    BY <2>1 DEF Decrypted, Heard, Typed
  <2> QED
    BY <1>1, <1>2, <2>1, <2>2, <2>3, SessionIdSame, SpeaksEffect
<1>4. CASE ~t.paired
  <2>1. "notPaired" \in HostErrors
    BY ErrorsKnown
  <2>2. Refuses(t)
    BY <1>4, <2>1 DEF BleFinish, UsbFinish, BleRefuse, UsbRefuse, Refuses
  <2> QED
    BY <1>1, <2>2, RefusesEffect DEF Decrypted
<1> QED BY <1>3, <1>4

\* Every step of a dialogue, whichever transport makes it, is a step of the host.
LEMMA ConversesEffect ==
  ASSUME Typed, Converses
  PROVE  HostEffect
<1>1. host.pc \in Dialogue /\ host.pc \notin Rest
  BY PlacesKnown DEF Converses
<1>2. Received \in ThpType /\ Same(Received)
  BY ReceivedSame
<1>3. ASSUME NEW c \in Creds
      PROVE  [Received EXCEPT !.creds = c] \in ThpType /\ Same([Received EXCEPT !.creds = c])
  BY <1>2 DEF ThpType, Same
<1>4. thp \in ThpType /\ Same(thp)
  BY SameSelf
<1>5. [thp EXCEPT !.paired = TRUE] \in ThpType /\ Same([thp EXCEPT !.paired = TRUE])
  BY <1>4 DEF ThpType, Same
<1>6. CASE Misheard
  BY <1>1, <1>6, MisheardEffect
<1>7. CASE Decrypted /\ Refuses(Received)
  BY <1>1, <1>2, <1>7, RefusesEffect DEF Decrypted
<1>8. CASE Decrypted /\ SaysOn(Received)
  BY <1>1, <1>2, <1>8, SaysEffect DEF Decrypted, Heard
<1>9. CASE Decrypted /\ \E c \in Creds : SaysOn([Received EXCEPT !.creds = c])
  BY <1>1, <1>3, <1>9, SaysEffect DEF Decrypted, Heard
<1>10. CASE Decrypted /\ Head(wire).body = "endResponse" /\ Finishes(Received)
  BY <1>1, <1>2, <1>10, CbFinishEffect, LaterFinishEffect DEF Finishes
<1>11. CASE /\ Decrypted /\ host.pc = "cpace"
            /\ host' = Await("code") /\ thp' = Received /\ UNCHANGED <<up, sent, faults, cred>>
  <2>1. /\ host' \in HostType /\ host'.op = host.op /\ host'.id = host.id
        /\ host'.pc = "code" /\ host'.res = host.res
    BY <1>11, AwaitEffect, PlacesKnown
  <2> QED
    BY <1>2, <1>11, <2>1, WorldKept
       DEF Decrypted, Heard, HostEffect, Base, AsksCode, Counted, Typed
<1>12. CASE Heard /\ (SaysOn(thp) \/ SaysOn([thp EXCEPT !.paired = TRUE]))
  BY <1>1, <1>4, <1>5, <1>12, SaysEffect DEF Heard
<1>13. CASE host.pc = "code" /\ UNCHANGED <<wire, world>> /\ SaysOn(thp)
  BY <1>1, <1>4, <1>13, SaysEffect
<1>14. CASE host.pc = "code" /\ UNCHANGED <<wire, world>> /\ Fail("cancelled")
  <2>1. "cancelled" \in HostErrors /\ cred \in Creds
    BY ErrorsKnown DEF Typed
  <2> QED
    BY <1>1, <1>4, <1>14, <2>1, FailedEffect, WorldKept
       DEF Fail, chan, HostEffect, Base, Stops, Counted
<1> QED
  BY <1>6, <1>7, <1>8, <1>9, <1>10, <1>11, <1>12, <1>13, <1>14 DEF Converses

\* The words of the dialogue and the reads they lead to are known.
LEMMA DialogueWords ==
    /\ {"buttonAck", "selectMethod", "challenge", "tag", "badTag", "credentialRequest",
        "endRequest", "pairingRequest"} \subseteq Bodies
    /\ {"end", "endButton", "pair", "pairButton", "select", "commit", "cpace", "secret",
        "credential", "credentialButton", "pairEnd"} \subseteq Dialogue \ {"comp", "code"}
    /\ {"comp", "code"} \subseteq Dialogue
    /\ {"transfer", "crc", "aead", "unexpected", "pairing", "cancelled", "badCode", "rejected",
        "notPaired"} \subseteq HostErrors
  BY DEF Bodies, Dialogue, HostErrors

\* read_response of the callback transport names an error, or the frame is on the
\* channel that was asked for.
LEMMA CbErrors ==
  ASSUME Typed, wire # <<>>, NEW c
  PROVE  /\ CbFrameError(c, Head(wire)) \in HostErrors
         /\ CbFrameError(c, Head(wire)) = "none" =>
              /\ Head(wire).ty \notin {"garbled", "error"}
              /\ c = 0 \/ Head(wire).ty = "allocRes" \/ Head(wire).chan = c
<1>1. Head(wire).ty = "error" => Head(wire).body \in HostErrors \ {"none"}
  BY HeadTyped
<1>2. "crc" \in HostErrors /\ "none" \in HostErrors
  BY ErrorsKnown
<1>3. CASE Head(wire).ty = "error"
  BY <1>1, <1>2, <1>3 DEF CbFrameError
<1>4. CASE Head(wire).ty # "error"
  BY <1>2, <1>4 DEF CbFrameError
<1> QED BY <1>3, <1>4

\* The dialogue over the callback transport.
LEMMA CbConverses ==
  ASSUME Typed, kind \in CbKinds,
         \/ CbCompleted \/ CbEnded \/ CbPairingRequested \/ CbMethodSelected
         \/ CbCpaceReceived \/ CbCodeEntered \/ CbSecretReceived \/ CbCredentialIssued
         \/ CbPairingEnded
  PROVE  Converses
<1> USE CbErrors, DialogueWords
    DEF CbAnswered, CbReads, Receives, CbDecrypted, CbRefuse, CbSend, Refuses, SaysOn,
        Decrypted, Decrypts, Heard, Hears, Misheard
<1>1. CASE CbCompleted
  BY <1>1 DEF CbCompleted, Converses
<1>2. CASE CbEnded
  BY <1>2 DEF CbEnded, Converses, Finishes
<1>3. CASE CbPairingRequested
  BY <1>3 DEF CbPairingRequested, Converses
<1>4. CASE CbMethodSelected
  BY <1>4 DEF CbMethodSelected, Converses
<1>5. CASE CbCpaceReceived
  BY <1>5 DEF CbCpaceReceived, Converses
<1>6. CASE CbCodeEntered
  BY <1>6 DEF CbCodeEntered, Converses
<1>7. CASE CbSecretReceived
  BY <1>7 DEF CbSecretReceived, Converses
<1>8. CASE CbCredentialIssued
  BY <1>8 DEF CbCredentialIssued, CbCredentialSaved, Converses
<1>9. CASE CbPairingEnded
  BY <1>9 DEF CbPairingEnded, Converses, Finishes
<1> QED BY <1>1, <1>2, <1>3, <1>4, <1>5, <1>6, <1>7, <1>8, <1>9

\* The credential of the state after the device issued one.
LEMMA CredentialsFiled ==
  ASSUME Typed
  PROVE  /\ "valid" \in Creds
         /\ \A b : (IF b = "credential" THEN "valid" ELSE Received.creds) \in Creds
<1>1. Received.creds \in Creds
  BY ReceivedSame DEF ThpType
<1> QED
  BY <1>1 DEF Creds

\* The dialogue over Bluetooth.
LEMMA BleConverses ==
  ASSUME Typed, kind = "bluetooth",
         \/ BleCompleted \/ BleEnded \/ BlePairingRequested \/ BleMethodSelected
         \/ BleCpaceReceived \/ BleCodeEntered \/ BleSecretReceived \/ BleCredentialIssued
         \/ BlePairingEnded
  PROVE  Converses
<1> USE DialogueWords, HeadTyped
    DEF BleAnswered, BleReads, Receives, BleDecrypted, BleRefuse, BleSend, Refuses, SaysOn,
        Decrypted, Decrypts, Heard, Hears, Misheard, BleFrameOk
<1>1. CASE BleCompleted
  BY <1>1 DEF BleCompleted, Converses
<1>2. CASE BleEnded
  BY <1>2 DEF BleEnded, Finishes, CbKinds, Converses
<1>3. CASE BlePairingRequested
  BY <1>3 DEF BlePairingRequested, Converses
<1>4. CASE BleMethodSelected
  BY <1>4 DEF BleMethodSelected, Converses
<1>5. CASE BleCpaceReceived
  BY <1>5 DEF BleCpaceReceived, Converses
<1>6. CASE BleCodeEntered
  BY <1>6 DEF BleCodeEntered, Converses
<1>7. CASE BleSecretReceived
  BY <1>7 DEF BleSecretReceived, Converses
<1>8. CASE BleCredentialIssued
  BY <1>8, CredentialsFiled DEF BleCredentialIssued, Converses
<1>9. CASE BlePairingEnded
  BY <1>9 DEF BlePairingEnded, Finishes, CbKinds, Converses
<1> QED BY <1>1, <1>2, <1>3, <1>4, <1>5, <1>6, <1>7, <1>8, <1>9

\* The dialogue over USB.
LEMMA UsbConverses ==
  ASSUME Typed, kind = "usb",
         \/ UsbCompleted \/ UsbEnded \/ UsbPairingRequested \/ UsbMethodSelected
         \/ UsbCpaceReceived \/ UsbCodeEntered \/ UsbSecretReceived \/ UsbCredentialIssued
         \/ UsbPairingEnded
  PROVE  Converses
<1> USE DialogueWords, HeadTyped
    DEF UsbAnswered, UsbReads, Receives, UsbDecrypted, UsbRefuse, UsbSend, Refuses, SaysOn,
        Decrypted, Decrypts, Heard, Hears, Misheard, UsbSkips
<1>1. CASE UsbCompleted
  BY <1>1 DEF UsbCompleted, Converses
<1>2. CASE UsbEnded
  BY <1>2 DEF UsbEnded, Finishes, CbKinds, Converses
<1>3. CASE UsbPairingRequested
  BY <1>3 DEF UsbPairingRequested, Converses
<1>4. CASE UsbMethodSelected
  BY <1>4 DEF UsbMethodSelected, Converses
<1>5. CASE UsbCpaceReceived
  BY <1>5 DEF UsbCpaceReceived, Converses
<1>6. CASE UsbCodeEntered
  BY <1>6 DEF UsbCodeEntered, Converses
<1>7. CASE UsbSecretReceived
  BY <1>7 DEF UsbSecretReceived, Converses
<1>8. CASE UsbCredentialIssued
  BY <1>8, CredentialsFiled DEF UsbCredentialIssued, UsbCredentialFiled, Converses
<1>9. CASE UsbPairingEnded
  BY <1>9 DEF UsbPairingEnded, Finishes, CbKinds, Converses
<1> QED BY <1>1, <1>2, <1>3, <1>4, <1>5, <1>6, <1>7, <1>8, <1>9
-----------------------------------------------------------------------------
(* Opening, the protocol, the retries and the session.                     *)

\* ThpState::new and ThpState::reset leave no channel and no keys.
LEMMA BlankStates ==
  ASSUME NEW c \in Creds, NEW t \in ThpType
  PROVE  /\ [NewState EXCEPT !.creds = c] \in ThpType /\ Blank([NewState EXCEPT !.creds = c])
         /\ [NewState EXCEPT !.creds = c].there
         /\ NewState \in ThpType /\ Blank(NewState) /\ NewState.there
         /\ NoState \in ThpType /\ Blank(NoState)
         /\ Reset(t) \in ThpType /\ Blank(Reset(t))
<1>1. NewState \in ThpType /\ Blank(NewState) /\ NewState.there
  BY DEF NewState, ThpType, Blank, Creds
<1>2. NoState \in ThpType /\ Blank(NoState)
  BY <1>1 DEF NoState, ThpType, Blank
<1>3. /\ [NewState EXCEPT !.creds = c] \in ThpType /\ Blank([NewState EXCEPT !.creds = c])
      /\ [NewState EXCEPT !.creds = c].there
  BY <1>1 DEF ThpType, Blank
<1>4. t.there \in BOOLEAN /\ t.creds \in Creds
  BY DEF ThpType
<1>5. Reset(t) \in ThpType /\ Blank(Reset(t))
  BY <1>1, <1>4 DEF Reset, ThpType, Blank
<1> QED BY <1>1, <1>2, <1>3, <1>5

\* An acquire that opens its line leaves the channel blank or as it was.
LEMMA OpenEffect ==
  ASSUME Typed, (kind \in CbKinds /\ CbOpen) \/ (kind = "bluetooth" /\ BleOpen)
                \/ (kind = "usb" /\ UsbOpen)
  PROVE  HostEffect
<1>1. /\ host.pc = "open" /\ UNCHANGED <<kind, dev, ops, sent, session, cred>>
      /\ cred' \in Creds /\ session' \in SessionType
  BY DEF CbOpen, BleOpen, UsbOpen, Typed
<1>2. "open" \in Results /\ "open" # "ok" /\ {"grant", "begin", "probe"} \subseteq Pcs
  BY PlacesKnown DEF Results
<1>3. CASE Returns("open") /\ Fault("open") /\ thp' = thp /\ UNCHANGED <<link, up, wire>>
  <2>1. /\ host' \in HostType /\ host'.op = host.op /\ host'.id = host.id
        /\ host'.pc = "idle" /\ host'.res = "open"
    BY <1>2, <1>3, ReturnsEffect
  <2> QED
    BY <1>1, <1>3, <2>1 DEF Typed, HostEffect, Base, Opens, Counted, Fault
<1>4. CASE \E p \in {"grant", "begin", "probe"} :
             /\ p \in IF thp.complete THEN {"grant"}
                      ELSE IF kind = "callbackBle" THEN {"begin"} ELSE {"probe"}
             /\ host' = Await(p) /\ thp' = thp /\ link' = TRUE /\ UNCHANGED faults
             /\ UNCHANGED <<up, wire>> \/ LineCleared
  <2>1. PICK p \in {"grant", "begin", "probe"} :
             /\ p \in IF thp.complete THEN {"grant"}
                      ELSE IF kind = "callbackBle" THEN {"begin"} ELSE {"probe"}
             /\ host' = Await(p) /\ thp' = thp /\ link' = TRUE /\ UNCHANGED faults
             /\ UNCHANGED <<up, wire>> \/ LineCleared
    BY <1>4
  <2>2. /\ host' \in HostType /\ host'.op = host.op /\ host'.id = host.id
        /\ host'.pc = p /\ host'.res = host.res
    BY <1>2, <2>1, AwaitEffect
  <2>3. Opens
    BY <1>1, <2>1, <2>2 DEF Opens
  <2> QED
    BY <1>1, <2>1, <2>2, <2>3 DEF Typed, HostEffect, Base, Counted
<1>5. CASE /\ kind = "bluetooth" /\ link' = TRUE /\ LineCleared
           /\ thp' = [NewState EXCEPT !.creds = cred] /\ host' = Await("begin")
           /\ UNCHANGED faults
  <2>1. /\ host' \in HostType /\ host'.op = host.op /\ host'.id = host.id
        /\ host'.pc = "begin" /\ host'.res = host.res
    BY <1>2, <1>5, AwaitEffect
  <2>2. thp' \in ThpType /\ Blank(thp')
    BY <1>5, BlankStates DEF Typed
  <2>3. Opens
    BY <1>1, <1>5, <2>1, <2>2 DEF Opens
  <2> QED
    BY <1>1, <1>5, <2>1, <2>2, <2>3 DEF HostEffect, Base, Counted
<1>6. CASE kind \in CbKinds /\ CbOpen
  BY <1>3, <1>4, <1>6 DEF CbOpen, CbKinds, Typed, ThpType
<1>7. CASE kind = "bluetooth" /\ BleOpen
  BY <1>3, <1>5, <1>7 DEF BleOpen
<1>8. CASE kind = "usb" /\ UsbOpen
  BY <1>3, <1>4, <1>8 DEF UsbOpen
<1> QED BY <1>6, <1>7, <1>8

\* detect_protocol sends a plain request only.
LEMMA ProbeEffect ==
  ASSUME Typed, CbProbe \/ UsbProbe
  PROVE  HostEffect
<1>1. /\ host.pc = "probe" /\ UNCHANGED <<wire, thp, cred, world>>
      /\ thp' \in ThpType /\ cred' \in Creds
  BY DEF CbProbe, UsbProbe, Typed
<1>2. Puts(Frame("v1", 0, 0, "cancel", 0)) \/ up' # Append(up, Frame("v1", 0, 0, "cancel", 0))
  BY FrameParts DEF Puts, FrameTypes, Bodies
<1>3. sent' = sent
  BY DEF CbProbe, UsbProbe, Transmit, Frame
<1>4. CASE /\ up' = Append(up, Frame("v1", 0, 0, "cancel", 0))
           /\ host' = Await("detect") /\ UNCHANGED faults
  BY <1>1, <1>2, <1>3, <1>4, AwaitEffect, PlacesKnown, WorldKept
     DEF HostEffect, Base, Probes, Counted
<1>5. CASE host' = Await("grant") /\ up' = up /\ Fault("refused")
  BY <1>1, <1>3, <1>5, AwaitEffect, PlacesKnown, WorldKept
     DEF HostEffect, Base, Probes, Counted, Fault
<1> QED BY <1>4, <1>5 DEF CbProbe, UsbProbe, Transmit

\* What detect_protocol reads decides between protocol v1 and a handshake.
LEMMA DetectedEffect ==
  ASSUME Typed, CbDetected \/ UsbDetected
  PROVE  HostEffect
<1>1. /\ host.pc = "detect" /\ UNCHANGED <<up, sent, thp, cred, world>>
      /\ thp' \in ThpType /\ cred' \in Creds
  BY DEF CbDetected, UsbDetected, Receives, chan, Typed
<1>2. Counted
  BY DEF CbDetected, UsbDetected, Receives, chan, Counted, Fault
<1>3. CASE Hears /\ \E p \in {"begin", "grant", "detect"} :
             /\ host' = Await(p)
             /\ p = "begin" => \/ Head(wire).ty = "v1" /\ Head(wire).body = "invalidProtocol"
                               \/ Head(wire).ty \in {"allocRes", "error", "initRes"}
  BY <1>1, <1>2, <1>3, AwaitEffect, PlacesKnown, WorldKept DEF HostEffect, Base, Detects
<1>4. CASE /\ wire = <<>> /\ wire' = wire /\ host' = Await("grant")
           /\ (up = <<>> \/ "late" \in FaultKinds)
  BY <1>1, <1>2, <1>4, AwaitEffect, PlacesKnown, WorldKept DEF HostEffect, Base, Detects
<1>5. CASE CbDetected
  BY <1>3, <1>4, <1>5 DEF CbDetected, Receives, Hears, Fault
<1>6. CASE UsbDetected
  BY <1>3, <1>4, <1>6 DEF UsbDetected, Receives, Hears, Fault
<1> QED BY <1>5, <1>6

\* A granted session keeps the channel it was granted for.
LEMMA GrantEffect ==
  ASSUME Typed, NEW saved \in Creds, Grants(saved)
  PROVE  HostEffect
<1>1. session \in SessionType /\ session.counter \in Nat /\ session.counter + 1 \in Nat
  BY DEF Typed, SessionType
<1>2. session' \in SessionType /\ cred' \in Creds
  BY <1>1 DEF Grants, SessionType, Typed
<1>3. \E r \in {"ok", "acquired"} : Returns(r)
  BY DEF Grants
<1>4. {"ok", "acquired"} \subseteq Results
  BY DEF Results
<1>5. /\ host' \in HostType /\ host'.op = host.op /\ host'.id = host.id /\ host'.pc = "idle"
  BY <1>3, <1>4, ReturnsEffect
<1> QED
  BY <1>2, <1>5 DEF Grants, HostEffect, Base, GrantsSession, Counted, Typed

\* The three transports grant a session when the handshake has ended.
LEMMA GrantedEffect ==
  ASSUME Typed, CbGranted \/ BleGranted \/ UsbGranted
  PROVE  HostEffect
<1>1. cred \in Creds /\ thp.creds \in Creds
  BY DEF Typed, ThpType
<1> QED
  BY <1>1, GrantEffect DEF CbGranted, BleGranted, UsbGranted

\* After a failed acquire the state is reset, dropped or kept for another attempt.
LEMMA RecoverEffect ==
  ASSUME Typed, (kind \in CbKinds /\ CbFailed) \/ BleFailed \/ UsbFailed
  PROVE  HostEffect
<1>1. /\ host.pc = "failed" /\ UNCHANGED <<kind, dev, sent, session, ops>>
      /\ cred' \in Creds /\ session' \in SessionType
  BY DEF CbFailed, BleFailed, UsbFailed, world, still, Typed, Creds
<1>2. thp' \in ThpType /\ (thp' = thp \/ Blank(thp'))
  BY BlankStates DEF CbFailed, BleFailed, UsbFailed, Typed, Creds
<1>3. link' \in BOOLEAN /\ Counted /\ (UNCHANGED <<up, wire>> \/ LineCleared)
  BY DEF CbFailed, BleFailed, UsbFailed, world, still, Typed, Counted, Fault
<1>4. host.err \in Results /\ "notFound" \in Results /\ {"begin", "idle"} \subseteq Pcs
  BY ErrorsKnown DEF Typed, HostType, Results, Pcs
<1>5. /\ host' \in HostType /\ host'.op = host.op /\ host'.id = host.id
      /\ host'.pc \in {"begin", "idle"}
  <2>1. CASE \E r \in Results : Returns(r)
    BY <2>1, ReturnsEffect
  <2>2. CASE host' = [host EXCEPT !.pc = "begin", !.attempt = @ + 1] /\ host.attempt < UsbMaxRetries
    <3>1. host.attempt + 1 \in 1..UsbMaxRetries
      BY <2>2 DEF Typed, HostType, UsbMaxRetries
    <3> QED
      BY <1>4, <2>2, <3>1 DEF Typed, HostType
  <2>3. CASE \E a \in 1..UsbMaxRetries, s \in BOOLEAN, u \in BOOLEAN :
               host' = [host EXCEPT !.pc = "begin", !.attempt = a, !.unlock = u, !.skip = s]
    <3>1. PICK a \in 1..UsbMaxRetries, s \in BOOLEAN, u \in BOOLEAN :
               host' = [host EXCEPT !.pc = "begin", !.attempt = a, !.unlock = u, !.skip = s]
      BY <2>3
    <3>2. host \in HostType
      BY DEF Typed
    <3> QED
      BY <1>4, <3>1, <3>2 DEF HostType
  <2>4. CASE CbFailed /\ ~\E r \in Results : Returns(r)
    <3>1. host.attempt \in 1..6 /\ host.err \in HostErrors
      BY DEF Typed, HostType, UsbMaxRetries
    <3>2. LET again == CbRetryable(host.err) /\ host.attempt < CbMaxRetries IN
          (IF again THEN host.attempt + 1 ELSE host.attempt) \in 1..UsbMaxRetries
      BY <3>1 DEF CbMaxRetries, UsbMaxRetries
    <3> HIDE DEF CbRetryable
    <3> QED
      BY <1>4, <2>3, <2>4, <3>2 DEF CbFailed
  <2> QED
    BY <1>4, <2>1, <2>2, <2>4 DEF BleFailed, UsbFailed, BleMaxRetries, UsbMaxRetries, Typed, HostType
<1> QED
  BY <1>1, <1>2, <1>3, <1>5 DEF HostEffect, Base, Recovers

\* A handshake starts with a channel allocation from a state without a channel.
LEMMA BeginEffect ==
  ASSUME Typed, CbBegin \/ BleBegin \/ UsbBegin
  PROVE  HostEffect
<1>1. AllocRequest \in FrameType /\ AllocRequest.ty = "alloc" /\ cred \in Creds
  <2>1. "alloc" \in FrameTypes /\ "none" \in Bodies /\ 0 \in Nat
    BY DEF FrameTypes, Bodies, Creds
  <2> QED
    BY <2>1, FrameParts DEF AllocRequest, Typed
<1>2. thp \in ThpType /\ Same(thp) /\ "alloc" \in Pcs /\ host.pc = "begin" /\ host.pc \notin Rest
  BY SameSelf DEF Pcs, Rest, CbBegin, BleBegin, UsbBegin
<1>a. CbLoaded \in Creds \ {"malformed"}
  BY DEF CbLoaded, Typed, Creds
<1>3. PICK l \in Creds \ {"malformed"} :
        /\ \/ SendPlain(AllocRequest, thp, [host EXCEPT !.pc = "alloc", !.loaded = l])
           \/ SendPlain(AllocRequest, thp, Await("alloc"))
        /\ UNCHANGED <<wire, world>>
  BY <1>a DEF CbBegin, BleBegin, UsbBegin
<1>4. CASE /\ \/ host' = [host EXCEPT !.pc = "alloc", !.loaded = l]
              \/ host' = Await("alloc")
           /\ Puts(AllocRequest) /\ thp' = thp /\ cred' = cred /\ Counted /\ sent' = sent
  <2>1. /\ host' \in HostType /\ host'.op = host.op /\ host'.id = host.id
        /\ host'.pc = "alloc" /\ host'.res = host.res
    <3>1. CASE host' = [host EXCEPT !.pc = "alloc", !.loaded = l]
      BY <1>2, <3>1 DEF Typed, HostType
    <3>2. CASE host' = Await("alloc")
      BY <1>2, <3>2, AwaitEffect
    <3> QED BY <1>4, <3>1, <3>2
  <2> QED
    BY <1>1, <1>2, <1>3, <1>4, <2>1, WorldKept DEF HostEffect, Base, AsksChannel
<1>5. CASE /\ host' \in HostType /\ host'.op = host.op /\ host'.id = host.id
           /\ Stopped /\ UNCHANGED <<up, sent>> /\ thp' = thp /\ cred' = cred /\ Counted
  BY <1>1, <1>2, <1>3, <1>5, WorldKept DEF HostEffect, Base, Stops
<1> QED
  BY <1>1, <1>2, <1>3, <1>4, <1>5, SendPlainEffect

\* A state a handshake may start from: the one that is there, or a new one, on
\* channel c, with whatever credential.
Starts(t, c) ==
    /\ t \in ThpType /\ t.chan = c
    /\ (t.keys = thp.keys /\ t.send = thp.send) \/ t.keys = 0
    /\ t.complete => thp.complete
    /\ kind = "bluetooth" \/ t.there

\* The state on a new channel has no keys yet and sends under nonce 0.
LEMMA OnChannelStarts ==
  ASSUME Typed, NEW c \in Nat, NEW k \in Creds
  PROVE  LET t == OnChannel(IF thp.there THEN thp ELSE NewState, c) IN
         /\ Starts(t, c) /\ Starts([t EXCEPT !.creds = k], c) /\ t.creds \in Creds
         /\ kind = "bluetooth" => Starts(OnChannel(thp, c), c)
<1> DEFINE s == IF thp.there THEN thp ELSE NewState
<1>1. /\ s \in ThpType /\ s.there
      /\ (s.keys = thp.keys /\ s.send = thp.send) \/ s.keys = 0
      /\ s.complete => thp.complete
  <2>1. CASE thp.there
    BY <2>1 DEF Typed
  <2>2. CASE ~thp.there
    <3>1. thp \in ThpType
      BY DEF Typed
    <3>2. NewState \in ThpType /\ Blank(NewState) /\ NewState.there
      BY <3>1, BlankStates
    <3>3. NewState.keys = 0 /\ ~NewState.complete
      BY <3>2 DEF Blank
    <3> QED BY <2>2, <3>2, <3>3
  <2> QED BY <2>1, <2>2
<1>2. thp \in ThpType
  BY DEF Typed
<1> HIDE DEF s
<1>3. Starts(OnChannel(s, c), c) /\ OnChannel(s, c).creds \in Creds
  BY <1>1 DEF OnChannel, ThpType, Starts
<1>4. Starts([OnChannel(s, c) EXCEPT !.creds = k], c)
  BY <1>3 DEF ThpType, Starts
<1>5. kind = "bluetooth" => Starts(OnChannel(thp, c), c)
  BY <1>2 DEF OnChannel, ThpType, Starts
<1> QED BY <1>3, <1>4, <1>5 DEF s

\* The response to the allocation request.
Allocated ==
    /\ host.pc = "alloc"
    /\ \/ Misheard
       \/ /\ Heard /\ Head(wire).ty = "allocRes"
          /\ \E t \in ThpType, u \in BOOLEAN :
               /\ Starts(t, Head(wire).id)
               /\ SendPlain(InitRequest(Head(wire).id, u), t, Await("init"))

\* Each transport takes the channel of the allocation answer in the same shape.
LEMMA AllocatedShape ==
  ASSUME Typed, (kind \in CbKinds /\ CbAllocated) \/ (kind = "bluetooth" /\ BleAllocated)
                \/ (kind = "usb" /\ UsbAllocated)
  PROVE  Allocated
<1>1. host.unlock \in BOOLEAN /\ cred \in Creds
  BY DEF Typed, HostType
<1>2. wire # <<>> => Head(wire).id \in Nat
  BY HeadTyped DEF FrameType
<1>3. CASE kind \in CbKinds /\ CbAllocated
  <2>1. \A c \in Nat : Starts(OnChannel(IF thp.there THEN thp ELSE NewState, c), c)
    BY <1>1, OnChannelStarts
  <2> QED
    BY <1>1, <1>2, <1>3, <2>1, CbErrors, DialogueWords
       DEF CbAllocated, CbReads, Receives, Heard, Hears, Misheard, Allocated, Starts
<1>4. CASE kind = "bluetooth" /\ BleAllocated
  <2>1. \A c \in Nat : Starts(OnChannel(thp, c), c)
    BY <1>1, <1>4, OnChannelStarts
  <2> QED
    BY <1>1, <1>2, <1>4, <2>1, DialogueWords
       DEF BleAllocated, BleReads, BleFrameOk, Receives, Heard, Hears, Misheard, Allocated, Starts
<1>5. CASE kind = "usb" /\ UsbAllocated
  <2>1. \A c \in Nat : LET t == OnChannel(IF thp.there THEN thp ELSE NewState, c) IN
          Starts([t EXCEPT !.creds = IF t.creds = "none" THEN cred ELSE t.creds], c)
    BY <1>1, OnChannelStarts
  <2> QED
    BY <1>1, <1>2, <1>5, <2>1, HeadTyped, DialogueWords
       DEF UsbAllocated, UsbReads, UsbSkips, Receives, Heard, Hears, Misheard, Allocated, Starts
<1> QED BY <1>3, <1>4, <1>5

\* An allocation answer gives the host a channel without keys, or stops it.
LEMMA AllocatedEffect ==
  ASSUME Typed, Allocated
  PROVE  HostEffect
<1>1. host.pc = "alloc" /\ host.pc \notin Rest /\ cred \in Creds /\ "init" \in Pcs
  BY PlacesKnown DEF Allocated, Typed
<1>2. CASE Misheard
  BY <1>1, <1>2, MisheardEffect
<1>3. ASSUME Heard, Head(wire).ty = "allocRes", NEW t \in ThpType, NEW u \in BOOLEAN,
             Starts(t, Head(wire).id),
             SendPlain(InitRequest(Head(wire).id, u), t, Await("init"))
      PROVE  HostEffect
  <2>1. Head(wire).id \in Nat
    BY <1>3, HeadTyped DEF Heard, Hears, FrameType
  <2>2. "init" \in FrameTypes /\ {"unlock", "none"} \subseteq Bodies /\ 0 \in Nat
    BY DEF FrameTypes, Bodies, Creds
  <2>3. /\ InitRequest(Head(wire).id, u) \in FrameType
        /\ InitRequest(Head(wire).id, u).ty = "init"
    BY <2>1, <2>2, FrameParts DEF InitRequest
  <2>4. /\ UNCHANGED <<kind, dev, ops, session>> /\ link' \in BOOLEAN /\ session' \in SessionType
        /\ Hears
    BY <1>3, WorldKept DEF Heard
  <2>5. thp' = t /\ cred' = cred /\ Counted
    BY <1>3, <2>3, SendPlainEffect
  <2>6. CASE /\ Puts(InitRequest(Head(wire).id, u)) /\ host' = Await("init") /\ sent' = sent
    <3>1. /\ host' \in HostType /\ host'.op = host.op /\ host'.id = host.id
          /\ host'.pc = "init" /\ host'.res = host.res
      BY <1>1, <2>6, AwaitEffect
    <3>2. TakesChannel
      BY <1>1, <1>3, <2>4, <2>5, <2>6, <3>1 DEF TakesChannel, Starts
    <3> QED
      BY <1>1, <2>4, <2>5, <3>1, <3>2 DEF HostEffect, Base
  <2>7. CASE /\ host' \in HostType /\ host'.op = host.op /\ host'.id = host.id
             /\ Stopped /\ UNCHANGED <<up, sent>>
    <3>1. TakesChannel
      BY <1>1, <1>3, <2>4, <2>5, <2>7 DEF TakesChannel, Starts
    <3> QED
      BY <1>1, <2>4, <2>5, <2>7, <3>1 DEF HostEffect, Base
  <2> QED
    BY <1>3, <2>3, <2>6, <2>7, SendPlainEffect
<1> QED BY <1>2, <1>3 DEF Allocated

\* The response to the init request.
InitAnswered ==
    /\ host.pc = "init"
    /\ \/ Misheard
       \/ /\ Heard /\ Head(wire).ty = "initRes"
          /\ thp.chan = 0 \/ Head(wire).chan = thp.chan
          /\ \/ Refuses(Unkeyed(thp))
             \/ /\ thp.send = 0
                /\ \E c \in Creds : SendPlain(CompletionRequest(thp, c), Keyed(thp), Await("comp"))

\* Each transport derives keys from the init answer in the same shape.
LEMMA InitAnsweredShape ==
  ASSUME Typed, (kind \in CbKinds /\ CbInitAnswered) \/ (kind = "bluetooth" /\ BleInitAnswered)
                \/ (kind = "usb" /\ UsbInitAnswered)
  PROVE  InitAnswered
<1>1. \A c : Verified(c) \in Creds
  BY DEF Verified, Creds
<1> USE <1>1, DialogueWords, HeadTyped
    DEF Receives, Heard, Hears, Misheard, InitAnswered, InitDecrypts, Refuses
<1>2. CASE kind \in CbKinds /\ CbInitAnswered
  BY <1>2, CbErrors DEF CbInitAnswered, CbReads, CbRefuse
<1>3. CASE kind = "bluetooth" /\ BleInitAnswered
  BY <1>3 DEF BleInitAnswered, BleReads, BleFrameOk, BleRefuse
<1>4. CASE kind = "usb" /\ UsbInitAnswered
  BY <1>4 DEF UsbInitAnswered, UsbReads, UsbSkips, UsbRefuse
<1> QED BY <1>2, <1>3, <1>4

\* An init answer gives keys under which nothing was encrypted, or stops the host.
LEMMA InitAnsweredEffect ==
  ASSUME Typed, InitAnswered
  PROVE  HostEffect
<1>1. /\ host.pc = "init" /\ host.pc \notin Rest /\ cred \in Creds /\ "comp" \in Pcs
      /\ thp \in ThpType
  BY PlacesKnown DEF InitAnswered, Typed, Pcs
<1>2. CASE Misheard
  BY <1>1, <1>2, MisheardEffect
<1>3. CASE Heard /\ Refuses(Unkeyed(thp))
  <2>1. Unkeyed(thp) \in ThpType
    BY <1>1 DEF Unkeyed, ThpType
  <2> QED
    BY <1>1, <1>3, <2>1, FailedEffect, WorldKept
       DEF Heard, Refuses, HostEffect, Base, Stops, Counted
<1>4. ASSUME Heard, Head(wire).ty = "initRes", thp.chan = 0 \/ Head(wire).chan = thp.chan,
             thp.send = 0, NEW c \in Creds,
             SendPlain(CompletionRequest(thp, c), Keyed(thp), Await("comp"))
      PROVE  HostEffect
  <2>1. Keyed(thp) \in ThpType
    BY <1>1 DEF Keyed, ThpType
  <2>2. thp.chan \in Nat /\ thp.recv \in Nat /\ "comp" \in FrameTypes /\ c \in Bodies /\ 0 \in Nat
    BY <1>1, ErrorsKnown DEF ThpType, FrameTypes
  <2>3. CompletionRequest(thp, c) \in FrameType /\ CompletionRequest(thp, c).ty = "comp"
    BY <2>2, FrameParts DEF CompletionRequest
  <2>4. /\ UNCHANGED <<kind, dev, ops, session>> /\ link' \in BOOLEAN /\ session' \in SessionType
        /\ Hears
    BY <1>4, WorldKept DEF Heard
  <2>5. thp' = Keyed(thp) /\ cred' = cred /\ Counted
    BY <1>4, <2>1, <2>3, SendPlainEffect
  <2>6. CASE Puts(CompletionRequest(thp, c)) /\ host' = Await("comp") /\ sent' = {}
    <3>1. /\ host' \in HostType /\ host'.op = host.op /\ host'.id = host.id
          /\ host'.pc = "comp" /\ host'.res = host.res
      BY <1>1, <2>6, AwaitEffect
    <3>2. TakesKeys
      BY <1>1, <1>4, <2>4, <2>5, <2>6, <3>1 DEF TakesKeys
    <3> QED
      BY <1>1, <2>1, <2>4, <2>5, <3>1, <3>2 DEF HostEffect, Base
  <2>7. CASE /\ host' \in HostType /\ host'.op = host.op /\ host'.id = host.id
             /\ Stopped /\ UNCHANGED <<up, sent>>
    <3>1. TakesKeys
      BY <1>1, <1>4, <2>4, <2>5, <2>7 DEF TakesKeys
    <3> QED
      BY <1>1, <2>1, <2>4, <2>5, <2>7, <3>1 DEF HostEffect, Base
  <2> QED
    BY <1>4, <2>1, <2>3, <2>6, <2>7, SendPlainEffect
<1> QED BY <1>2, <1>3, <1>4 DEF InitAnswered
-----------------------------------------------------------------------------
(* The operations on an acquired session.                                  *)

\* A call is only sent on the channel of the session, or plain to a v1 device.
LEMMA CallEffect ==
  ASSUME Typed, (kind \in CbKinds /\ CbCall) \/ (kind = "bluetooth" /\ BleCall)
                \/ (kind = "usb" /\ UsbCall)
  PROVE  HostEffect
<1>1. /\ host.pc = "call" /\ host.pc \notin Rest /\ host.id \in Nat /\ cred \in Creds
      /\ thp \in ThpType /\ Same(thp) /\ UNCHANGED <<wire, world>>
  BY PlacesKnown, SameSelf DEF CbCall, BleCall, UsbCall, Typed, HostType
<1>2. /\ UNCHANGED <<kind, dev, ops, session>> /\ link' \in BOOLEAN /\ session' \in SessionType
  BY <1>1, WorldKept
<1>3. {"answer", "v1answer", "plainAnswer"} \subseteq Pcs
  BY PlacesKnown
<1>4. /\ {"notPaired", "notFound"} \subseteq Results \ {"ok"}
      /\ "call" \in Bodies /\ {"v1", "plain"} \subseteq FrameTypes /\ 0 \in Nat
  BY DEF Results, HostErrors, Bodies, FrameTypes
<1>5. CASE SendEncrypted(thp, "call", host.id, Await("answer")) /\ UNCHANGED cred
  BY <1>1, <1>3, <1>4, <1>5, SpeaksEffect DEF Leads
<1>6. CASE (\E r \in {"notPaired", "notFound"} : Returns(r)) /\ UNCHANGED chan
  BY <1>1, <1>2, <1>4, <1>6, ReturnsEffect DEF chan, HostEffect, Base, Stops, Stopped, Counted
<1>7. ASSUME NEW ty \in {"v1", "plain"}, NEW c \in Nat,
             SendPlain(Frame(ty, c, 0, "call", host.id), thp,
                       Await(IF ty = "v1" THEN "v1answer" ELSE "plainAnswer")),
             ty = "v1" => c = 0 /\ \/ kind = "callbackUsb" /\ ~thp.there
                                   \/ kind = "usb" /\ ~thp.complete,
             ty = "plain" => c = thp.chan /\ kind = "bluetooth" /\ ~thp.paired
      PROVE  HostEffect
  <2>1. /\ Frame(ty, c, 0, "call", host.id) \in FrameType
        /\ Frame(ty, c, 0, "call", host.id).ty # "comp"
    BY <1>1, <1>4, <1>7, FrameParts
  <2>2. thp' = thp /\ cred' = cred /\ Counted
    BY <1>1, <1>7, <2>1, SendPlainEffect
  <2>3. CASE /\ Puts(Frame(ty, c, 0, "call", host.id)) /\ sent' = sent
             /\ host' = Await(IF ty = "v1" THEN "v1answer" ELSE "plainAnswer")
    <3>1. /\ host' \in HostType /\ host'.op = host.op /\ host'.id = host.id
          /\ host'.pc = IF ty = "v1" THEN "v1answer" ELSE "plainAnswer"
          /\ host'.res = host.res
      BY <1>3, <2>3, AwaitEffect
    <3>2. CallsPlain
      BY <1>1, <1>2, <1>7, <2>2, <2>3, <3>1 DEF CallsPlain
    <3> QED
      BY <1>1, <1>2, <2>2, <3>1, <3>2 DEF HostEffect, Base
  <2>4. CASE /\ host' \in HostType /\ host'.op = host.op /\ host'.id = host.id
             /\ Stopped /\ UNCHANGED <<up, sent>>
    BY <1>1, <1>2, <2>2, <2>4 DEF HostEffect, Base, Stops
  <2> QED
    BY <1>1, <1>7, <2>1, <2>3, <2>4, SendPlainEffect
<1>8. CASE /\ SendPlain(Frame("v1", 0, 0, "call", host.id), thp, Await("v1answer"))
           /\ \/ kind = "callbackUsb" /\ ~thp.there
              \/ kind = "usb" /\ ~thp.complete
  BY <1>7, <1>8
<1>9. CASE /\ SendPlain(Frame("plain", thp.chan, 0, "call", host.id), thp, Await("plainAnswer"))
           /\ kind = "bluetooth" /\ ~thp.paired
  BY <1>1, <1>7, <1>9 DEF ThpType
<1>10. CASE kind \in CbKinds /\ CbCall
  BY <1>5, <1>6, <1>8, <1>10 DEF CbCall, CbNeedsThp, CbKinds
<1>11. CASE kind = "bluetooth" /\ BleCall
  BY <1>5, <1>6, <1>9, <1>11 DEF BleCall
<1>12. CASE kind = "usb" /\ UsbCall
  BY <1>5, <1>8, <1>12 DEF UsbCall
<1> QED BY <1>10, <1>11, <1>12

\* The answer to a call.
Called ==
    /\ host.pc \in {"answer", "v1answer", "plainAnswer"}
    /\ \/ Misheard
       \/ /\ Heard
          /\ host.pc = "answer" => Head(wire).ty = "enc"
          /\ host.pc = "v1answer" => Head(wire).ty = "v1"
          /\ host.pc = "plainAnswer" => kind = "bluetooth"
          /\ host' = [host EXCEPT !.pc = "idle", !.res = "ok", !.got = Head(wire).id]
          /\ thp' = Received \/ thp' = thp
          /\ UNCHANGED <<up, sent, faults, cred>>

\* Each transport takes the answer to a call in the same shape.
LEMMA CalledShape ==
  ASSUME Typed,
         \/ kind \in CbKinds /\ (CbCalled \/ CbCalledV1)
         \/ kind = "bluetooth" /\ (BleCalled \/ BleCalledPlain)
         \/ kind = "usb" /\ (UsbCalled \/ UsbCalledV1)
  PROVE  Called
<1> USE DialogueWords, HeadTyped
    DEF Receives, Heard, Hears, Misheard, Called, Decrypts
<1>1. CASE kind \in CbKinds /\ CbCalled
  BY <1>1, CbErrors DEF CbCalled, CbReads
<1>2. CASE CbCalledV1 \/ UsbCalledV1
  BY <1>2 DEF CbCalledV1, UsbCalledV1, chan
<1>3. CASE BleCalled
  BY <1>3 DEF BleCalled, BleReads
<1>4. CASE kind = "bluetooth" /\ BleCalledPlain
  BY <1>4 DEF BleCalledPlain, chan
<1>5. CASE UsbCalled
  BY <1>5 DEF UsbCalled, UsbReads
<1> QED BY <1>1, <1>2, <1>3, <1>4, <1>5

\* The answer to a call is returned, acknowledged when it is a prompt, or an error.
LEMMA CalledEffect ==
  ASSUME Typed, Called
  PROVE  HostEffect
<1>1. host.pc \in {"answer", "v1answer", "plainAnswer"} /\ host.pc \notin Rest /\ cred \in Creds
  BY PlacesKnown DEF Called, Typed
<1>2. CASE Misheard
  BY <1>1, <1>2, MisheardEffect
<1>3. CASE /\ Heard
           /\ host.pc = "answer" => Head(wire).ty = "enc"
           /\ host.pc = "v1answer" => Head(wire).ty = "v1"
           /\ host.pc = "plainAnswer" => kind = "bluetooth"
           /\ host' = [host EXCEPT !.pc = "idle", !.res = "ok", !.got = Head(wire).id]
           /\ thp' = Received \/ thp' = thp
           /\ UNCHANGED <<up, sent, faults, cred>>
  <2>1. Head(wire).id \in Nat
    BY <1>3, HeadTyped DEF Heard, Hears, FrameType
  <2>2. /\ host' \in HostType /\ host'.op = host.op /\ host'.id = host.id
        /\ host'.pc = "idle" /\ host'.got = Head(wire).id
    BY <1>3, <2>1, PlacesKnown DEF Typed, HostType, Results
  <2>3. thp' \in ThpType /\ Same(thp')
    BY <1>3, ReceivedSame, SameSelf
  <2>4. /\ UNCHANGED <<kind, dev, ops, session>> /\ link' \in BOOLEAN /\ session' \in SessionType
        /\ Hears
    BY <1>3, WorldKept DEF Heard
  <2>5. Returned
    BY <1>1, <1>3, <2>2, <2>3, <2>4 DEF Returned
  <2> QED
    BY <1>1, <1>3, <2>2, <2>3, <2>4, <2>5 DEF HostEffect, Base, Counted
<1> QED BY <1>2, <1>3 DEF Called

\* create_session sends its request on the channel of the state.
LEMMA CreateSessionEffect ==
  ASSUME Typed, (kind \in CbKinds /\ CbCreateSession) \/ BleCreateSession \/ UsbCreateSession
  PROVE  HostEffect
<1>1. /\ host.pc = "session" /\ host.pc \notin Rest /\ host.pc # "call"
      /\ cred \in Creds /\ thp \in ThpType /\ Same(thp) /\ UNCHANGED <<wire, world>>
  BY PlacesKnown, SameSelf
     DEF CbCreateSession, BleCreateSession, UsbCreateSession, Typed
<1>2. /\ UNCHANGED <<kind, dev, ops, session>> /\ link' \in BOOLEAN /\ session' \in SessionType
  BY <1>1, WorldKept
<1>3. {"ok", "notFound"} \subseteq Results /\ "created" \in Pcs /\ "createSession" \in Bodies
  BY PlacesKnown DEF Results, Bodies
<1>4. CASE (\E r \in {"ok", "notFound"} : Returns(r)) /\ UNCHANGED chan
  BY <1>1, <1>2, <1>3, <1>4, ReturnsEffect DEF chan, HostEffect, Base, Stops, Stopped, Counted
<1>5. CASE kind \in CbKinds /\ CbSend(NextSessionId(thp), "createSession", "created")
  BY <1>1, <1>3, <1>5, SessionIdSame, SpeaksEffect DEF CbSend, Leads
<1> QED
  BY <1>4, <1>5 DEF CbCreateSession, BleCreateSession, UsbCreateSession

\* The answer to the creation of a session.
SessionAnswered ==
    /\ host.pc = "created"
    /\ \/ Misheard
       \/ Decrypted /\ Refuses(Received)
       \/ /\ Decrypted /\ SendEncrypted(Received, "buttonAck", 0, Await("created"))
          /\ UNCHANGED cred
       \/ /\ Decrypted /\ kind \in CbKinds /\ thp' = Received
          /\ \E r \in {"ok", "sessionError"} : Returns(r)
          /\ UNCHANGED <<up, sent, faults, cred>>
       \/ /\ Decrypted /\ kind \notin CbKinds
          /\ host' = Await("grant") /\ thp' = [Received EXCEPT !.complete = TRUE]
          /\ UNCHANGED <<up, sent, faults, cred>>

\* Each transport takes the answer to create_session in the same shape.
LEMMA SessionAnsweredShape ==
  ASSUME Typed, (kind \in CbKinds /\ CbSessionAnswered)
                \/ (kind = "bluetooth" /\ BleSessionCreated) \/ (kind = "usb" /\ UsbSessionCreated)
  PROVE  SessionAnswered
<1>1. "sessionError" \in HostErrors
  BY ErrorsKnown
<1> USE <1>1, DialogueWords, HeadTyped
    DEF Receives, Decrypted, Decrypts, Heard, Hears, Misheard, SessionAnswered, Refuses
<1>2. CASE kind \in CbKinds /\ CbSessionAnswered
  BY <1>2, CbErrors DEF CbSessionAnswered, CbAnswered, CbReads, CbDecrypted, CbSend
<1>3. CASE kind = "bluetooth" /\ BleSessionCreated
  BY <1>3 DEF BleSessionCreated, BleAnswered, BleReads, BleFrameOk, BleDecrypted, BleSend,
              BleRefuse, CbKinds
<1>4. CASE kind = "usb" /\ UsbSessionCreated
  BY <1>4 DEF UsbSessionCreated, UsbAnswered, UsbReads, UsbSkips, UsbDecrypted, UsbSend,
              UsbRefuse, CbKinds
<1> QED BY <1>2, <1>3, <1>4

\* The answer to create_session ends the operation or is a prompt.
LEMMA SessionAnsweredEffect ==
  ASSUME Typed, SessionAnswered
  PROVE  HostEffect
<1>1. /\ host.pc = "created" /\ host.pc \notin Rest /\ host.pc # "call" /\ cred \in Creds
      /\ {"created", "grant"} \subseteq Pcs /\ "buttonAck" \in Bodies
      /\ {"ok", "sessionError"} \subseteq Results
  BY PlacesKnown DEF SessionAnswered, Typed, Bodies, Results, HostErrors
<1>2. Received \in ThpType /\ Same(Received)
  BY ReceivedSame
<1>3. CASE Misheard
  BY <1>1, <1>3, MisheardEffect
<1>4. CASE Decrypted /\ Refuses(Received)
  BY <1>1, <1>2, <1>4, RefusesEffect DEF Decrypted
<1>5. CASE /\ Decrypted /\ SendEncrypted(Received, "buttonAck", 0, Await("created"))
           /\ UNCHANGED cred
  BY <1>1, <1>2, <1>5, SpeaksEffect DEF Decrypted, Heard, Leads
<1>6. CASE /\ Decrypted /\ thp' = Received
           /\ \E r \in {"ok", "sessionError"} : Returns(r)
           /\ UNCHANGED <<up, sent, faults, cred>>
  BY <1>1, <1>2, <1>6, ReturnsEffect, WorldKept
     DEF Decrypted, Heard, HostEffect, Base, Stops, Stopped, Counted
<1>7. CASE /\ Decrypted /\ kind \notin CbKinds
           /\ host' = Await("grant") /\ thp' = [Received EXCEPT !.complete = TRUE]
           /\ UNCHANGED <<up, sent, faults, cred>>
  <2>1. /\ host' \in HostType /\ host'.op = host.op /\ host'.id = host.id
        /\ host'.pc = "grant" /\ host'.res = host.res
    BY <1>1, <1>7, AwaitEffect
  <2>2. /\ thp' \in ThpType /\ thp'.there = Received.there /\ thp'.chan = Received.chan
        /\ thp'.keys = Received.keys /\ thp'.send = Received.send /\ thp'.complete
        /\ thp'.paired = Received.paired
    BY <1>2, <1>7 DEF ThpType
  <2>3. UNCHANGED <<kind, dev, ops, session>> /\ link' \in BOOLEAN /\ session' \in SessionType
    BY <1>7, WorldKept DEF Decrypted, Heard
  <2>4. Completes
    BY <1>1, <1>2, <1>7, <2>1, <2>2, <2>3 DEF Completes, Same, Decrypted, Heard
  <2> QED
    BY <1>1, <1>7, <2>1, <2>2, <2>3, <2>4 DEF HostEffect, Base, Counted
<1> QED BY <1>3, <1>4, <1>5, <1>6, <1>7 DEF SessionAnswered

\* A release drops the session, and the state with it where the transport does.
LEMMA ReleaseEffect ==
  ASSUME Typed, (kind \in CbKinds /\ CbRelease) \/ (kind = "bluetooth" /\ BleRelease)
                \/ (kind = "usb" /\ UsbRelease)
  PROVE  HostEffect
<1>1. /\ host.pc = "release" /\ LineCleared /\ thp' = NoState /\ link' = FALSE
      /\ UNCHANGED <<kind, dev, sent, cred, ops>> /\ cred \in Creds
  BY DEF CbRelease, BleRelease, UsbRelease, Typed
<1>2. /\ \E r \in {"ok", "close"} : Returns(r)
      /\ ReleaseSession \/ (kind = "bluetooth" /\ session' = session)
  BY DEF CbRelease, BleRelease, UsbRelease
<1>3. Counted
  BY DEF CbRelease, BleRelease, UsbRelease, Counted, Fault
<1>4. {"ok", "close"} \subseteq Results
  BY DEF Results
<1>5. session' \in SessionType /\ (session'.cur = 0 \/ kind = "bluetooth")
  BY <1>2 DEF ReleaseSession, Typed, SessionType
<1>6. thp' \in ThpType /\ Blank(thp')
  BY <1>1, BlankStates DEF Typed
<1> QED
  BY <1>1, <1>2, <1>3, <1>4, <1>5, <1>6, ReturnsEffect DEF HostEffect, Base, Closes

-----------------------------------------------------------------------------
\* Every step of the host, over any transport, is one of the effects.
THEOREM HostStepEffect == Typed /\ HostStep => HostEffect
<1> SUFFICES ASSUME Typed, HostStep
             PROVE  HostEffect
  OBVIOUS
<1>1. CASE CallbackStep
  <2>1. kind \in CbKinds
    BY <1>1 DEF CallbackStep
  <2> QED
    BY <1>1, <2>1, OpenEffect, ProbeEffect, DetectedEffect, GrantedEffect, RecoverEffect,
       BeginEffect, AllocatedShape, AllocatedEffect, InitAnsweredShape, InitAnsweredEffect,
       CbConverses, ConversesEffect, CallEffect, CalledShape, CalledEffect,
       CreateSessionEffect, SessionAnsweredShape, SessionAnsweredEffect, ReleaseEffect
    DEF CallbackStep
<1>2. CASE BluetoothStep
  <2>1. kind = "bluetooth"
    BY <1>2 DEF BluetoothStep
  <2> QED
    BY <1>2, <2>1, OpenEffect, GrantedEffect, RecoverEffect,
       BeginEffect, AllocatedShape, AllocatedEffect, InitAnsweredShape, InitAnsweredEffect,
       BleConverses, ConversesEffect, CallEffect, CalledShape, CalledEffect,
       CreateSessionEffect, SessionAnsweredShape, SessionAnsweredEffect, ReleaseEffect
    DEF BluetoothStep
<1>3. CASE UsbStep
  <2>1. kind = "usb"
    BY <1>3 DEF UsbStep
  <2> QED
    BY <1>3, <2>1, OpenEffect, ProbeEffect, DetectedEffect, GrantedEffect, RecoverEffect,
       BeginEffect, AllocatedShape, AllocatedEffect, InitAnsweredShape, InitAnsweredEffect,
       UsbConverses, ConversesEffect, CallEffect, CalledShape, CalledEffect,
       CreateSessionEffect, SessionAnsweredShape, SessionAnsweredEffect, ReleaseEffect
    DEF UsbStep
<1> QED BY <1>1, <1>2, <1>3 DEF HostStep
=============================================================================
