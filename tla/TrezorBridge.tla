----------------------------- MODULE TrezorBridge ----------------------------
(***************************************************************************)
(* The Trezor bridge (trezor-bridge/src/lib.rs) as the application uses it    *)
(* (lib/services/hardware_wallet/trezor_device.dart) through the native       *)
(* layer.  On iOS native threads call the exported functions concurrently;    *)
(* on Android one executor thread runs the calls one after the other          *)
(* (TrezorMethodHandler.kt).  One mutex, SESSIONS, is held for the whole of   *)
(* an operation on a device, its prompts to the user included; connecting     *)
(* holds it only for the insertion of the finished session.  Connections and  *)
(* disconnections queue up behind each other in Dart.                        *)
(*                                                                          *)
(* A session is named by the number of its connection.  The device is        *)
(* external: it may answer anything, in at most MaxTurns turns an operation.  *)
(***************************************************************************)
EXTENDS SignTransaction

CONSTANTS
    Platforms,    \* the platforms a run looks at
    Threads,      \* the calls of the application that may be under way together
    Devices,      \* the device ids
    Stored,       \* the devices with a credential on file at the start, as sets of them
    Psbts,        \* the transactions to sign
    Firmware,     \* what the device may do besides signing: see Surprise
    MaxOps,       \* calls of the application
    MaxTurns,     \* answers of the device in one signing
    MaxPrompts    \* MAX_BUTTON_REQUESTS

Nobody == "nobody"

ASSUME BridgeAssumption == /\ {MaxOps, MaxTurns, MaxPrompts} \subseteq Nat
                           /\ Nobody \notin Threads \cup Devices
                           /\ Stored \subseteq SUBSET Devices
                           /\ Platforms \subseteq {"android", "ios"}

VARIABLES
    platform,    \* where the application runs
    pending,     \* PENDING, PENDING_USB: devices with registered callbacks
    sessions,    \* SESSIONS: the connection of a device, 0 for none
    holder,      \* the thread that holds SESSIONS
    prevStore,   \* PREV_TX_STORE: device -> input index -> raw transaction
    creds,       \* the credential file: of, the devices with a pairing credential in
                 \* it, and sound, whether every access to it has succeeded so far
    calls,       \* where the call of each thread stands
    connecting,  \* _connectionQueue: the thread whose turn it is
    active,      \* _activeDevice
    known,       \* devices the application has a TrezorDevice of
    conns,       \* connections made: whether Dart waited for each to the end
    ops          \* calls made

vars == <<platform, pending, sessions, holder, prevStore, creds, calls, connecting, active, known, conns, ops>>

NoPsbt == [inputs |-> <<>>, outputs |-> <<>>]
NoCall == [op |-> "none", dev |-> Nobody, pc |-> "idle", conn |-> 0, file |-> {},
           psbt |-> NoPsbt, next |-> 0, fetched |-> {}, outs |-> <<>>, turns |-> 0,
           sigs |-> {}, ser |-> <<>>, acked |-> <<NoTx, NoTx>>, res |-> "none"]

Init ==
    /\ platform \in Platforms
    /\ pending = {} /\ known = {} /\ holder = Nobody /\ connecting = Nobody /\ active = Nobody
    /\ sessions = [d \in Devices |-> 0]
    /\ prevStore = [d \in Devices |-> <<>>]
    /\ creds \in [of : Stored, sound : {TRUE}]
    /\ calls = [t \in Threads |-> NoCall]
    /\ conns = <<>> /\ ops = 0

me(t) == calls[t]
Moves(t, p) == calls' = [calls EXCEPT ![t].pc = p]

\* The call returns; what a signing returned is kept.
Returns(t, res) ==
    calls' = [calls EXCEPT ![t] = [NoCall EXCEPT !.res = IF me(t).op = "sign" THEN res ELSE "none"]]

Begins(t, op, d, psbt, p) ==
    /\ me(t).pc = "idle"
    /\ ops < MaxOps
    /\ ops' = ops + 1
    /\ calls' = [calls EXCEPT ![t] = [NoCall EXCEPT !.op = op, !.dev = d, !.psbt = psbt, !.pc = p]]
    /\ UNCHANGED <<platform, pending, sessions, holder, prevStore, creds, connecting, active, known,
                   conns>>

store == <<platform, prevStore, ops>>
dart == <<connecting, active, known>>

\* The stages of trezor_connect, and of an operation that works on a session.
Connecting == {"take", "acquire", "clear", "pair", "clearing", "saving", "initialize", "insert"}
Working == {"ask", "convert", "derive", "loop"}

\* Mutant: the executor has several threads.
MayRunBeside(t) == TRUE

\* On Android a call of the bridge waits for the one that the executor runs.
MayRun(t) ==
    platform = "android" =>
        \A u \in Threads \ {t} : me(u).pc \notin Connecting \cup Working \cup {"release"}
-----------------------------------------------------------------------------
(* ConnectedDevice::handle_response: prompts are answered until the answer     *)
(* comes, the device or the line fails, or the user gives up.                 *)

\* The callbacks of a connection that was cancelled refuse every read and write.
Responds(t) == conns[me(t).conn]

\* A prompt (button, PIN, passphrase) takes a turn, the last one is an error.
Prompts(t) ==
    /\ Responds(t)
    /\ IF me(t).turns + 1 < MaxPrompts
         THEN calls' = [calls EXCEPT ![t].turns = @ + 1] /\ UNCHANGED holder
         ELSE Returns(t, "failed") /\ holder' = Nobody

\* An error on the way: the transport's, the device's Failure, an answer that
\* does not decode, a PIN or passphrase that is not given.
DeviceFails(t) == Returns(t, "failed") /\ holder' = Nobody
-----------------------------------------------------------------------------
(* Connecting and disconnecting. *)

\* TrezorDevice.connect and disconnect wait for their turn.
Connect(t) == \E d \in Devices : Begins(t, "connect", d, NoPsbt, "queue")

Disconnect(t) == \E d \in known : Begins(t, "disconnect", d, NoPsbt, "queue")

\* _serializeConnection
MyTurn(t) == connecting = Nobody

\* connect first disconnects the device that is active; disconnect returns at
\* once for a device that is not.
Serialize(t) ==
    /\ me(t).pc = "queue"
    /\ MyTurn(t)
    /\ IF me(t).op = "disconnect" /\ active # me(t).dev
         THEN Returns(t, "ok") /\ UNCHANGED connecting
         ELSE /\ connecting' = t
              /\ Moves(t, IF active = Nobody THEN "register" ELSE "remove")
    /\ UNCHANGED <<pending, sessions, holder, creds, active, known, conns, store>>

\* Mutant: the map is not locked.
RemoveUnlocked(t) ==
    /\ me(t).pc = "remove"
    /\ sessions' = [sessions EXCEPT ![active] = 0]
    /\ Moves(t, "release")
    /\ UNCHANGED <<pending, holder, creds, dart, conns, store>>

\* trezor_disconnect: the session leaves the map ...
RemoveSession(t) ==
    /\ me(t).pc = "remove"
    /\ MayRun(t) /\ holder = Nobody
    /\ holder' = t
    /\ sessions' = [sessions EXCEPT ![active] = 0]
    /\ Moves(t, "release")
    /\ UNCHANGED <<pending, creds, dart, conns, store>>

\* ... and is released, an error of the release ignored, before the map is unlocked.
ReleaseSession(t) ==
    /\ me(t).pc = "release"
    /\ holder' = Nobody
    /\ active' = Nobody
    /\ IF me(t).op = "disconnect"
         THEN Returns(t, "ok") /\ connecting' = Nobody
         ELSE Moves(t, "register") /\ UNCHANGED connecting
    /\ UNCHANGED <<pending, sessions, creds, known, conns, store>>

\* Mutant: an error leaves the connection queue taken.
ConnectFailsInTurn(t) == Returns(t, "failed") /\ UNCHANGED connecting

\* trezor_connect goes on although the user has cancelled and Dart's turn is over.
Abandoned(t) == connecting # t

\* A connect that fails drops its transport and ends its turn, if it still has it.
ConnectFails(t) ==
    Returns(t, "failed") /\ connecting' = IF Abandoned(t) THEN connecting ELSE Nobody

\* TrezorMethodHandler.cancel, on Android, answers the pending connect at once; from
\* then on the callbacks refuse every read and write of trezor_connect, which the
\* executor still runs.  On iOS the answer waits for trezor_connect: see Insert.
Cancel(t) ==
    /\ platform = "android"
    /\ me(t).pc \in Connecting
    /\ connecting = t
    /\ connecting' = Nobody
    /\ UNCHANGED <<pending, sessions, holder, creds, calls, active, known, conns, store>>

\* trezor_register_callbacks and trezor_register_usb_callbacks, called by the
\* native layer before it calls trezor_connect; or the user has cancelled, or no
\* device was found.
Register(t) ==
    /\ me(t).pc = "register"
    /\ \/ /\ MayRun(t)
          /\ pending' = pending \cup {me(t).dev}
          /\ Moves(t, "take")
          /\ UNCHANGED connecting
       \/ ConnectFails(t) /\ UNCHANGED pending
    /\ UNCHANGED <<sessions, holder, creds, active, known, conns, store>>

\* trezor_connect takes the callbacks; a retry has to register them again.
TakeCallbacks(t) ==
    /\ me(t).pc = "take"
    /\ me(t).dev \in pending
    /\ pending' = pending \ {me(t).dev}
    /\ Moves(t, "acquire")
    /\ UNCHANGED <<sessions, holder, creds, dart, conns, store>>

\* load_creds_file: the file as it is, or an empty one when it cannot be read.
Loaded == {creds, [of |-> {}, sound |-> FALSE]}

\* CallbackTransport::acquire: the stored credential is known, rejected or not
\* there, or the handshake fails.
Acquire(t) ==
    /\ me(t).pc = "acquire"
    /\ \/ ConnectFails(t) /\ UNCHANGED creds
       \/ /\ ~Abandoned(t)
          /\ \E f \in Loaded :
               /\ creds' = [creds EXCEPT !.sound = f.sound]
               /\ \E p \in IF me(t).dev \in f.of THEN {"initialize", "clear"} ELSE {"pair"} : Moves(t, p)
          /\ UNCHANGED connecting
    /\ UNCHANGED <<pending, sessions, holder, active, known, conns, store>>

\* The pairing dialogue fails.
PairingFails(t) ==
    /\ me(t).pc = "pair"
    /\ ConnectFails(t)
    /\ UNCHANGED <<pending, sessions, holder, creds, active, known, conns, store>>

\* save_thp_credential and clear_thp_credential read the whole file ...
LoadCreds(t) ==
    /\ me(t).pc \in {"clear", "pair"}
    /\ \E f \in Loaded :
         /\ calls' = [calls EXCEPT ![t].file = f.of,
                                   ![t].pc = IF @ = "clear" THEN "clearing" ELSE "saving"]
         /\ creds' = [creds EXCEPT !.sound = f.sound]
    /\ UNCHANGED <<pending, sessions, holder, dart, conns, store>>

\* The file with the entry of this device taken out or put in.
Edited(t) == IF me(t).pc = "clearing" THEN me(t).file \ {me(t).dev}
                                      ELSE me(t).file \cup {me(t).dev}

\* Mutant: the file is written with the new entry alone.
SaveCredsAlone(t) ==
    /\ me(t).pc \in {"clearing", "saving"}
    /\ creds' = [creds EXCEPT !.of = IF me(t).pc = "clearing" THEN {} ELSE {me(t).dev}]
    /\ Moves(t, IF me(t).pc = "clearing" THEN "pair" ELSE "initialize")
    /\ UNCHANGED <<pending, sessions, holder, dart, conns, store>>

\* ... and write it back with one entry changed.  The file is truncated when it is
\* opened: what a failed write leaves does not parse and counts as empty.  A
\* file that cannot be opened stays as it is.  The caller hears of neither.
SaveCreds(t) ==
    /\ me(t).pc \in {"clearing", "saving"}
    /\ creds' \in {[creds EXCEPT !.of = Edited(t)], [creds EXCEPT !.sound = FALSE],
                   [of |-> {}, sound |-> FALSE]}
    /\ calls' = [calls EXCEPT ![t].file = {},
                              ![t].pc = IF @ = "clearing" THEN "pair" ELSE "initialize"]
    /\ UNCHANGED <<pending, sessions, holder, dart, conns, store>>

\* initialize, without the lock, and the state and version checks after it.
Initialize(t) ==
    /\ me(t).pc = "initialize"
    /\ \/ ~Abandoned(t) /\ Moves(t, "insert") /\ UNCHANGED connecting
       \/ ConnectFails(t)
    /\ UNCHANGED <<pending, sessions, holder, creds, active, known, conns, store>>

\* The session goes into the map.  Back in Dart the device is the active one or,
\* the user having cancelled meanwhile, it is disconnected again.  After a cancel
\* on Android it is the native layer that disconnects: it hands the whole answer
\* of trezor_connect to trezor_disconnect, which knows no such device and
\* leaves the session in the map.
Insert(t) ==
    /\ me(t).pc = "insert"
    /\ holder = Nobody
    /\ conns' = Append(conns, ~Abandoned(t))
    /\ sessions' = [sessions EXCEPT ![me(t).dev] = Len(conns) + 1]
    /\ \/ Abandoned(t) /\ Returns(t, "failed") /\ UNCHANGED dart
       \/ /\ ~Abandoned(t)
          /\ active' = me(t).dev
          /\ known' = known \cup {me(t).dev}
          /\ \/ Returns(t, "ok") /\ connecting' = Nobody
             \/ /\ calls' = [calls EXCEPT ![t].pc = "remove", ![t].op = "disconnect"]
                /\ UNCHANGED connecting
    /\ UNCHANGED <<pending, holder, creds, store>>
-----------------------------------------------------------------------------
(* The operations on a session. *)

\* trezor_get_xpub, trezor_get_fingerprint, trezor_create_session and
\* trezor_apply_settings each ask the device for one thing.
AskFor(t) == \E d \in known : Begins(t, "ask", d, NoPsbt, "lock")

\* TrezorSignViewModel.signTransaction: the previous transactions first.
Sign(t) == \E d \in known, p \in Psbts : Begins(t, "sign", d, p, "fetch")

\* The map is locked and the session looked up.
Lock(t) ==
    /\ me(t).pc = "lock"
    /\ MayRun(t) /\ holder = Nobody
    /\ IF sessions[me(t).dev] = 0
         THEN Returns(t, "failed") /\ UNCHANGED holder
         ELSE /\ holder' = t
              /\ calls' = [calls EXCEPT ![t].conn = sessions[me(t).dev],
                                        ![t].pc = IF me(t).op = "sign" THEN "convert" ELSE "ask"]
    /\ UNCHANGED <<pending, sessions, creds, dart, conns, store>>

\* The answer, through handle_response, ends the operation.
Ask(t) ==
    /\ me(t).pc = "ask"
    /\ \/ Responds(t) /\ Returns(t, "ok") /\ holder' = Nobody
       \/ Prompts(t)
       \/ DeviceFails(t)
    /\ UNCHANGED <<pending, sessions, creds, dart, conns, store>>
-----------------------------------------------------------------------------
(* Signing. *)

\* PrevTxFetcher.fetchAndInject asks for the transaction of every input in turn
\* and hands it to trezor_set_prev_tx_hex; a failed fetch is skipped.
FetchPrevTx(t) ==
    LET i == me(t).next + 1 IN
    /\ me(t).pc = "fetch"
    /\ i <= Len(me(t).psbt.inputs)
    /\ \/ /\ MayRun(t)
          /\ prevStore' = [prevStore EXCEPT ![me(t).dev] =
                  [j \in DOMAIN @ \cup {i} |-> IF j = i THEN me(t).psbt.inputs[i].prev ELSE @[j]]]
          /\ calls' = [calls EXCEPT ![t].next = i, ![t].fetched = @ \cup {i}]
       \/ UNCHANGED prevStore /\ calls' = [calls EXCEPT ![t].next = i]
    /\ UNCHANGED <<platform, pending, sessions, holder, creds, dart, conns, ops>>

CallSign(t) ==
    /\ me(t).pc = "fetch"
    /\ me(t).next = Len(me(t).psbt.inputs)
    /\ Moves(t, "lock")
    /\ UNCHANGED <<pending, sessions, holder, creds, dart, conns, store>>

\* inject_prev_txs_into_psbt, psbt_to_sign_tx_params and validate_sign_tx_params.
Convert(t) ==
    LET s == prevStore[me(t).dev]
        p == Injected(s, me(t).psbt)
    IN /\ me(t).pc = "convert"
       /\ IF InjectRefuses(s, me(t).psbt) THEN Returns(t, "outOfRange") /\ holder' = Nobody
          ELSE IF Validate(p) # "ok" THEN Returns(t, Validate(p)) /\ holder' = Nobody
          ELSE /\ calls' = [calls EXCEPT ![t].pc = "derive", ![t].psbt = p,
                                         ![t].fetched = {}, ![t].outs = SignOutputs(p)]
               /\ UNCHANGED holder
       /\ UNCHANGED <<pending, sessions, creds, dart, conns, store>>

\* What a device may do besides signing: ask for what does not exist, tell another
\* key or return another transaction than was asked for, or ask for the
\* passphrase while it signs.
Surprise(k) == k \in Firmware

\* The scripts that may come of the key the device tells for change output i.
KeyScripts(t, i) ==
    {me(t).psbt.outputs[i].script} \cup (IF Surprise("otherKey") THEN {"other"} ELSE {})

\* derive_output_scripts: one key after the other, through handle_response; the
\* script expected of a change output is the one of the key the device tells.
\* The SignTx request follows.
Derive(t) ==
    LET left == ToDerive(me(t).outs) IN
    /\ me(t).pc = "derive"
    /\ \/ /\ left = {}
          /\ calls' = [calls EXCEPT ![t].pc = "loop", ![t].turns = 0]
          /\ UNCHANGED holder
       \/ /\ left # {}
          /\ \/ /\ Responds(t)
                /\ \E s \in KeyScripts(t, Min(left)) :
                     calls' = [calls EXCEPT ![t].outs[Min(left)].script = s, ![t].turns = 0]
                /\ UNCHANGED holder
             \/ Prompts(t)
             \/ DeviceFails(t)
    /\ UNCHANGED <<pending, sessions, creds, dart, conns, store>>

Hashes == {NoTx} \cup DOMAIN TxInputs

\* An answer of the device to SignTx, TxAck or ButtonAck.
Answers(t) ==
    /\ me(t).pc = "loop"
    /\ Responds(t)
    /\ me(t).turns < MaxTurns

\* ButtonRequest: acknowledged, as often as it comes.
LoopPrompts(t) ==
    /\ Answers(t)
    /\ calls' = [calls EXCEPT ![t].turns = @ + 1]
    /\ UNCHANGED <<pending, sessions, holder, creds, dart, conns, store>>

\* Failure, or an error of the transport; the only way on after MaxTurns.
LoopFails(t) ==
    /\ me(t).pc = "loop"
    /\ DeviceFails(t)
    /\ UNCHANGED <<pending, sessions, creds, dart, conns, store>>

\* The signature a request brings along is kept, a foreign index ends the loop.
Signature(t) ==
    /\ Answers(t)
    /\ \E i \in 1..Len(me(t).psbt.inputs) + 1 :
         IF i <= Len(me(t).psbt.inputs)
           THEN /\ calls' = [calls EXCEPT ![t].turns = @ + 1, ![t].sigs = @ \cup {i}]
                /\ UNCHANGED holder
           ELSE Surprise("index") /\ Returns(t, "failed") /\ holder' = Nobody
    /\ UNCHANGED <<pending, sessions, creds, dart, conns, store>>

Part(part, ins, outs) == [part |-> part, ins |-> ins, outs |-> outs]

\* The parts of a transaction a device may send: those of the one it was asked
\* for and, by surprise, of one that differs.
DeviceParts(t) ==
    LET n == Len(me(t).psbt.inputs)
        outs == [i \in DOMAIN me(t).outs |-> [amount |-> me(t).outs[i].amount,
                                              script |-> me(t).outs[i].script]]
    IN {Part("inputs", n, <<>>), Part("outputs", 0, outs)} \cup
       (IF Surprise("otherTx")
          THEN {Part("inputs", n + 1, <<>>), Part("outputs", 0, [outs EXCEPT ![1].script = "other"])}
          ELSE {})

\* A part of the serialised transaction is appended to what has come before.
Serialized(t) ==
    /\ Answers(t)
    /\ \E part \in DeviceParts(t) :
         calls' = [calls EXCEPT ![t].turns = @ + 1, ![t].ser = Append(@, part)]
    /\ UNCHANGED <<pending, sessions, holder, creds, dart, conns, store>>

\* A request for data: acknowledged, or refused for an index, a transaction or
\* an original that is not there.
DataRequest(t) ==
    /\ Answers(t)
    /\ \E ty \in {"input", "output", "meta", "extraData", "orig", "payment"},
          h \in Hashes, i \in 1..2 :
         LET q == Request(ty, h, i) IN
         IF Answerable(q, me(t).psbt)
           THEN /\ calls' = [calls EXCEPT ![t].turns = @ + 1,
                               ![t].acked = <<h, AckSource(q, me(t).psbt)>>]
                /\ UNCHANGED holder
           ELSE Surprise("index") /\ Returns(t, "failed") /\ holder' = Nobody
    /\ UNCHANGED <<pending, sessions, creds, dart, conns, store>>

\* Txfinished, which is also what a message without a request type is taken for
\* (a PassphraseRequest is one); the transaction, if one came, is verified, and
\* the signatures go into the PSBT that is returned.
Finished(t) ==
    /\ me(t).pc = "loop"
    /\ Responds(t)
    /\ \/ me(t).sigs = DOMAIN me(t).psbt.inputs
       \/ Surprise("passphrase")
    /\ IF me(t).ser # <<>> /\ ~VerifySignedTx(me(t).ser, Len(me(t).psbt.inputs), me(t).outs)
         THEN Returns(t, "failed") ELSE Returns(t, "ok")
    /\ holder' = Nobody
    /\ UNCHANGED <<pending, sessions, creds, dart, conns, store>>
-----------------------------------------------------------------------------
Step(t) ==
    \/ Serialize(t) \/ RemoveSession(t) \/ ReleaseSession(t) \/ Register(t)
    \/ TakeCallbacks(t) \/ Acquire(t) \/ PairingFails(t) \/ LoadCreds(t) \/ SaveCreds(t)
    \/ Initialize(t) \/ Insert(t) \/ Lock(t) \/ Ask(t) \/ FetchPrevTx(t) \/ CallSign(t) \/ Convert(t)
    \/ Derive(t) \/ LoopPrompts(t) \/ LoopFails(t) \/ Signature(t) \/ Serialized(t)
    \/ DataRequest(t) \/ Finished(t)

Next ==
    \E t \in Threads : Connect(t) \/ Disconnect(t) \/ AskFor(t) \/ Sign(t) \/ Cancel(t) \/ Step(t)

\* A call that has begun goes on: the reads of the transport time out and the
\* user answers or cancels.  Nothing makes the application call,
\* or the user cancel.
Spec == Init /\ [][Next]_vars /\ \A t \in Threads : WF_vars(Step(t))
-----------------------------------------------------------------------------
\* SESSIONS is locked from the lookup to the answer: no connect, disconnect or
\* other operation touches the session an operation is talking to, prompts to
\* the user included.
SessionInUse ==
    \A t \in Threads : me(t).pc \in Working =>
        holder = t /\ me(t).conn # 0 /\ me(t).conn = sessions[me(t).dev]

\* The device the application takes for connected has its session, and it is the
\* one made for it: no cancelled connect, which may still run when the turn of
\* the next has come, and no failed or replaced one takes it away or puts a
\* dead session in its place.
ActiveHasSession ==
    connecting = Nobody /\ active # Nobody => sessions[active] # 0 /\ conns[sessions[active]]

\* validate_sign_tx_params: entries of PREV_TX_STORE left from another transaction,
\* or written meanwhile by another call, never reach the device under the id of
\* a transaction they are not.
PrevTxAuthentic == \A t \in Threads : me(t).acked[1] = me(t).acked[2]

\* The signing of t returns res in this step.
SigningReturns(t, res) == me(t).op = "sign" /\ me(t).pc # "idle" /\ calls'[t].res = res

\* The credential file is read, changed and written without a lock: as long as no
\* access to it fails, a credential disappears only when its own device has
\* rejected it.  (A failed read or write costs the credentials of every device.)
CredentialsKept ==
    [][creds'.sound => \A d \in creds.of \ creds'.of :
                         \E t \in Threads : me(t).dev = d /\ me(t).pc = "clearing"]_vars

\* Every call of the bridge returns: no path leaves SESSIONS or the connection
\* queue taken.
EveryCallReturns == \A t \in Threads : me(t).pc # "idle" ~> me(t).pc = "idle"

\* trezor_sign_transaction: "Returns the signed PSBT bytes": every input of it is
\* signed.
SignedIsSigned ==
    [][\A t \in Threads : SigningReturns(t, "ok") =>
         Applied(me(t).sigs, me(t).psbt) = DOMAIN me(t).psbt.inputs]_vars

\* trezor_set_prev_tx_hex "must be called for each input before
\* [trezor_sign_transaction]": when it has been, signing is not refused for want
\* of a previous transaction.
PreparedIsAccepted ==
    [][\A t \in Threads : me(t).fetched = DOMAIN me(t).psbt.inputs =>
         \A e \in {"outOfRange", "missing", "mismatch"} : ~SigningReturns(t, e)]_vars
=============================================================================
