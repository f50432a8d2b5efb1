------------------------- MODULE TrezorBridgeProofs --------------------------
(***************************************************************************)
(* For every number of threads and devices, every set of PSBTs and whatever   *)
(* the device answers: an operation keeps the session it looked up, and the   *)
(* active device has the one that was made for it.                           *)
(***************************************************************************)
EXTENDS TrezorBridge, TLAPS

\* A call has its fields.
IsCall(c) ==
    DOMAIN c = {"op", "dev", "pc", "conn", "file", "psbt", "next", "fetched", "outs", "turns",
                "sigs", "ser", "acked", "res"}

\* The stages of a connection with nothing connected, and those of a call that has
\* the turn in the connection queue whatever the platform.
Alone == Connecting \cup {"register"}
Turn == {"register", "remove", "release"}

\* The stages of a call that holds SESSIONS, and of one that Android's executor runs.
Locked == Working \cup {"release"}
Busy == Connecting \cup Working \cup {"release"}

Shape ==
    /\ calls = [t \in Threads |-> calls[t]]
    /\ \A t \in Threads : IsCall(calls[t]) /\ (calls[t].pc # "idle" => calls[t].dev \in Devices)
    /\ known \subseteq Devices
    /\ conns \in Seq(BOOLEAN)
    /\ sessions = [d \in Devices |-> sessions[d]]

\* One thread at a time has the lock, and one the turn to connect.  On iOS a
\* connection keeps its turn; on Android, where a cancel ends the turn, the
\* executor runs one call at a time.
Exclusive ==
    /\ \A t \in Threads : /\ me(t).pc \in Locked => holder = t
                          /\ me(t).pc \in Turn => connecting = t
                          /\ me(t).pc \in Connecting /\ platform # "android" => connecting = t
    /\ platform = "android" =>
         \A t, u \in Threads : me(t).pc \in Busy /\ me(u).pc \in Busy => t = u

\* The session of a working call is the one it looked up.
InUse ==
    \A t \in Threads : me(t).pc \in Working =>
        me(t).conn # 0 /\ me(t).conn = sessions[me(t).dev]

\* A connection is only built when the one before it is gone, and no device
\* becomes the active one while a cancelled connection still runs.
Replaced == \A t \in Threads : me(t).pc \in Alone => active = Nobody

\* Except while it is disconnected, the active device has the session made for it.
Owns ==
    active # Nobody /\ (\A t \in Threads : me(t).pc # "release") =>
        sessions[active] # 0 /\ conns[sessions[active]]

BridgeInv == Shape /\ Exclusive /\ InUse /\ Replaced /\ Owns
-----------------------------------------------------------------------------
LEMMA NoCallIsCall == IsCall(NoCall) /\ NoCall.pc = "idle"
  BY DEF IsCall, NoCall

LEMMA Stages ==
  /\ "idle" \notin Working \cup Turn \cup Alone \cup Busy \cup Locked
  /\ Working \cap (Turn \cup Alone) = {} /\ "release" \notin Working \cup Alone
  /\ "register" \notin Connecting \cup Busy \cup Locked
  /\ "remove" \notin Alone \cup Busy \cup Locked
  /\ Connecting \subseteq Alone \cap Busy /\ Working \subseteq Busy \cap Locked
  BY DEF Working, Connecting, Turn, Alone, Busy, Locked

LEMMA InitBridgeInv == Init => BridgeInv
<1> SUFFICES ASSUME Init PROVE BridgeInv
  OBVIOUS
<1>1. \A t \in Threads : calls[t] = NoCall
  BY DEF Init
<1>2. Shape
  BY <1>1, NoCallIsCall DEF Init, Shape
<1>3. \A t \in Threads : me(t).pc = "idle"
  BY <1>1, NoCallIsCall DEF me
<1>4. Exclusive /\ InUse /\ Replaced
  BY <1>3, Stages DEF Exclusive, InUse, Replaced
<1> QED BY <1>2, <1>4 DEF Init, BridgeInv, Owns

\* A step of one thread that leaves the sessions alone, and does not take the
\* lock, the turn or the executor from another thread.
LEMMA LocalStep ==
  ASSUME BridgeInv, NEW t \in Threads, NEW c,
         calls' = [calls EXCEPT ![t] = c], IsCall(c),
         UNCHANGED <<platform, sessions, active, known, conns>>,
         holder' = holder \/ holder \in {t, Nobody},
         connecting' = connecting \/ connecting \in {t, Nobody},
         c.pc # "idle" => c.dev \in Devices,
         c.pc \in Working => holder' = t /\ c.conn # 0 /\ c.conn = sessions[c.dev],
         c.pc \in Turn => connecting' = t,
         c.pc \in Connecting /\ platform # "android" => connecting' = t,
         c.pc \in Busy => me(t).pc \in Busy \/ MayRun(t),
         c.pc \in Alone => active = Nobody,
         c.pc # "release", me(t).pc # "release"
  PROVE  BridgeInv'
<1>1. calls'[t] = c /\ \A u \in Threads \ {t} : calls'[u] = calls[u]
  BY DEF BridgeInv, Shape
<1>2. Shape'
  BY <1>1 DEF BridgeInv, Shape
<1>3. Nobody \notin Threads
  BY BridgeAssumption
<1>4. Exclusive'
  <2>1. ASSUME NEW u \in Threads
        PROVE  /\ me(u)'.pc \in Locked => holder' = u
               /\ me(u)'.pc \in Turn => connecting' = u
               /\ me(u)'.pc \in Connecting /\ platform' # "android" => connecting' = u
    BY <1>1, <1>3, <2>1 DEF BridgeInv, Exclusive, me, Locked
  <2>2. ASSUME platform = "android", NEW u \in Threads \ {t}, me(u).pc \in Busy
        PROVE  c.pc \notin Busy
    BY <2>2 DEF BridgeInv, Exclusive, MayRun, Busy
  <2>3. ASSUME platform' = "android", NEW u \in Threads, NEW v \in Threads,
               me(u)'.pc \in Busy, me(v)'.pc \in Busy
        PROVE  u = v
    BY <1>1, <2>2, <2>3 DEF BridgeInv, Exclusive, me
  <2> QED BY <2>1, <2>3 DEF Exclusive
<1>5. InUse'
  BY <1>1 DEF BridgeInv, InUse, me
<1>6. Replaced'
  BY <1>1 DEF BridgeInv, Replaced, me
<1>7. Owns'
  BY <1>1 DEF BridgeInv, Owns, me
<1> QED BY <1>2, <1>4, <1>5, <1>6, <1>7 DEF BridgeInv

\* What EXCEPT leaves of a call when one field of it changes.
LEMMA FieldOfCall ==
  ASSUME NEW c, IsCall(c), NEW v
  PROVE  /\ IsCall([c EXCEPT !.pc = v]) /\ [c EXCEPT !.pc = v].pc = v
         /\ [c EXCEPT !.pc = v].dev = c.dev /\ [c EXCEPT !.pc = v].conn = c.conn
  BY DEF IsCall

\* Moves and Returns as updates of a whole call.
LEMMA MovesIsLocal ==
  ASSUME Shape, NEW t \in Threads, NEW p, Moves(t, p)
  PROVE  calls' = [calls EXCEPT ![t] = [me(t) EXCEPT !.pc = p]]
  BY DEF Shape, Moves, me

LEMMA ReturnsIsLocal ==
  ASSUME NEW t, NEW res, Returns(t, res)
  PROVE  \E c : calls' = [calls EXCEPT ![t] = c] /\ IsCall(c) /\ c.pc = "idle"
<1> DEFINE r == IF me(t).op = "sign" THEN res ELSE "none"
<1> HIDE DEF r
<1>1. calls' = [calls EXCEPT ![t] = [NoCall EXCEPT !.res = r]]
  BY DEF Returns, r
<1>2. IsCall([NoCall EXCEPT !.res = r]) /\ [NoCall EXCEPT !.res = r].pc = "idle"
  BY DEF IsCall, NoCall
<1> QED BY <1>1, <1>2

\* A call returns, and gives back the lock or the turn if it has them.
LEMMA ReturnStep ==
  ASSUME BridgeInv, NEW t \in Threads, NEW res, Returns(t, res),
         UNCHANGED <<platform, sessions, active, known, conns>>,
         holder' = holder \/ holder \in {t, Nobody},
         connecting' = connecting \/ connecting \in {t, Nobody},
         me(t).pc # "release"
  PROVE  BridgeInv'
<1>1. PICK c : calls' = [calls EXCEPT ![t] = c] /\ IsCall(c) /\ c.pc = "idle"
  BY ReturnsIsLocal
<1>2. c.pc \notin Working \cup Turn \cup Alone \cup Busy /\ c.pc \notin Connecting /\ c.pc # "release"
  BY <1>1, Stages
<1> QED BY <1>1, <1>2, LocalStep

\* A call that is not working moves on, within its turn to connect if it has it.
LEMMA MoveStep ==
  ASSUME BridgeInv, NEW t \in Threads, NEW p, Moves(t, p),
         UNCHANGED <<platform, sessions, active, known, conns, holder>>,
         connecting' = connecting \/ connecting \in {t, Nobody},
         me(t).pc \notin {"idle", "release"}, p \notin Working, p # "release",
         p \in Turn => connecting' = t,
         p \in Connecting /\ platform # "android" => connecting' = t,
         p \in Busy => me(t).pc \in Busy \/ MayRun(t),
         p \in Alone => active = Nobody
  PROVE  BridgeInv'
<1> DEFINE c == [me(t) EXCEPT !.pc = p]
<1>1. calls' = [calls EXCEPT ![t] = c]
  BY MovesIsLocal DEF BridgeInv
<1>2. IsCall(c) /\ c.pc = p /\ c.dev = me(t).dev
  BY FieldOfCall DEF BridgeInv, Shape, me
<1>3. c.dev \in Devices
  BY <1>2 DEF BridgeInv, Shape, me
<1> HIDE DEF c
<1> QED BY <1>1, <1>2, <1>3, LocalStep

\* A working call goes on with the session it has.
LEMMA WorkStep ==
  ASSUME BridgeInv, NEW t \in Threads, me(t).pc \in Working, NEW c,
         calls' = [calls EXCEPT ![t] = c], IsCall(c),
         c.pc \in Working, c.dev = me(t).dev, c.conn = me(t).conn,
         UNCHANGED <<platform, sessions, active, known, conns, holder, connecting>>
  PROVE  BridgeInv'
<1>1. holder = t /\ c.conn # 0 /\ c.conn = sessions[c.dev]
  BY DEF BridgeInv, Exclusive, InUse, Locked
<1>2. c.pc \notin Turn /\ c.pc \notin Alone /\ c.pc \notin Connecting /\ c.pc # "release"
  BY Stages
<1>3. me(t).pc \in Busy /\ me(t).pc # "idle" /\ me(t).pc # "release"
  BY Stages
<1>4. c.dev \in Devices
  BY <1>3 DEF BridgeInv, Shape, me
<1> QED BY <1>1, <1>2, <1>3, <1>4, LocalStep

\* A working call holds the lock, which it may give back.
LEMMA WorkReturns ==
  ASSUME BridgeInv, NEW t \in Threads, me(t).pc \in Working, NEW res, Returns(t, res),
         UNCHANGED <<platform, sessions, active, known, conns, connecting>>
  PROVE  BridgeInv'
<1>1. holder = t
  BY DEF BridgeInv, Exclusive, Locked
<1>2. me(t).pc # "release"
  BY Stages
<1> QED BY <1>1, <1>2, ReturnStep
-----------------------------------------------------------------------------
\* A new call, before it has a lock or a turn.
LEMMA BeginStep ==
  ASSUME BridgeInv, NEW t \in Threads, NEW op, NEW d \in Devices, NEW psbt,
         NEW p \in {"queue", "lock", "fetch"}, Begins(t, op, d, psbt, p)
  PROVE  BridgeInv'
<1> DEFINE c == [NoCall EXCEPT !.op = op, !.dev = d, !.psbt = psbt, !.pc = p]
<1>1. /\ calls' = [calls EXCEPT ![t] = c] /\ me(t).pc = "idle"
      /\ UNCHANGED <<platform, sessions, active, known, conns, holder, connecting>>
  BY DEF Begins
<1>3. IsCall(c) /\ c.pc = p /\ c.dev = d
  BY DEF IsCall, NoCall
<1>4. p \notin Working \cup Turn \cup Alone \cup Busy \cup Connecting /\ p # "release"
  BY DEF Working, Turn, Alone, Busy, Connecting
<1> HIDE DEF c
<1> QED BY <1>1, <1>3, <1>4, LocalStep

\* The application calls.
LEMMA BeginsInv ==
  ASSUME BridgeInv, NEW t \in Threads, Connect(t) \/ Disconnect(t) \/ AskFor(t) \/ Sign(t)
  PROVE  BridgeInv'
<1>0. known \subseteq Devices
  BY DEF BridgeInv, Shape
<1>1. CASE Connect(t)
  BY <1>1, BeginStep DEF Connect
<1>2. CASE Disconnect(t)
  BY <1>0, <1>2, BeginStep DEF Disconnect
<1>3. CASE AskFor(t)
  BY <1>0, <1>3, BeginStep DEF AskFor
<1>4. CASE Sign(t)
  BY <1>0, <1>4, BeginStep DEF Sign
<1> QED BY <1>1, <1>2, <1>3, <1>4

\* connect and disconnect get their turn.
LEMMA SerializeInv ==
  ASSUME BridgeInv, NEW t \in Threads, Serialize(t)
  PROVE  BridgeInv'
<1>1. /\ connecting = Nobody /\ me(t).pc = "queue"
      /\ UNCHANGED <<platform, sessions, active, known, conns, holder>>
  BY DEF Serialize, MyTurn, store
<1>2. CASE Returns(t, "ok") /\ UNCHANGED connecting
  BY <1>1, <1>2, ReturnStep
<1>3. CASE connecting' = t /\ Moves(t, IF active = Nobody THEN "register" ELSE "remove")
  <2>1. CASE active = Nobody
    BY <1>1, <1>3, <2>1, Stages, MoveStep
  <2>2. CASE active # Nobody
    BY <1>1, <1>3, <2>2, Stages, MoveStep
  <2> QED BY <2>1, <2>2
<1> QED BY <1>2, <1>3 DEF Serialize

\* A cancel on Android ends the turn of a connection that goes on.
LEMMA CancelInv ==
  ASSUME BridgeInv, NEW t \in Threads, Cancel(t)
  PROVE  BridgeInv'
<1>1. /\ platform = "android" /\ me(t).pc \in Connecting /\ connecting = t
      /\ UNCHANGED <<platform, sessions, holder, calls, active, known, conns>>
  BY DEF Cancel, store
<1>2. \A u \in Threads : me(u).pc \notin Turn
  BY <1>1 DEF BridgeInv, Exclusive, Connecting, Turn
<1>3. Exclusive'
  BY <1>1, <1>2 DEF BridgeInv, Exclusive, me
<1> QED BY <1>1, <1>3 DEF BridgeInv, Shape, InUse, Replaced, Owns, me

LEMMA RemoveSessionInv ==
  ASSUME BridgeInv, NEW t \in Threads, RemoveSession(t)
  PROVE  BridgeInv'
<1> DEFINE c == [me(t) EXCEPT !.pc = "release"]
<1>1. /\ me(t).pc = "remove" /\ holder = Nobody /\ holder' = t /\ MayRun(t)
      /\ sessions' = [sessions EXCEPT ![active] = 0]
      /\ UNCHANGED <<platform, active, known, conns, connecting>>
  BY DEF RemoveSession, dart, store
<1>2. calls' = [calls EXCEPT ![t] = c]
  BY MovesIsLocal DEF BridgeInv, RemoveSession
<1>3. IsCall(c) /\ c.pc = "release" /\ c.dev = me(t).dev
  BY FieldOfCall DEF BridgeInv, Shape, me
<1> HIDE DEF c
<1>4. calls'[t] = c /\ \A u \in Threads \ {t} : calls'[u] = calls[u]
  BY <1>2 DEF BridgeInv, Shape
<1>5. connecting = t
  BY <1>1 DEF BridgeInv, Exclusive, Turn
<1>6. \A u \in Threads : me(u).pc \notin Locked
  BY <1>1, BridgeAssumption DEF BridgeInv, Exclusive
<1>8. Shape'
  BY <1>1, <1>2, <1>3, <1>4 DEF BridgeInv, Shape, me
<1>9. Exclusive'
  <2>1. platform = "android" => \A u \in Threads \ {t} : me(u).pc \notin Busy
    BY <1>1 DEF MayRun, Busy
  <2>2. c.pc \notin Connecting
    BY <1>3 DEF Connecting
  <2> QED BY <1>1, <1>3, <1>4, <1>5, <1>6, <2>1, <2>2 DEF BridgeInv, Exclusive, me
<1>10. InUse'
  BY <1>3, <1>4, <1>6, Stages DEF InUse, me, Locked
<1>11. Replaced' /\ Owns'
  BY <1>1, <1>3, <1>4, Stages DEF BridgeInv, Replaced, Owns, me
<1> QED BY <1>8, <1>9, <1>10, <1>11 DEF BridgeInv

LEMMA ReleaseSessionInv ==
  ASSUME BridgeInv, NEW t \in Threads, ReleaseSession(t)
  PROVE  BridgeInv'
<1>1. /\ me(t).pc = "release" /\ holder' = Nobody /\ active' = Nobody
      /\ UNCHANGED <<platform, sessions, known, conns>>
  BY DEF ReleaseSession, store
<1>2. holder = t /\ connecting = t /\ me(t).dev \in Devices
  BY <1>1 DEF BridgeInv, Shape, Exclusive, Locked, Turn, me
<1>3. \E c : /\ calls' = [calls EXCEPT ![t] = c] /\ IsCall(c)
             /\ \/ c.pc = "idle" /\ connecting' = Nobody
                \/ c.pc = "register" /\ connecting' = connecting /\ c.dev = me(t).dev
  <2>1. CASE me(t).op = "disconnect"
    <3>1. Returns(t, "ok") /\ connecting' = Nobody
      BY <2>1 DEF ReleaseSession
    <3> QED BY <3>1, ReturnsIsLocal
  <2>2. CASE me(t).op # "disconnect"
    <3>1. Moves(t, "register") /\ connecting' = connecting
      BY <2>2 DEF ReleaseSession
    <3>2. calls' = [calls EXCEPT ![t] = [me(t) EXCEPT !.pc = "register"]]
      BY <3>1, MovesIsLocal DEF BridgeInv
    <3>3. /\ IsCall([me(t) EXCEPT !.pc = "register"])
          /\ [me(t) EXCEPT !.pc = "register"].pc = "register"
          /\ [me(t) EXCEPT !.pc = "register"].dev = me(t).dev
      BY FieldOfCall DEF BridgeInv, Shape, me
    <3> QED BY <3>1, <3>2, <3>3
  <2> QED BY <2>1, <2>2
<1>4. PICK c : /\ calls' = [calls EXCEPT ![t] = c] /\ IsCall(c)
               /\ \/ c.pc = "idle" /\ connecting' = Nobody
                  \/ c.pc = "register" /\ connecting' = connecting /\ c.dev = me(t).dev
  BY <1>3
<1>5. calls'[t] = c /\ \A u \in Threads \ {t} : calls'[u] = calls[u]
  BY <1>4 DEF BridgeInv, Shape
<1>6. \A u \in Threads \ {t} :
        /\ me(u).pc \notin Locked /\ me(u).pc \notin Turn
        /\ platform # "android" => me(u).pc \notin Connecting
  BY <1>2 DEF BridgeInv, Exclusive
<1>7. /\ c.pc \notin Locked \cup Connecting \cup Busy /\ c.pc # "release"
      /\ c.pc \in Turn => connecting' = t
  BY <1>2, <1>4, Stages
<1>8. Shape'
  BY <1>1, <1>2, <1>4, <1>5 DEF BridgeInv, Shape
<1>9. Exclusive'
  <2>1. ASSUME NEW u \in Threads
        PROVE  /\ calls'[u].pc \notin Locked
               /\ calls'[u].pc \in Turn => connecting' = u
               /\ calls'[u].pc \in Connecting /\ platform # "android" => connecting' = u
    <3>1. CASE u = t
      BY <1>5, <1>7, <3>1
    <3>2. CASE u # t
      BY <1>5, <1>6, <3>2 DEF me
    <3> QED BY <3>1, <3>2
  <2>2. ASSUME platform = "android", NEW u \in Threads PROVE calls'[u].pc \notin Busy
    <3>1. me(t).pc \in Busy
      BY <1>1 DEF Busy
    <3>2. CASE u # t
      BY <1>5, <2>2, <3>1, <3>2 DEF BridgeInv, Exclusive, me
    <3> QED BY <1>5, <1>7, <3>2
  <2> QED BY <1>1, <2>1, <2>2 DEF Exclusive, me
<1>10. \A u \in Threads : calls'[u].pc \notin Working
  BY <1>5, <1>6, <1>7, Stages DEF me
<1>11. InUse' /\ Replaced' /\ Owns'
  BY <1>1, <1>10 DEF InUse, Replaced, Owns, me
<1> QED BY <1>8, <1>9, <1>11 DEF BridgeInv

\* A connect that fails ends the turn it has.
LEMMA ConnectFailsStep ==
  ASSUME BridgeInv, NEW t \in Threads, ConnectFails(t), me(t).pc # "release",
         UNCHANGED <<platform, sessions, active, known, conns, holder>>
  PROVE  BridgeInv'
  BY ReturnStep DEF ConnectFails, Abandoned

\* The stages of a connection before its session is there.
LEMMA ConnectingInv ==
  ASSUME BridgeInv, NEW t \in Threads,
         \/ Register(t) \/ TakeCallbacks(t) \/ Acquire(t) \/ PairingFails(t) \/ LoadCreds(t)
         \/ SaveCreds(t) \/ Initialize(t)
  PROVE  BridgeInv'
<1>1. me(t).pc \in Alone /\ UNCHANGED <<platform, sessions, active, known, conns, holder>>
  BY DEF Register, TakeCallbacks, Acquire, PairingFails, LoadCreds, SaveCreds, Initialize, Alone,
         Connecting, dart, store
<1>2. /\ active = Nobody /\ me(t).pc \notin {"idle", "release"} /\ me(t).dev \in Devices
      /\ platform # "android" => connecting = t
  <2>1. active = Nobody /\ me(t).pc \notin {"idle", "release"}
    BY <1>1, Stages DEF BridgeInv, Replaced
  <2>2. platform # "android" => connecting = t
    BY <1>1 DEF BridgeInv, Exclusive, Alone, Turn
  <2> QED BY <2>1, <2>2 DEF BridgeInv, Shape, me
<1>3. ASSUME ConnectFails(t) PROVE BridgeInv'
  BY <1>1, <1>2, <1>3, ConnectFailsStep
<1>4. ASSUME NEW p \in Connecting, Moves(t, p), UNCHANGED connecting,
             me(t).pc \in Connecting \/ MayRun(t)
      PROVE  BridgeInv'
  <2>1. p \notin Working /\ p # "release" /\ p \notin Turn /\ Connecting \subseteq Busy
    BY Stages DEF Turn, Connecting
  <2> QED BY <1>1, <1>2, <1>4, <2>1, MoveStep
<1>5. CASE Register(t)
  BY <1>3, <1>4, <1>5 DEF Register, Connecting
<1>6. CASE TakeCallbacks(t) \/ Acquire(t) \/ PairingFails(t) \/ Initialize(t)
  BY <1>3, <1>4, <1>6 DEF TakeCallbacks, Acquire, PairingFails, Initialize, dart, Connecting
<1>7. ASSUME NEW c, calls' = [calls EXCEPT ![t] = c], IsCall(c), c.pc \in Connecting,
             c.dev = me(t).dev, UNCHANGED connecting, me(t).pc \in Connecting
      PROVE  BridgeInv'
  <2>1. c.pc \notin Working /\ c.pc # "release" /\ c.pc \notin Turn /\ me(t).pc \in Busy
    BY <1>7, Stages DEF Turn, Connecting
  <2> QED BY <1>1, <1>2, <1>7, <2>1, LocalStep
<1>8. CASE LoadCreds(t)
  <2>1. PICK f \in Loaded :
          calls' = [calls EXCEPT ![t].file = f.of,
                                 ![t].pc = IF @ = "clear" THEN "clearing" ELSE "saving"]
    BY <1>8 DEF LoadCreds
  <2> DEFINE c == [me(t) EXCEPT !.file = f.of,
                                !.pc = IF @ = "clear" THEN "clearing" ELSE "saving"]
  <2>2. calls' = [calls EXCEPT ![t] = c]
    BY <2>1 DEF BridgeInv, Shape, IsCall, me
  <2>3. IsCall(c) /\ c.pc \in Connecting /\ c.dev = me(t).dev
    BY DEF BridgeInv, Shape, IsCall, me, Connecting
  <2>4. me(t).pc \in Connecting /\ UNCHANGED connecting
    BY <1>8 DEF LoadCreds, Connecting, dart
  <2> HIDE DEF c
  <2> QED BY <1>7, <2>2, <2>3, <2>4
<1>9. CASE SaveCreds(t)
  <2> DEFINE c == [me(t) EXCEPT !.file = {},
                                !.pc = IF @ = "clearing" THEN "pair" ELSE "initialize"]
  <2>1. calls' = [calls EXCEPT ![t] = c]
    BY <1>9 DEF SaveCreds, BridgeInv, Shape, IsCall, me
  <2>2. IsCall(c) /\ c.pc \in Connecting /\ c.dev = me(t).dev
    BY DEF BridgeInv, Shape, IsCall, me, Connecting
  <2>3. me(t).pc \in Connecting /\ UNCHANGED connecting
    BY <1>9 DEF SaveCreds, Connecting, dart
  <2> HIDE DEF c
  <2> QED BY <1>7, <2>1, <2>2, <2>3
<1> QED BY <1>5, <1>6, <1>8, <1>9

\* The session of a connection goes into the map: nobody works, and no other
\* connection is under way.
LEMMA InsertInv ==
  ASSUME BridgeInv, NEW t \in Threads, Insert(t)
  PROVE  BridgeInv'
<1>1. /\ me(t).pc = "insert" /\ holder = Nobody /\ UNCHANGED <<holder, platform>>
      /\ conns' = Append(conns, ~Abandoned(t))
      /\ sessions' = [sessions EXCEPT ![me(t).dev] = Len(conns) + 1]
  BY DEF Insert, store
<1>2. /\ active = Nobody /\ me(t).dev \in Devices
      /\ \A u \in Threads : me(u).pc \notin Locked
  BY <1>1, BridgeAssumption DEF BridgeInv, Shape, Replaced, Exclusive, Alone, Connecting, me
<1>3. Len(conns) \in Nat /\ Len(conns) + 1 # 0
  BY DEF BridgeInv, Shape
<1>4. /\ conns' \in Seq(BOOLEAN) /\ sessions' = [d \in Devices |-> sessions'[d]]
      /\ conns'[Len(conns) + 1] = ~Abandoned(t) /\ sessions'[me(t).dev] = Len(conns) + 1
  BY <1>1, <1>2 DEF BridgeInv, Shape
<1>5. PICK c : /\ calls' = [calls EXCEPT ![t] = c] /\ IsCall(c)
               /\ \/ c.pc = "idle" /\ Abandoned(t) /\ UNCHANGED dart
                  \/ /\ c.pc = "idle" /\ connecting' = Nobody
                     /\ ~Abandoned(t) /\ active' = me(t).dev /\ known' = known \cup {me(t).dev}
                  \/ /\ c.pc = "remove" /\ c.dev = me(t).dev /\ connecting' = connecting
                     /\ ~Abandoned(t) /\ active' = me(t).dev /\ known' = known \cup {me(t).dev}
  <2>1. CASE Abandoned(t) /\ Returns(t, "failed") /\ UNCHANGED dart
    BY <2>1, ReturnsIsLocal
  <2>2. CASE /\ Returns(t, "ok") /\ connecting' = Nobody
             /\ ~Abandoned(t) /\ active' = me(t).dev /\ known' = known \cup {me(t).dev}
    BY <2>2, ReturnsIsLocal
  <2>3. CASE /\ calls' = [calls EXCEPT ![t].pc = "remove", ![t].op = "disconnect"]
             /\ UNCHANGED connecting
             /\ ~Abandoned(t) /\ active' = me(t).dev /\ known' = known \cup {me(t).dev}
    <3> DEFINE e == [me(t) EXCEPT !.pc = "remove", !.op = "disconnect"]
    <3>1. calls' = [calls EXCEPT ![t] = e]
      BY <2>3 DEF BridgeInv, Shape, IsCall, me
    <3>2. IsCall(e) /\ e.pc = "remove" /\ e.dev = me(t).dev
      BY DEF BridgeInv, Shape, IsCall, me
    <3> HIDE DEF e
    <3> QED BY <2>3, <3>1, <3>2
  <2> QED BY <2>1, <2>2, <2>3 DEF Insert
<1>6. calls'[t] = c /\ \A u \in Threads \ {t} : calls'[u] = calls[u]
  BY <1>5 DEF BridgeInv, Shape
<1>7. /\ c.pc \notin Locked \cup Alone \cup Busy \cup Connecting /\ c.pc # "release"
      /\ c.pc \in Turn => c.pc = "remove"
  BY <1>5, Stages DEF Turn
<1>8. Shape'
  <2>1. known' \subseteq Devices
    BY <1>2, <1>5 DEF BridgeInv, Shape, dart
  <2>2. calls' = [u \in Threads |-> calls'[u]]
    BY <1>5 DEF BridgeInv, Shape
  <2>3. \A u \in Threads : IsCall(calls'[u]) /\ (calls'[u].pc # "idle" => calls'[u].dev \in Devices)
    BY <1>2, <1>5, <1>6 DEF BridgeInv, Shape
  <2> QED BY <1>4, <2>1, <2>2, <2>3 DEF Shape
<1>9. CASE Abandoned(t)
  <2>1. UNCHANGED <<connecting, active>>
    BY <1>5, <1>9 DEF dart
  <2>2. c.pc \notin Turn
    BY <1>5, <1>9, Stages DEF Turn
  <2>3. Exclusive'
    BY <1>1, <1>6, <1>7, <2>1, <2>2 DEF BridgeInv, Exclusive, me
  <2>4. InUse' /\ Replaced' /\ Owns'
    BY <1>2, <1>6, <1>7, <2>1, Stages DEF BridgeInv, InUse, Replaced, Owns, me
  <2> QED BY <1>8, <2>3, <2>4 DEF BridgeInv
<1>10. CASE ~Abandoned(t)
  <2>1. connecting = t /\ active' = me(t).dev /\ (c.pc \in Turn => connecting' = t)
    BY <1>5, <1>7, <1>10, Stages DEF Abandoned
  <2>2. \A u \in Threads \ {t} : me(u).pc \notin Turn /\ me(u).pc \notin Connecting
    BY <1>1, <2>1, Stages DEF BridgeInv, Exclusive, Busy, Connecting
  <2>3. Exclusive'
    BY <1>1, <1>2, <1>6, <1>7, <2>1, <2>2 DEF BridgeInv, Exclusive, me
  <2>4. \A u \in Threads : calls'[u].pc \notin Alone
    BY <1>6, <1>7, <2>2 DEF Alone, Turn, me
  <2>5. InUse' /\ Replaced'
    BY <1>2, <1>6, <1>7, <2>4, Stages DEF InUse, Replaced, me
  <2>6. Owns'
    BY <1>3, <1>4, <1>10, <2>1 DEF Owns
  <2> QED BY <1>8, <2>3, <2>5, <2>6 DEF BridgeInv
<1> QED BY <1>9, <1>10
-----------------------------------------------------------------------------
\* The lookup: the lock is free, so nobody else works.
LEMMA LockInv ==
  ASSUME BridgeInv, NEW t \in Threads, Lock(t)
  PROVE  BridgeInv'
<1>1. /\ holder = Nobody /\ MayRun(t) /\ me(t).pc = "lock"
      /\ UNCHANGED <<platform, sessions, active, known, conns, connecting>>
  BY DEF Lock, dart, store
<1>2. CASE sessions[me(t).dev] = 0
  <2>1. Returns(t, "failed") /\ UNCHANGED holder
    BY <1>2 DEF Lock
  <2> QED BY <1>1, <2>1, ReturnStep
<1>3. CASE sessions[me(t).dev] # 0
  <2> DEFINE c == [me(t) EXCEPT !.conn = sessions[me(t).dev],
                                !.pc = IF me(t).op = "sign" THEN "convert" ELSE "ask"]
  <2>1. calls' = [calls EXCEPT ![t] = c] /\ holder' = t
    BY <1>3 DEF Lock, BridgeInv, Shape, IsCall, me
  <2>2. IsCall(c) /\ c.pc \in Working /\ c.conn = sessions[me(t).dev] /\ c.dev = me(t).dev
    BY DEF BridgeInv, Shape, IsCall, me, Working
  <2> HIDE DEF c
  <2>3. c.pc \notin Turn /\ c.pc \notin Alone /\ c.pc \notin Connecting /\ c.pc # "release"
    BY <2>2, Stages
  <2>4. me(t).dev \in Devices
    BY <1>1 DEF BridgeInv, Shape, me
  <2> QED BY <1>1, <1>3, <2>1, <2>2, <2>3, <2>4, LocalStep
<1> QED BY <1>2, <1>3

\* A field of a working call changes.
LEMMA AskInv ==
  ASSUME BridgeInv, NEW t \in Threads, me(t).pc \in Working,
         UNCHANGED <<platform, sessions, active, known, conns, connecting>>,
         \/ \E res : Returns(t, res)
         \/ Prompts(t)
         \/ DeviceFails(t)
  PROVE  BridgeInv'
<1>1. CASE \E res : Returns(t, res)
  BY <1>1, WorkReturns
<1>2. CASE DeviceFails(t)
  BY <1>2, WorkReturns DEF DeviceFails
<1>3. CASE Prompts(t)
  <2>1. CASE Returns(t, "failed")
    BY <2>1, WorkReturns
  <2>2. CASE calls' = [calls EXCEPT ![t].turns = @ + 1] /\ UNCHANGED holder
    <3> DEFINE c == [me(t) EXCEPT !.turns = @ + 1]
    <3>1. calls' = [calls EXCEPT ![t] = c]
      BY <2>2 DEF BridgeInv, Shape, IsCall, me
    <3>2. IsCall(c) /\ c.pc = me(t).pc /\ c.dev = me(t).dev /\ c.conn = me(t).conn
      BY DEF BridgeInv, Shape, IsCall, me
    <3> HIDE DEF c
    <3> QED BY <2>2, <3>1, <3>2, WorkStep
  <2> QED BY <1>3, <2>1, <2>2 DEF Prompts
<1> QED BY <1>1, <1>2, <1>3

\* The previous transactions are fetched without the lock.
LEMMA FetchInv ==
  ASSUME BridgeInv, NEW t \in Threads, FetchPrevTx(t) \/ CallSign(t)
  PROVE  BridgeInv'
<1>1. me(t).pc = "fetch" /\ UNCHANGED <<platform, sessions, active, known, conns, holder, connecting>>
  BY DEF FetchPrevTx, CallSign, dart, store
<1>2. /\ me(t).pc \notin Working \cup Turn \cup Alone \cup Busy \cup Connecting
      /\ me(t).dev \in Devices
  BY <1>1 DEF Working, Turn, Alone, Busy, Connecting, BridgeInv, Shape, me
<1>3. ASSUME NEW c, calls' = [calls EXCEPT ![t] = c], IsCall(c), c.pc = me(t).pc, c.dev = me(t).dev
      PROVE  BridgeInv'
  BY <1>1, <1>2, <1>3, LocalStep
<1>4. CASE CallSign(t)
  BY <1>1, <1>4, MoveStep DEF CallSign, Working, Turn, Alone, Busy, Connecting
<1>5. CASE FetchPrevTx(t)
  <2> DEFINE c == [me(t) EXCEPT !.next = me(t).next + 1, !.fetched = @ \cup {me(t).next + 1}]
             e == [me(t) EXCEPT !.next = me(t).next + 1]
  <2>1. calls' = [calls EXCEPT ![t] = c] \/ calls' = [calls EXCEPT ![t] = e]
    BY <1>5 DEF FetchPrevTx, BridgeInv, Shape, IsCall, me
  <2>2. /\ IsCall(c) /\ c.pc = me(t).pc /\ c.dev = me(t).dev
        /\ IsCall(e) /\ e.pc = me(t).pc /\ e.dev = me(t).dev
    BY DEF BridgeInv, Shape, IsCall, me
  <2> HIDE DEF c, e
  <2> QED BY <1>3, <2>1, <2>2
<1> QED BY <1>4, <1>5

LEMMA ConvertInv ==
  ASSUME BridgeInv, NEW t \in Threads, Convert(t)
  PROVE  BridgeInv'
<1>1. me(t).pc \in Working /\ UNCHANGED <<platform, sessions, active, known, conns, connecting>>
  BY DEF Convert, Working, dart, store
<1>2. ASSUME NEW res, Returns(t, res) PROVE BridgeInv'
  BY <1>1, <1>2, WorkReturns
<1>3. ASSUME NEW q, NEW n, UNCHANGED holder,
             calls' = [calls EXCEPT ![t].pc = "derive", ![t].psbt = q,
                                    ![t].fetched = {}, ![t].outs = n]
      PROVE  BridgeInv'
  <2> DEFINE c == [me(t) EXCEPT !.pc = "derive", !.psbt = q, !.fetched = {}, !.outs = n]
  <2>1. calls' = [calls EXCEPT ![t] = c]
    BY <1>3 DEF BridgeInv, Shape, IsCall, me
  <2>2. IsCall(c) /\ c.pc \in Working /\ c.dev = me(t).dev /\ c.conn = me(t).conn
    BY DEF BridgeInv, Shape, IsCall, me, Working
  <2> HIDE DEF c
  <2> QED BY <1>1, <1>3, <2>1, <2>2, WorkStep
<1> QED BY <1>2, <1>3 DEF Convert

LEMMA DeriveInv ==
  ASSUME BridgeInv, NEW t \in Threads, Derive(t)
  PROVE  BridgeInv'
<1>1. me(t).pc \in Working /\ UNCHANGED <<platform, sessions, active, known, conns, connecting>>
  BY DEF Derive, Working, dart, store
<1>2. CASE Prompts(t) \/ DeviceFails(t)
  BY <1>1, <1>2, AskInv
<1>3. CASE calls' = [calls EXCEPT ![t].pc = "loop", ![t].turns = 0] /\ UNCHANGED holder
  <2> DEFINE c == [me(t) EXCEPT !.pc = "loop", !.turns = 0]
  <2>1. IsCall(c) /\ c.pc \in Working /\ c.dev = me(t).dev /\ c.conn = me(t).conn
    BY DEF BridgeInv, Shape, IsCall, me, Working
  <2>2. calls' = [calls EXCEPT ![t] = c]
    BY <1>3 DEF BridgeInv, Shape, IsCall, me
  <2> HIDE DEF c
  <2> QED BY <1>1, <1>3, <2>1, <2>2, WorkStep
<1>4. ASSUME NEW m, NEW s, UNCHANGED holder,
             calls' = [calls EXCEPT ![t].outs[m].script = s, ![t].turns = 0]
      PROVE  BridgeInv'
  <2> DEFINE o == [me(t).outs EXCEPT ![m].script = s]
             c == [me(t) EXCEPT !.outs = o, !.turns = 0]
  <2>1. calls' = [calls EXCEPT ![t] = c]
    BY <1>4 DEF BridgeInv, Shape, IsCall, me
  <2> HIDE DEF o
  <2>2. IsCall(c) /\ c.pc = me(t).pc /\ c.dev = me(t).dev /\ c.conn = me(t).conn
    BY DEF BridgeInv, Shape, IsCall, me
  <2> HIDE DEF c
  <2> QED BY <1>1, <1>4, <2>1, <2>2, WorkStep
<1> QED BY <1>2, <1>3, <1>4 DEF Derive

\* The signing loop: whatever the device answers, the call keeps the lock until
\* it returns.
LEMMA LoopInv ==
  ASSUME BridgeInv, NEW t \in Threads,
         \/ LoopPrompts(t) \/ LoopFails(t) \/ Signature(t) \/ Serialized(t)
         \/ DataRequest(t) \/ Finished(t)
  PROVE  BridgeInv'
<1>1. me(t).pc \in Working /\ UNCHANGED <<platform, sessions, active, known, conns, connecting>>
  BY DEF LoopPrompts, LoopFails, Signature, Serialized, DataRequest, Finished, Answers,
         Working, dart, store
<1>2. ASSUME NEW res, Returns(t, res) PROVE BridgeInv'
  BY <1>1, <1>2, WorkReturns
<1>3. ASSUME NEW c, calls' = [calls EXCEPT ![t] = c], IsCall(c), UNCHANGED holder,
             c.pc = me(t).pc, c.dev = me(t).dev, c.conn = me(t).conn
      PROVE  BridgeInv'
  BY <1>1, <1>3, WorkStep
<1>4. CASE LoopPrompts(t)
  <2> DEFINE c == [me(t) EXCEPT !.turns = @ + 1]
  <2>1. calls' = [calls EXCEPT ![t] = c] /\ UNCHANGED holder
    BY <1>4 DEF LoopPrompts, BridgeInv, Shape, IsCall, me
  <2>2. IsCall(c) /\ c.pc = me(t).pc /\ c.dev = me(t).dev /\ c.conn = me(t).conn
    BY DEF BridgeInv, Shape, IsCall, me
  <2> HIDE DEF c
  <2> QED BY <1>3, <2>1, <2>2
<1>5. CASE LoopFails(t)
  BY <1>2, <1>5 DEF LoopFails, DeviceFails
<1>6. CASE Signature(t)
  <2>1. ASSUME NEW i, UNCHANGED holder,
               calls' = [calls EXCEPT ![t].turns = @ + 1, ![t].sigs = @ \cup {i}]
        PROVE  BridgeInv'
    <3> DEFINE c == [me(t) EXCEPT !.turns = @ + 1, !.sigs = @ \cup {i}]
    <3>1. calls' = [calls EXCEPT ![t] = c]
      BY <2>1 DEF BridgeInv, Shape, IsCall, me
    <3>2. IsCall(c) /\ c.pc = me(t).pc /\ c.dev = me(t).dev /\ c.conn = me(t).conn
      BY DEF BridgeInv, Shape, IsCall, me
    <3> HIDE DEF c
    <3> QED BY <1>3, <2>1, <3>1, <3>2
  <2> QED BY <1>2, <1>6, <2>1 DEF Signature
<1>7. CASE Serialized(t)
  <2>1. PICK part \in DeviceParts(t) :
           calls' = [calls EXCEPT ![t].turns = @ + 1, ![t].ser = Append(@, part)]
    BY <1>7 DEF Serialized
  <2> DEFINE c == [me(t) EXCEPT !.turns = @ + 1, !.ser = Append(@, part)]
  <2>2. calls' = [calls EXCEPT ![t] = c] /\ UNCHANGED holder
    BY <1>7, <2>1 DEF Serialized, BridgeInv, Shape, IsCall, me
  <2>3. IsCall(c) /\ c.pc = me(t).pc /\ c.dev = me(t).dev /\ c.conn = me(t).conn
    BY DEF BridgeInv, Shape, IsCall, me
  <2> HIDE DEF c
  <2> QED BY <1>3, <2>2, <2>3
<1>8. CASE DataRequest(t)
  <2>1. ASSUME NEW a, UNCHANGED holder,
               calls' = [calls EXCEPT ![t].turns = @ + 1, ![t].acked = a]
        PROVE  BridgeInv'
    <3> DEFINE c == [me(t) EXCEPT !.turns = @ + 1, !.acked = a]
    <3>1. calls' = [calls EXCEPT ![t] = c]
      BY <2>1 DEF BridgeInv, Shape, IsCall, me
    <3>2. IsCall(c) /\ c.pc = me(t).pc /\ c.dev = me(t).dev /\ c.conn = me(t).conn
      BY DEF BridgeInv, Shape, IsCall, me
    <3> HIDE DEF c
    <3> QED BY <1>3, <2>1, <3>1, <3>2
  <2> QED BY <1>2, <1>8, <2>1 DEF DataRequest
<1>9. CASE Finished(t)
  BY <1>2, <1>9 DEF Finished
<1> QED BY <1>4, <1>5, <1>6, <1>7, <1>8, <1>9
-----------------------------------------------------------------------------
LEMMA NextBridgeInv == BridgeInv /\ [Next]_vars => BridgeInv'
<1> SUFFICES ASSUME BridgeInv, [Next]_vars PROVE BridgeInv'
  OBVIOUS
<1>1. CASE UNCHANGED vars
  BY <1>1 DEF vars, BridgeInv, Shape, Exclusive, InUse, Replaced, Owns, me
<1>2. ASSUME NEW t \in Threads, Connect(t) \/ Disconnect(t) \/ AskFor(t) \/ Sign(t) \/ Cancel(t)
      PROVE  BridgeInv'
  BY <1>2, BeginsInv, CancelInv
<1>3. ASSUME NEW t \in Threads, Step(t) PROVE BridgeInv'
  <2>1. ASSUME Ask(t) PROVE BridgeInv'
    BY <2>1, AskInv DEF Ask, Working, dart, store
  <2> QED BY <1>3, <2>1, SerializeInv, RemoveSessionInv, ReleaseSessionInv, ConnectingInv,
             InsertInv, LockInv, FetchInv, ConvertInv, DeriveInv, LoopInv DEF Step
<1> QED BY <1>1, <1>2, <1>3 DEF Next

\* The inductive invariant.
THEOREM BridgeInvariant == Spec => []BridgeInv
<1> QED BY InitBridgeInv, NextBridgeInv, PTL DEF Spec

\* lib.rs, SESSIONS: whatever threads call and whatever the device answers, the
\* session an operation works on stays in the map until the operation returns.
THEOREM SessionInUseHolds == Spec => []SessionInUse
<1>1. BridgeInv => SessionInUse
  BY DEF BridgeInv, Exclusive, InUse, SessionInUse, Locked
<1> QED BY <1>1, BridgeInvariant, PTL

\* trezor_device.dart, _serializeConnection, and the executor of TrezorMethodHandler:
\* for any number of devices and threads, on either platform and whenever the
\* user cancels, the device the application takes for connected has a live session.
THEOREM ActiveHasSessionHolds == Spec => []ActiveHasSession
<1>1. BridgeInv => ActiveHasSession
  BY BridgeAssumption DEF BridgeInv, Exclusive, Owns, ActiveHasSession, Turn
<1> QED BY <1>1, BridgeInvariant, PTL
-----------------------------------------------------------------------------
(* The credential file. *)

Editing == {"clearing", "saving"}

\* The credential file has its fields.
IsFile(f) == f = [of |-> f.of, sound |-> f.sound]

\* As long as no access to the credential file has failed, what a call has read of it
\* is what is in it.
FileFresh ==
    /\ IsFile(creds)
    /\ \A t \in Threads : me(t).pc \in Editing /\ creds.sound => me(t).file = creds.of

\* A step of t that leaves the file alone: at most it fails to read it.
Elsewhere(t) ==
    /\ creds' \in {creds, [creds EXCEPT !.sound = FALSE]}
    /\ \A u \in Threads \ {t} : calls'[u] = calls[u]
    /\ calls'[t].pc \notin Editing

LEMMA ElsewhereUpdate ==
  ASSUME Shape, NEW t \in Threads, NEW c, calls' = [calls EXCEPT ![t] = c],
         c.pc \notin Editing,
         creds' \in {creds, [creds EXCEPT !.sound = FALSE]}
  PROVE  Elsewhere(t)
  BY DEF Shape, Elsewhere

LEMMA ElsewhereReturns ==
  ASSUME Shape, NEW t \in Threads, NEW res, Returns(t, res),
         creds' \in {creds, [creds EXCEPT !.sound = FALSE]}
  PROVE  Elsewhere(t)
<1>1. PICK c : calls' = [calls EXCEPT ![t] = c] /\ c.pc = "idle"
  BY ReturnsIsLocal
<1>2. c.pc \notin Editing
  BY <1>1 DEF Editing
<1> QED BY <1>1, <1>2, ElsewhereUpdate

LEMMA ElsewhereMoves ==
  ASSUME Shape, NEW t \in Threads, NEW p, Moves(t, p), p \notin Editing,
         creds' \in {creds, [creds EXCEPT !.sound = FALSE]}
  PROVE  Elsewhere(t)
<1> DEFINE c == [me(t) EXCEPT !.pc = p]
<1>1. calls' = [calls EXCEPT ![t] = c]
  BY MovesIsLocal
<1>2. c.pc = p
  BY FieldOfCall DEF Shape, me
<1> HIDE DEF c
<1> QED BY <1>1, <1>2, ElsewhereUpdate

\* A field of t's call other than its stage changes.
LEMMA ElsewhereKeeps ==
  ASSUME Shape, NEW t \in Threads, me(t).pc \notin Editing,
         creds' \in {creds, [creds EXCEPT !.sound = FALSE]},
         \A u \in Threads \ {t} : calls'[u] = calls[u], calls'[t].pc = me(t).pc
  PROVE  Elsewhere(t)
  BY DEF Elsewhere

\* The application calls; a cancel leaves the calls as they are.
LEMMA BeginsElsewhere ==
  ASSUME Shape, NEW t \in Threads, Connect(t) \/ Disconnect(t) \/ AskFor(t) \/ Sign(t)
  PROVE  Elsewhere(t)
<1>1. ASSUME NEW op, NEW d, NEW psbt, NEW p \in {"queue", "lock", "fetch"}, Begins(t, op, d, psbt, p)
      PROVE  Elsewhere(t)
  <2> DEFINE c == [NoCall EXCEPT !.op = op, !.dev = d, !.psbt = psbt, !.pc = p]
  <2>1. calls' = [calls EXCEPT ![t] = c] /\ UNCHANGED creds
    BY <1>1 DEF Begins
  <2>2. c.pc \notin Editing
    BY DEF NoCall, Editing
  <2> HIDE DEF c
  <2> QED BY <2>1, <2>2, ElsewhereUpdate
<1> QED BY <1>1 DEF Connect, Disconnect, AskFor, Sign

\* The steps of a connection, except those on the file.
LEMMA ConnectionElsewhere ==
  ASSUME Shape, NEW t \in Threads,
         \/ Serialize(t) \/ RemoveSession(t) \/ ReleaseSession(t) \/ Register(t)
         \/ TakeCallbacks(t) \/ Acquire(t) \/ PairingFails(t) \/ Initialize(t) \/ Insert(t),
         IsFile(creds)
  PROVE  Elsewhere(t)
<1>1. creds' \in {creds, [creds EXCEPT !.sound = FALSE]}
  <2>1. CASE Acquire(t)
    <3>1. ASSUME NEW f \in Loaded, creds' = [creds EXCEPT !.sound = f.sound]
          PROVE  creds' \in {creds, [creds EXCEPT !.sound = FALSE]}
      <4>1. CASE f = creds
        BY <3>1, <4>1 DEF IsFile
      <4>2. CASE f.sound = FALSE
        BY <3>1, <4>2
      <4>3. f = creds \/ f.sound = FALSE
        BY DEF Loaded
      <4> QED BY <4>1, <4>2, <4>3
    <3> QED BY <2>1, <3>1 DEF Acquire
  <2> QED BY <2>1 DEF Serialize, RemoveSession, ReleaseSession, Register, TakeCallbacks,
                      PairingFails, Initialize, Insert
<1>2. ASSUME NEW res, Returns(t, res) PROVE Elsewhere(t)
  BY <1>1, <1>2, ElsewhereReturns
<1>3. ASSUME NEW p, Moves(t, p), p \notin Editing PROVE Elsewhere(t)
  BY <1>1, <1>3, ElsewhereMoves
<1>4. CASE Serialize(t)
  <2>1. PICK p \in {"register", "remove"} : Moves(t, p) \/ Returns(t, "ok")
    BY <1>4 DEF Serialize
  <2> QED BY <1>2, <1>3, <2>1 DEF Editing
<1>5. CASE RemoveSession(t)
  BY <1>3, <1>5 DEF RemoveSession, Editing
<1>6. CASE ReleaseSession(t)
  BY <1>2, <1>3, <1>6 DEF ReleaseSession, Editing
<1>7. CASE Register(t) \/ TakeCallbacks(t) \/ PairingFails(t) \/ Initialize(t)
  BY <1>2, <1>3, <1>7 DEF Register, TakeCallbacks, PairingFails, Initialize, ConnectFails, Editing
<1>8. CASE Acquire(t)
  BY <1>2, <1>3, <1>8 DEF Acquire, ConnectFails, Editing
<1>9. CASE Insert(t)
  <2>1. CASE calls' = [calls EXCEPT ![t].pc = "remove", ![t].op = "disconnect"]
    <3>1. calls'[t].pc = "remove" /\ \A u \in Threads \ {t} : calls'[u] = calls[u]
      BY <2>1 DEF Shape, IsCall
    <3> QED BY <1>1, <3>1 DEF Elsewhere, Editing
  <2> QED BY <1>2, <1>9, <2>1 DEF Insert
<1> QED BY <1>4, <1>5, <1>6, <1>7, <1>8, <1>9

\* The operations on a session.
LEMMA OperationElsewhere ==
  ASSUME Shape, NEW t \in Threads,
         \/ Lock(t) \/ Ask(t) \/ FetchPrevTx(t) \/ CallSign(t) \/ Convert(t) \/ Derive(t)
         \/ LoopPrompts(t) \/ LoopFails(t) \/ Signature(t) \/ Serialized(t)
         \/ DataRequest(t) \/ Finished(t)
  PROVE  Elsewhere(t)
<1>1. UNCHANGED creds /\ me(t).pc \notin Editing
  BY DEF Lock, Ask, FetchPrevTx, CallSign, Convert, Derive, LoopPrompts, LoopFails,
         Signature, Serialized, DataRequest, Finished, Answers, Editing
<1>2. ASSUME NEW res, Returns(t, res) PROVE Elsewhere(t)
  BY <1>1, <1>2, ElsewhereReturns
<1>3. CASE DeviceFails(t)
  BY <1>2, <1>3 DEF DeviceFails
<1>4. CASE Prompts(t)
  <2>1. CASE calls' = [calls EXCEPT ![t].turns = @ + 1]
    <3>1. calls'[t].pc = me(t).pc /\ \A u \in Threads \ {t} : calls'[u] = calls[u]
      BY <2>1 DEF Shape, IsCall, me
    <3> QED BY <1>1, <3>1, ElsewhereKeeps
  <2> QED BY <1>2, <1>4, <2>1 DEF Prompts
<1>5. CASE Lock(t)
  <2>1. CASE calls' = [calls EXCEPT ![t].conn = sessions[me(t).dev],
                         ![t].pc = IF me(t).op = "sign" THEN "convert" ELSE "ask"]
    <3>1. calls'[t].pc \in {"convert", "ask"} /\ \A u \in Threads \ {t} : calls'[u] = calls[u]
      BY <2>1 DEF Shape, IsCall, me
    <3> QED BY <1>1, <3>1 DEF Elsewhere, Editing
  <2> QED BY <1>2, <1>5, <2>1 DEF Lock
<1>6. CASE Ask(t)
  BY <1>2, <1>3, <1>4, <1>6 DEF Ask
<1>7. CASE CallSign(t)
  BY <1>1, <1>7, ElsewhereMoves DEF CallSign, Editing
<1>8. CASE FetchPrevTx(t)
  <2>1. calls'[t].pc = me(t).pc /\ \A u \in Threads \ {t} : calls'[u] = calls[u]
    BY <1>8 DEF FetchPrevTx, Shape, IsCall, me
  <2> QED BY <1>1, <2>1, ElsewhereKeeps
<1>9. CASE Convert(t)
  <2>1. ASSUME NEW q, NEW n,
               calls' = [calls EXCEPT ![t].pc = "derive", ![t].psbt = q,
                                      ![t].fetched = {}, ![t].outs = n]
        PROVE  Elsewhere(t)
    <3>1. calls'[t].pc = "derive" /\ \A u \in Threads \ {t} : calls'[u] = calls[u]
      BY <2>1 DEF Shape, IsCall
    <3> QED BY <1>1, <3>1 DEF Elsewhere, Editing
  <2> QED BY <1>2, <1>9, <2>1 DEF Convert
<1>10. CASE Derive(t)
  <2>1. CASE calls' = [calls EXCEPT ![t].pc = "loop", ![t].turns = 0]
    <3>1. calls'[t].pc = "loop" /\ \A u \in Threads \ {t} : calls'[u] = calls[u]
      BY <2>1 DEF Shape, IsCall
    <3> QED BY <1>1, <3>1 DEF Elsewhere, Editing
  <2>2. ASSUME NEW m, NEW s, calls' = [calls EXCEPT ![t].outs[m].script = s, ![t].turns = 0]
        PROVE  Elsewhere(t)
    <3>1. calls'[t].pc = me(t).pc /\ \A u \in Threads \ {t} : calls'[u] = calls[u]
      BY <2>2 DEF Shape, IsCall, me
    <3> QED BY <1>1, <3>1, ElsewhereKeeps
  <2> QED BY <1>3, <1>4, <1>10, <2>1, <2>2 DEF Derive
<1>11. ASSUME NEW n, NEW a, \/ calls' = [calls EXCEPT ![t].turns = n]
                            \/ calls' = [calls EXCEPT ![t].turns = n, ![t].sigs = a]
                            \/ calls' = [calls EXCEPT ![t].turns = n, ![t].ser = a]
                            \/ calls' = [calls EXCEPT ![t].turns = n, ![t].acked = a]
       PROVE  Elsewhere(t)
  <2>1. calls'[t].pc = me(t).pc /\ \A u \in Threads \ {t} : calls'[u] = calls[u]
    BY <1>11 DEF Shape, IsCall, me
  <2> QED BY <1>1, <2>1, ElsewhereKeeps
<1>12. CASE LoopFails(t) \/ Finished(t)
  BY <1>2, <1>12 DEF LoopFails, DeviceFails, Finished
<1>13. CASE LoopPrompts(t) \/ Signature(t)
  BY <1>2, <1>11, <1>13 DEF LoopPrompts, Signature
<1>14. CASE Serialized(t) \/ DataRequest(t)
  BY <1>2, <1>11, <1>14 DEF Serialized, DataRequest
<1> QED BY <1>5, <1>6, <1>7, <1>8, <1>9, <1>10, <1>12, <1>13, <1>14

\* One call at a time is at the file: on iOS the one that has the turn, on Android
\* the one the executor runs.
LEMMA OneEditor ==
  ASSUME BridgeInv, NEW t \in Threads, NEW u \in Threads \ {t},
         me(t).pc \in Editing, me(u).pc \in Editing
  PROVE  FALSE
<1>1. me(t).pc \in Connecting /\ me(u).pc \in Connecting
  BY DEF Editing, Connecting
<1> QED BY <1>1, Stages DEF BridgeInv, Exclusive

LEMMA InitFileFresh == Init => FileFresh
<1> SUFFICES ASSUME Init PROVE FileFresh
  OBVIOUS
<1>1. \A t \in Threads : calls[t] = NoCall
  BY DEF Init
<1> QED BY <1>1, NoCallIsCall DEF Init, FileFresh, IsFile, Editing, me

LEMMA NextFileFresh == BridgeInv /\ FileFresh /\ [Next]_vars => FileFresh'
<1> SUFFICES ASSUME BridgeInv, FileFresh, [Next]_vars PROVE FileFresh'
  OBVIOUS
<1>0. Shape /\ IsFile(creds)
  BY DEF BridgeInv, FileFresh
<1>1. CASE UNCHANGED vars
  BY <1>1 DEF vars, FileFresh, me
<1>2. ASSUME NEW t \in Threads, Elsewhere(t) PROVE FileFresh'
  <2>1. /\ IsFile(creds') /\ creds'.of = creds.of
        /\ creds'.sound \in {creds.sound, FALSE}
    BY <1>0, <1>2 DEF Elsewhere, IsFile
  <2> QED BY <1>2, <2>1 DEF Elsewhere, FileFresh, me
<1>3. ASSUME NEW t \in Threads, LoadCreds(t) PROVE FileFresh'
  <2>1. PICK f \in Loaded :
          /\ calls' = [calls EXCEPT ![t].file = f.of,
                                    ![t].pc = IF @ = "clear" THEN "clearing" ELSE "saving"]
          /\ creds' = [creds EXCEPT !.sound = f.sound]
    BY <1>3 DEF LoadCreds
  <2>2. calls'[t].file = f.of /\ \A u \in Threads \ {t} : calls'[u] = calls[u]
    BY <2>1 DEF BridgeInv, Shape, IsCall
  <2>3. /\ IsFile(creds') /\ creds'.of = creds.of /\ creds'.sound = f.sound
        /\ f = creds \/ f.sound = FALSE
    BY <1>0, <2>1 DEF Loaded, IsFile
  <2> QED BY <2>2, <2>3 DEF FileFresh, me
<1>4. ASSUME NEW t \in Threads, SaveCreds(t) PROVE FileFresh'
  <2>1. calls'[t].pc \in {"pair", "initialize"} /\ \A u \in Threads \ {t} : calls'[u] = calls[u]
    BY <1>4 DEF SaveCreds, BridgeInv, Shape, IsCall
  <2>2. \A u \in Threads \ {t} : me(u).pc \notin Editing
    BY <1>4, OneEditor DEF SaveCreds, Editing
  <2>3. IsFile(creds')
    BY <1>0, <1>4 DEF SaveCreds, IsFile
  <2> QED BY <2>1, <2>2, <2>3 DEF FileFresh, Editing, me
<1>5. ASSUME NEW t \in Threads, Cancel(t) PROVE FileFresh'
  BY <1>5 DEF Cancel, FileFresh, me
<1>6. ASSUME NEW t \in Threads, Step(t) PROVE FileFresh'
  BY <1>0, <1>2, <1>3, <1>4, <1>6, ConnectionElsewhere, OperationElsewhere DEF Step
<1> QED BY <1>0, <1>1, <1>2, <1>5, <1>6, BeginsElsewhere DEF Next

\* load_creds_file, save_creds_file, clear_thp_credential: although the file is read,
\* changed and written without a lock, the turn to connect or the executor keeps
\* the writers apart: while no access fails, no device loses its credential
\* to the connection of another.
THEOREM CredentialsKeptHolds == Spec => CredentialsKept
<1> DEFINE Kept == creds'.sound => \A d \in creds.of \ creds'.of :
                                     \E t \in Threads : me(t).dev = d /\ me(t).pc = "clearing"
<1>1. BridgeInv /\ FileFresh /\ [Next]_vars => [Kept]_vars
  <2> SUFFICES ASSUME BridgeInv, FileFresh, Next PROVE Kept
    OBVIOUS
  <2>0. Shape /\ IsFile(creds)
    BY DEF BridgeInv, FileFresh
  <2>1. ASSUME NEW t \in Threads, Elsewhere(t) PROVE Kept
    <3>1. creds'.of = creds.of
      BY <2>0, <2>1 DEF Elsewhere, IsFile
    <3> QED BY <3>1
  <2>2. ASSUME NEW t \in Threads, LoadCreds(t) PROVE Kept
    <3>1. creds'.of = creds.of
      BY <2>0, <2>2 DEF LoadCreds, IsFile
    <3> QED BY <3>1
  <2>3. ASSUME NEW t \in Threads, SaveCreds(t) PROVE Kept
    <3>1. SUFFICES ASSUME creds'.sound PROVE Kept
      OBVIOUS
    <3>2. creds' = [creds EXCEPT !.of = Edited(t)]
      BY <2>0, <2>3, <3>1 DEF SaveCreds, IsFile
    <3>3. creds.sound /\ creds'.of = Edited(t)
      BY <2>0, <3>1, <3>2 DEF IsFile
    <3>4. me(t).file = creds.of
      BY <2>3, <3>3 DEF SaveCreds, FileFresh, Editing
    <3> QED BY <2>3, <3>3, <3>4 DEF Edited
  <2>4. ASSUME NEW t \in Threads, Cancel(t) PROVE Kept
    BY <2>4 DEF Cancel
  <2>5. ASSUME NEW t \in Threads, Step(t) PROVE Kept
    <3> HIDE DEF Kept
    <3> QED BY <2>0, <2>1, <2>2, <2>3, <2>5, ConnectionElsewhere, OperationElsewhere DEF Step
  <2> HIDE DEF Kept
  <2> QED BY <2>0, <2>1, <2>4, <2>5, BeginsElsewhere DEF Next
<1>2. Spec => []FileFresh
  BY BridgeInvariant, InitFileFresh, NextFileFresh, PTL DEF Spec
<1> QED BY <1>1, <1>2, BridgeInvariant, PTL DEF Spec, CredentialsKept
-----------------------------------------------------------------------------
(* Signing. *)

\* The previous transactions of psbt are filed under the ids of their contents.
Filed(psbt) == \A h \in DOMAIN PrevTxs(psbt) : PrevTxs(psbt)[h] = h

\* A transaction goes to the device once its previous ones are validated.
Sound(c) ==
    /\ c.pc \in {"derive", "loop"} => Filed(c.psbt)
    /\ c.acked[1] = c.acked[2]

AllSound == \A t \in Threads : Sound(me(t))

LEMMA ReturnedSound == \A res : Sound([NoCall EXCEPT !.res = res])
  BY DEF Sound, NoCall

\* A call that has the fields of a sound one where Sound looks.
LEMMA SoundKeeps ==
  ASSUME NEW c, Sound(c), NEW d, d.pc \in {"derive", "loop"} => d.psbt = c.psbt /\ c.pc \in {"derive", "loop"},
         d.acked = c.acked
  PROVE  Sound(d)
  BY DEF Sound

LEMMA SoundStep ==
  ASSUME Shape, AllSound, NEW t \in Threads, Sound(calls'[t]),
         \A u \in Threads \ {t} : calls'[u] = calls[u]
  PROVE  AllSound'
  BY DEF AllSound, me

\* validate_sign_tx_params lets only authentic previous transactions through.
LEMMA ValidateFiles ==
  ASSUME NEW psbt, Validate(psbt) = "ok"
  PROVE  Filed(psbt)
  BY DEF Validate, Filed

\* ... and find_prev_tx takes the data of an acknowledgement from there.
LEMMA AckIsFiled ==
  ASSUME NEW psbt, Filed(psbt), NEW q, Answerable(q, psbt)
  PROVE  AckSource(q, psbt) = q.hash
  BY DEF Answerable, InBounds, AckSource, Filed

\* A call that returns, begins or moves.
LEMMA SoundReturn ==
  ASSUME Shape, AllSound, NEW t \in Threads, NEW res, Returns(t, res)
  PROVE  AllSound'
<1> DEFINE c == [NoCall EXCEPT !.res = IF me(t).op = "sign" THEN res ELSE "none"]
<1>1. Sound(c)
  BY ReturnedSound
<1>2. calls' = [calls EXCEPT ![t] = c]
  BY DEF Returns
<1> HIDE DEF c
<1>3. calls'[t] = c /\ \A u \in Threads \ {t} : calls'[u] = calls[u]
  BY <1>2 DEF Shape
<1> QED BY <1>1, <1>3, SoundStep

LEMMA SoundBegin ==
  ASSUME Shape, AllSound, NEW t \in Threads, NEW op, NEW d, NEW psbt,
         NEW p \in {"queue", "lock", "fetch"}, Begins(t, op, d, psbt, p)
  PROVE  AllSound'
<1> DEFINE c == [NoCall EXCEPT !.op = op, !.dev = d, !.psbt = psbt, !.pc = p]
<1>1. Sound(c)
  BY DEF Sound, NoCall
<1>2. calls' = [calls EXCEPT ![t] = c]
  BY DEF Begins
<1> HIDE DEF c
<1>3. calls'[t] = c /\ \A u \in Threads \ {t} : calls'[u] = calls[u]
  BY <1>2 DEF Shape
<1> QED BY <1>1, <1>3, SoundStep

\* A step within a call that leaves its answers alone.
LEMMA SoundMove ==
  ASSUME Shape, AllSound, NEW t \in Threads,
         \A u \in Threads \ {t} : calls'[u] = calls[u],
         calls'[t].acked = me(t).acked,
         calls'[t].pc \in {"derive", "loop"} =>
             calls'[t].psbt = me(t).psbt /\ me(t).pc \in {"derive", "loop"}
  PROVE  AllSound'
<1>1. Sound(me(t))
  BY DEF AllSound
<1>2. Sound(calls'[t])
  BY <1>1, SoundKeeps
<1> QED BY <1>2, SoundStep

LEMMA SoundMoves ==
  ASSUME Shape, AllSound, NEW t \in Threads, NEW p, Moves(t, p), p \notin {"derive", "loop"}
  PROVE  AllSound'
<1>1. /\ calls'[t].acked = me(t).acked /\ calls'[t].pc = p
      /\ \A u \in Threads \ {t} : calls'[u] = calls[u]
  BY DEF Moves, Shape, IsCall, me
<1> QED BY <1>1, SoundMove

LEMMA BeginsSound ==
  ASSUME Shape, AllSound, NEW t \in Threads, Connect(t) \/ Disconnect(t) \/ AskFor(t) \/ Sign(t)
  PROVE  AllSound'
<1>1. CASE Connect(t) \/ Disconnect(t)
  BY <1>1, SoundBegin DEF Connect, Disconnect
<1>2. CASE AskFor(t) \/ Sign(t)
  BY <1>2, SoundBegin DEF AskFor, Sign
<1> QED BY <1>1, <1>2

LEMMA ConnectionSound ==
  ASSUME Shape, AllSound, NEW t \in Threads,
         \/ Serialize(t) \/ RemoveSession(t) \/ ReleaseSession(t) \/ Register(t)
         \/ TakeCallbacks(t) \/ Acquire(t) \/ PairingFails(t) \/ LoadCreds(t) \/ SaveCreds(t)
         \/ Initialize(t) \/ Insert(t)
  PROVE  AllSound'
<1>1. ASSUME NEW p \in {"register", "remove", "release", "take", "acquire", "initialize", "clear",
                        "pair", "insert"}, Moves(t, p)
      PROVE  AllSound'
  BY <1>1, SoundMoves
<1>2. CASE Serialize(t) \/ RemoveSession(t) \/ ReleaseSession(t)
  BY <1>1, <1>2, SoundReturn DEF Serialize, RemoveSession, ReleaseSession
<1>3. CASE Register(t) \/ TakeCallbacks(t) \/ Acquire(t) \/ PairingFails(t) \/ Initialize(t)
  BY <1>1, <1>3, SoundReturn
     DEF Register, TakeCallbacks, Acquire, PairingFails, Initialize, ConnectFails
<1>4. CASE LoadCreds(t) \/ SaveCreds(t)
  <2> DEFINE Edits == {"clearing", "saving", "pair", "initialize"}
  <2>1. ASSUME NEW f, NEW p \in Edits,
               calls' = [calls EXCEPT ![t] = [me(t) EXCEPT !.file = f, !.pc = p]]
        PROVE  AllSound'
    <3>1. /\ calls'[t].acked = me(t).acked /\ calls'[t].pc \in Edits
          /\ \A u \in Threads \ {t} : calls'[u] = calls[u]
      BY <2>1 DEF Shape, IsCall, me
    <3> QED BY <3>1, SoundMove
  <2>2. CASE LoadCreds(t)
    <3> DEFINE p == IF me(t).pc = "clear" THEN "clearing" ELSE "saving"
    <3>1. PICK f \in Loaded :
            calls' = [calls EXCEPT ![t].file = f.of,
                                   ![t].pc = IF @ = "clear" THEN "clearing" ELSE "saving"]
      BY <2>2 DEF LoadCreds
    <3>2. calls' = [calls EXCEPT ![t] = [me(t) EXCEPT !.file = f.of, !.pc = p]]
      BY <3>1 DEF Shape, IsCall, me
    <3>3. p \in Edits
      OBVIOUS
    <3> HIDE DEF p, Edits
    <3> QED BY <2>1, <3>2, <3>3
  <2>3. CASE SaveCreds(t)
    <3> DEFINE p == IF me(t).pc = "clearing" THEN "pair" ELSE "initialize"
    <3>1. calls' = [calls EXCEPT ![t] = [me(t) EXCEPT !.file = {}, !.pc = p]]
      BY <2>3 DEF SaveCreds, Shape, IsCall, me
    <3>2. p \in Edits
      OBVIOUS
    <3> HIDE DEF p, Edits
    <3> QED BY <2>1, <3>1, <3>2
  <2> QED BY <1>4, <2>2, <2>3
<1>5. CASE Insert(t)
  <2>1. CASE \E res : Returns(t, res)
    BY <2>1, SoundReturn
  <2>2. CASE calls' = [calls EXCEPT ![t].pc = "remove", ![t].op = "disconnect"]
    <3>1. /\ calls'[t].acked = me(t).acked /\ calls'[t].pc = "remove"
          /\ \A u \in Threads \ {t} : calls'[u] = calls[u]
      BY <2>2 DEF Shape, IsCall, me
    <3> QED BY <3>1, SoundMove
  <2> QED BY <1>5, <2>1, <2>2 DEF Insert
<1> QED BY <1>2, <1>3, <1>4, <1>5

LEMMA OperationSound ==
  ASSUME Shape, AllSound, NEW t \in Threads,
         \/ Lock(t) \/ Ask(t) \/ FetchPrevTx(t) \/ CallSign(t) \/ Convert(t) \/ Derive(t)
         \/ LoopPrompts(t) \/ LoopFails(t) \/ Signature(t) \/ Serialized(t)
         \/ DataRequest(t) \/ Finished(t)
  PROVE  AllSound'
<1> DEFINE Same == /\ calls'[t].acked = me(t).acked
                   /\ \A u \in Threads \ {t} : calls'[u] = calls[u]
<1>2. Sound(me(t))
  BY DEF AllSound
<1>3. CASE Lock(t)
  <2>1. CASE Returns(t, "failed")
    BY <2>1, SoundReturn
  <2>2. CASE calls' = [calls EXCEPT ![t].conn = sessions[me(t).dev],
                                    ![t].pc = IF me(t).op = "sign" THEN "convert" ELSE "ask"]
    <3>1. Same /\ calls'[t].pc = IF me(t).op = "sign" THEN "convert" ELSE "ask"
      BY <2>2 DEF Shape, IsCall, me
    <3> QED BY <3>1, SoundMove
  <2> QED BY <1>3, <2>1, <2>2 DEF Lock
<1>4. ASSUME calls' = [calls EXCEPT ![t].turns = @ + 1] PROVE AllSound'
  <2>1. Same /\ calls'[t].pc = me(t).pc /\ calls'[t].psbt = me(t).psbt
    BY <1>4 DEF Shape, IsCall, me
  <2> QED BY <2>1, SoundMove
<1>5. ASSUME Prompts(t) PROVE AllSound'
  BY <1>4, <1>5, SoundReturn DEF Prompts
<1>6. CASE Ask(t) \/ LoopPrompts(t) \/ LoopFails(t) \/ Finished(t)
  BY <1>4, <1>5, <1>6, SoundReturn DEF Ask, LoopPrompts, LoopFails, Finished, DeviceFails
<1>7. CASE FetchPrevTx(t)
  <2>1. Same /\ calls'[t].pc = me(t).pc /\ me(t).pc = "fetch"
    <3> DEFINE n == me(t).next + 1
    <3> HIDE DEF n
    <3>1. /\ me(t).pc = "fetch"
          /\ \/ calls' = [calls EXCEPT ![t].next = n, ![t].fetched = @ \cup {n}]
             \/ calls' = [calls EXCEPT ![t].next = n]
      BY <1>7 DEF FetchPrevTx, n
    <3> QED BY <3>1 DEF Shape, IsCall, me
  <2> QED BY <2>1, SoundMove
<1>8. CASE CallSign(t)
  BY <1>8, SoundMoves DEF CallSign
<1>9. CASE Convert(t)
  <2> DEFINE p == Injected(prevStore[me(t).dev], me(t).psbt)
  <2>1. CASE \E res : Returns(t, res)
    BY <2>1, SoundReturn
  <2>2. CASE /\ Validate(p) = "ok"
             /\ calls' = [calls EXCEPT ![t].pc = "derive", ![t].psbt = p,
                                       ![t].fetched = {}, ![t].outs = SignOutputs(p)]
    <3>1. Filed(p)
      BY <2>2, ValidateFiles
    <3> HIDE DEF p
    <3>2. Same /\ calls'[t].pc = "derive" /\ calls'[t].psbt = p
      BY <2>2 DEF Shape, IsCall, me
    <3>3. Sound(calls'[t])
      BY <1>2, <3>1, <3>2 DEF Sound
    <3> QED BY <3>2, <3>3, SoundStep
  <2> QED BY <1>9, <2>1, <2>2 DEF Convert
<1>10. CASE Derive(t)
  <2>1. CASE calls' = [calls EXCEPT ![t].pc = "loop", ![t].turns = 0]
    <3>1. Same /\ calls'[t].pc = "loop" /\ calls'[t].psbt = me(t).psbt /\ me(t).pc = "derive"
      BY <1>10, <2>1 DEF Derive, Shape, IsCall, me
    <3> QED BY <3>1, SoundMove
  <2>2. ASSUME NEW m, NEW s, calls' = [calls EXCEPT ![t].outs[m].script = s, ![t].turns = 0]
        PROVE  AllSound'
    <3>1. Same /\ calls'[t].pc = me(t).pc /\ calls'[t].psbt = me(t).psbt
      BY <2>2 DEF Shape, IsCall, me
    <3> QED BY <3>1, SoundMove
  <2> QED BY <1>5, <1>10, <2>1, <2>2, SoundReturn DEF Derive, DeviceFails
<1>11. ASSUME NEW v, \/ calls' = [calls EXCEPT ![t].turns = @ + 1, ![t].sigs = v]
                     \/ calls' = [calls EXCEPT ![t].turns = @ + 1, ![t].ser = v]
       PROVE  AllSound'
  <2>1. Same /\ calls'[t].pc = me(t).pc /\ calls'[t].psbt = me(t).psbt
    BY <1>11 DEF Shape, IsCall, me
  <2> QED BY <2>1, SoundMove
<1>12. CASE Signature(t)
  <2>1. CASE Returns(t, "failed")
    BY <2>1, SoundReturn
  <2>2. CASE \E i : calls' = [calls EXCEPT ![t].turns = @ + 1, ![t].sigs = @ \cup {i}]
    <3>1. PICK i : calls' = [calls EXCEPT ![t].turns = @ + 1, ![t].sigs = @ \cup {i}]
      BY <2>2
    <3>2. calls' = [calls EXCEPT ![t].turns = @ + 1, ![t].sigs = me(t).sigs \cup {i}]
      BY <3>1 DEF Shape, IsCall, me
    <3> QED BY <1>11, <3>2
  <2> QED BY <1>12, <2>1, <2>2 DEF Signature
<1>13. CASE Serialized(t)
  <2>1. PICK part \in DeviceParts(t) :
          calls' = [calls EXCEPT ![t].turns = @ + 1, ![t].ser = Append(@, part)]
    BY <1>13 DEF Serialized
  <2>2. calls' = [calls EXCEPT ![t].turns = @ + 1, ![t].ser = Append(me(t).ser, part)]
    BY <2>1 DEF Shape, IsCall, me
  <2> QED BY <1>11, <2>2
<1>14. CASE DataRequest(t)
  <2>1. CASE Returns(t, "failed")
    BY <2>1, SoundReturn
  <2>2. ASSUME NEW q, Answerable(q, me(t).psbt),
               calls' = [calls EXCEPT ![t].turns = @ + 1,
                                      ![t].acked = <<q.hash, AckSource(q, me(t).psbt)>>]
        PROVE  AllSound'
    <3>1. me(t).pc = "loop"
      BY <1>14 DEF DataRequest, Answers
    <3>2. AckSource(q, me(t).psbt) = q.hash
      BY <1>2, <2>2, <3>1, AckIsFiled DEF Sound
    <3>3. /\ calls'[t].acked = <<q.hash, q.hash>> /\ calls'[t].pc = me(t).pc
          /\ calls'[t].psbt = me(t).psbt
          /\ \A u \in Threads \ {t} : calls'[u] = calls[u]
      BY <2>2, <3>2 DEF Shape, IsCall, me
    <3>4. Sound(calls'[t])
      BY <1>2, <3>3 DEF Sound
    <3> QED BY <3>3, <3>4, SoundStep
  <2>3. \A ty, h, i : Request(ty, h, i).hash = h
    BY DEF Request
  <2> QED BY <1>14, <2>1, <2>2, <2>3 DEF DataRequest
<1> QED BY <1>3, <1>6, <1>7, <1>8, <1>9, <1>10, <1>12, <1>13, <1>14

LEMMA SoundInvariant == Spec => []AllSound
<1>1. Init => AllSound
  <2> SUFFICES ASSUME Init PROVE AllSound
    OBVIOUS
  <2>1. \A t \in Threads : calls[t] = NoCall
    BY DEF Init
  <2> QED BY <2>1 DEF AllSound, Sound, NoCall, me
<1>2. BridgeInv /\ AllSound /\ [Next]_vars => AllSound'
  <2> SUFFICES ASSUME BridgeInv, AllSound, [Next]_vars PROVE AllSound'
    OBVIOUS
  <2>1. CASE UNCHANGED vars
    BY <2>1 DEF vars, AllSound, me
  <2>2. CASE Next
    <3>1. ASSUME NEW t \in Threads, Cancel(t) PROVE AllSound'
      BY <3>1 DEF Cancel, AllSound, me
    <3> QED BY <2>2, <3>1, BeginsSound, ConnectionSound, OperationSound DEF Next, Step, BridgeInv
  <2> QED BY <2>1, <2>2
<1> QED BY <1>1, <1>2, BridgeInvariant, PTL DEF Spec

\* inject_prev_txs_into_psbt, validate_sign_tx_params and find_prev_tx: whatever the
\* store holds, the device is never given a previous transaction under an id that
\* is not its own.
THEOREM PrevTxAuthenticHolds == Spec => []PrevTxAuthentic
<1>1. AllSound => PrevTxAuthentic
  BY DEF AllSound, Sound, PrevTxAuthentic
<1> QED BY <1>1, SoundInvariant, PTL
=============================================================================
