------------------------------ MODULE ThpProofs ------------------------------
(***************************************************************************)
(* The safety of the channel between the host library and a device, for      *)
(* every number of faults and operations.  The host's steps are taken by     *)
(* their effects (ThpEffects), the device's by those below; TypeOK,           *)
(* NonceFresh, SessionHasChannel and CompleteMeansConfirmed are invariants.   *)
(***************************************************************************)
EXTENDS ThpEffects

(* Sequences. *)

\* A frame is taken off a line.
LEMMA TailParts ==
  ASSUME NEW S, NEW s \in Seq(S), s # <<>>
  PROVE  /\ Tail(s) \in Seq(S) /\ Len(Tail(s)) = Len(s) - 1 /\ Len(s) \in Nat \ {0}
         /\ \A i \in 1..Len(Tail(s)) : i + 1 \in 1..Len(s) /\ Tail(s)[i] = s[i + 1]
  OBVIOUS

\* A frame is put on a line.
LEMMA AppendParts ==
  ASSUME NEW S, NEW s \in Seq(S), NEW x \in S
  PROVE  /\ Append(s, x) \in Seq(S) /\ Len(Append(s, x)) = Len(s) + 1 /\ Len(s) \in Nat
         /\ \A i \in 1..Len(s) : Append(s, x)[i] = s[i]
         /\ Append(s, x)[Len(s) + 1] = x
         /\ \A i \in 1..Len(Append(s, x)) : i \in 1..Len(s) \/ i = Len(s) + 1
  OBVIOUS

\* A line that was cleared has no frame.
LEMMA NothingOnIt == ASSUME NEW S PROVE <<>> \in Seq(S) /\ Len(<<>>) = 0 /\ 1..Len(<<>>) = {}
  OBVIOUS
-----------------------------------------------------------------------------
(* What the device and the line do. *)

\* The device answers the first request with f.
DeviceAnswers(f) ==
    /\ up # <<>> /\ up' = Tail(up)
    /\ f \in FrameType /\ wire' = Append(wire, f)
    /\ f.ty = "error" => f.body \in HostErrors \ {"none"}
    /\ UNCHANGED <<sent, thp, host, cred, kind, link, session, ops>>
    /\ dev' \in DevType /\ dev'.v1 = dev.v1 /\ Counted

\* A channel is given out: the former one and its pairing are forgotten.
GivesChannel ==
    /\ ~dev.v1
    /\ Head(up).ty = "alloc"
    /\ dev'.chan = dev.chan + 1
    /\ DeviceAnswers(Frame("allocRes", 0, 0, "none", dev.chan + 1))

\* Every other answer is to the request and on its channel; what is decrypted or
\* handshaken is on the latest channel, and only the end of a pairing ends it.
AnswersRequest ==
    /\ dev'.chan = dev.chan /\ (dev.ended => dev'.ended)
    /\ \E f \in FrameType :
         /\ DeviceAnswers(f)
         /\ f.ty \notin {"allocRes", "garbled"}
         /\ f.chan = 0 \/ f.chan = Head(up).chan
         /\ f.ty = "initRes" => /\ Head(up).ty = "init"
                                /\ f.chan = Head(up).chan /\ f.chan = dev.chan
         /\ f.ty = "enc" => /\ Head(up).ty = "enc" /\ f.id = Head(up).id
                            /\ f.body = "endResponse" => dev'.ended
         /\ f.ty = "v1" => /\ Head(up).ty = "v1" /\ f.id = Head(up).id
                           /\ dev.v1 => f.body # "invalidProtocol"
         /\ dev.v1 => f.ty = "v1"

\* The request a device reads is the first frame of the line.
LEMMA RequestTyped ==
  ASSUME Typed, up # <<>>
  PROVE  Head(up) \in FrameType /\ Head(up) = up[1] /\ 1 \in 1..Len(up)
  BY DEF Typed

\* A reply of the device.
LEMMA RepliesEffect ==
  ASSUME Typed, NEW ty, NEW f \in FrameType, Replies(ty, f),
         f.ty = "error" => f.body \in HostErrors \ {"none"},
         dev' \in DevType, dev'.v1 = dev.v1, Counted
  PROVE  DeviceAnswers(f) /\ Head(up).ty = ty
  BY DEF Replies, still, DeviceAnswers

\* An ERROR frame answers on the channel of the request.
LEMMA ErrorFrameTyped ==
  ASSUME Typed, up # <<>>, NEW e \in HostErrors \ {"none"}
  PROVE  /\ ErrorFrame(e) \in FrameType /\ ErrorFrame(e).ty = "error"
         /\ ErrorFrame(e).body = e /\ ErrorFrame(e).chan = Head(up).chan
<1>1. Head(up).chan \in Nat /\ Head(up).id \in Nat /\ e \in Bodies
  BY RequestTyped, ErrorsKnown DEF FrameType
<1>2. "error" \in FrameTypes
  BY DEF FrameTypes
<1> QED
  BY <1>1, <1>2, FrameParts DEF ErrorFrame, Request

\* The frames and words of the device are known.
LEMMA DeviceWords ==
    /\ {"v1", "allocRes", "initRes", "compRes", "enc", "error"} \subseteq FrameTypes
    /\ {"success", "invalidProtocol", "none", "known", "unknown", "button"} \subseteq Bodies
    /\ {"busy", "locked", "unallocated", "decryptionFailed"} \subseteq HostErrors \ {"none"}
  BY DEF FrameTypes, Bodies, HostErrors, Creds

\* A protocol v1 device answers the request it read.
LEMMA AnswersV1Effect == ASSUME Typed, AnswersV1 PROVE AnswersRequest
<1> DEFINE b == IF dev.v1 THEN "success" ELSE "invalidProtocol"
           f == Frame("v1", 0, 0, b, Head(up).id)
<1>1. Replies("v1", f) /\ UNCHANGED <<dev, faults>> /\ up # <<>>
  BY DEF AnswersV1, Request, Replies
<1>2. Head(up).id \in Nat /\ b \in Bodies /\ "v1" \in FrameTypes
  BY <1>1, RequestTyped, DeviceWords DEF FrameType
<1>3. f \in FrameType /\ f.ty = "v1" /\ f.chan = 0 /\ f.body = b /\ f.id = Head(up).id
  BY <1>2, FrameParts
<1> HIDE DEF f
<1>4. DeviceAnswers(f) /\ Head(up).ty = "v1"
  BY <1>1, <1>3, RepliesEffect DEF Typed, Counted
<1> QED
  BY <1>1, <1>3, <1>4 DEF AnswersRequest

\* An allocation gives out a channel not given before.
LEMMA AllocatesEffect == ASSUME Typed, Allocates PROVE GivesChannel
<1> DEFINE f == Frame("allocRes", 0, 0, "none", dev.chan + 1)
<1>1. /\ Replies("alloc", f) /\ UNCHANGED faults /\ ~dev.v1
      /\ dev' = [dev EXCEPT !.chan = @ + 1, !.keyed = FALSE, !.rx = 0, !.tx = 1,
                            !.asked = "none", !.committed = FALSE, !.ended = FALSE]
  BY DEF Allocates
<1>2. dev \in DevType /\ dev.chan + 1 \in Nat
  BY DEF Typed, DevType
<1>3. f \in FrameType /\ f.ty = "allocRes"
  <2>1. "allocRes" \in FrameTypes /\ "none" \in Bodies /\ 0 \in Nat
    BY DeviceWords
  <2> QED
    BY <1>2, <2>1, FrameParts
<1>4. dev' \in DevType /\ dev'.v1 = dev.v1 /\ dev'.chan = dev.chan + 1
  BY <1>1, <1>2, DeviceWords DEF DevType
<1> HIDE DEF f
<1>5. DeviceAnswers(f) /\ Head(up).ty = "alloc"
  BY <1>1, <1>3, <1>4, RepliesEffect DEF Counted
<1> QED
  BY <1>1, <1>4, <1>5 DEF GivesChannel, f

\* An error changes nothing in the device.
LEMMA ErrorEffect ==
  ASSUME Typed, ~dev.v1, NEW ty, NEW e \in HostErrors \ {"none"}, Replies(ty, ErrorFrame(e)),
         UNCHANGED dev, Counted
  PROVE  AnswersRequest
<1>1. up # <<>> /\ dev \in DevType
  BY DEF Replies, Typed
<1>2. /\ ErrorFrame(e) \in FrameType /\ ErrorFrame(e).ty = "error"
      /\ ErrorFrame(e).body = e /\ ErrorFrame(e).chan = Head(up).chan
  BY <1>1, ErrorFrameTyped
<1>3. DeviceAnswers(ErrorFrame(e))
  BY <1>1, <1>2, RepliesEffect
<1> QED
  BY <1>2, <1>3 DEF AnswersRequest

\* A busy device, and one that speaks no plain protocol, answer the request.
LEMMA PlainEffects == ASSUME Typed, IsBusy \/ RejectsPlain PROVE AnswersRequest
  BY ErrorEffect, DeviceWords DEF IsBusy, RejectsPlain, Fault, Counted

\* The answer to the init request is one answer to it.
LEMMA AnswersInitEffect == ASSUME Typed, AnswersInit PROVE AnswersRequest
<1>1. ~dev.v1 /\ up # <<>> /\ UNCHANGED faults
  BY DEF AnswersInit, Replies
<1>2. CASE \E e \in {"locked", "unallocated"} : Replies("init", ErrorFrame(e)) /\ UNCHANGED dev
  BY <1>1, <1>2, ErrorEffect, DeviceWords DEF Counted
<1> DEFINE f == Frame("initRes", Head(up).chan, 0, "none", 0)
<1>3. CASE /\ Replies("init", f) /\ Head(up).chan = dev.chan
           /\ dev' = [dev EXCEPT !.locked = FALSE]
  <2>1. /\ f \in FrameType /\ f.ty = "initRes" /\ f.chan = Head(up).chan
    <3>1. /\ "initRes" \in FrameTypes /\ "none" \in Bodies /\ 0 \in Nat
          /\ Head(up).chan \in Nat
      BY <1>1, RequestTyped, DeviceWords DEF FrameType
    <3> QED
      BY <3>1, FrameParts
  <2>2. dev' \in DevType /\ dev'.v1 = dev.v1 /\ dev'.chan = dev.chan /\ dev'.ended = dev.ended
    BY <1>3 DEF Typed, DevType
  <2> HIDE DEF f
  <2>3. DeviceAnswers(f) /\ Head(up).ty = "init"
    BY <1>1, <1>3, <2>1, <2>2, RepliesEffect DEF Counted
  <2> QED
    BY <1>1, <1>3, <2>1, <2>2, <2>3 DEF AnswersRequest
<1> QED BY <1>2, <1>3 DEF AnswersInit, OnLatest, Request

\* The answer to the completion request is one answer to it.
LEMMA AnswersCompletionEffect == ASSUME Typed, AnswersCompletion PROVE AnswersRequest
<1>1. ~dev.v1 /\ up # <<>> /\ UNCHANGED faults
  BY DEF AnswersCompletion, Replies
<1>2. CASE \E e \in {"decryptionFailed", "unallocated"} :
             Replies("comp", ErrorFrame(e)) /\ UNCHANGED dev
  BY <1>1, <1>2, ErrorEffect, DeviceWords DEF Counted
<1>3. CASE \E b \in {"known", "unknown"} :
             /\ Replies("comp", Frame("compRes", Head(up).chan, 0, b, 0))
             /\ dev' = [dev EXCEPT !.keyed = TRUE]
  <2>1. PICK b \in {"known", "unknown"} :
             /\ Replies("comp", Frame("compRes", Head(up).chan, 0, b, 0))
             /\ dev' = [dev EXCEPT !.keyed = TRUE]
    BY <1>3
  <2> DEFINE f == Frame("compRes", Head(up).chan, 0, b, 0)
  <2>2. f \in FrameType /\ f.ty = "compRes" /\ f.chan = Head(up).chan
    <3>1. /\ "compRes" \in FrameTypes /\ b \in Bodies /\ 0 \in Nat
          /\ Head(up).chan \in Nat
      BY <1>1, RequestTyped, DeviceWords DEF FrameType
    <3> QED
      BY <3>1, FrameParts
  <2>3. dev' \in DevType /\ dev'.v1 = dev.v1 /\ dev'.chan = dev.chan /\ dev'.ended = dev.ended
    BY <2>1 DEF Typed, DevType
  <2> HIDE DEF f
  <2>4. DeviceAnswers(f)
    BY <1>1, <2>1, <2>2, <2>3, RepliesEffect DEF Counted, f
  <2> QED
    BY <1>1, <2>2, <2>3, <2>4 DEF AnswersRequest
<1> QED BY <1>2, <1>3 DEF AnswersCompletion, Request

\* What the device says is a message.
LEMMA SaidBodies ==
  ASSUME NEW m, NEW b \in Final(m)
  PROVE  b \in Bodies
<1>1. b \in {"approved", "preparations", "commitment", "cpace", "secret", "failure", "credential",
             "malformed", "endResponse", "success", "answer"}
  <2>1. CASE m \in {"pairingRequest", "selectMethod", "challenge"}
    BY <2>1 DEF Final
  <2>2. CASE m \in {"tag", "badTag", "credentialRequest"}
    BY <2>2 DEF Final
  <2>3. CASE m \in {"endRequest", "createSession", "call"}
    BY <2>3 DEF Final
  <2>4. CASE m \notin {"pairingRequest", "selectMethod", "challenge", "tag", "badTag",
                        "credentialRequest", "endRequest", "createSession", "call"}
    BY <2>4 DEF Final
  <2> QED BY <2>1, <2>2, <2>3, <2>4
<1> QED
  BY <1>1 DEF Bodies, Creds

\* What the device says encrypted is an answer on the channel of the request.
LEMMA SaysEffects ==
  ASSUME Typed, ~dev.v1, NEW b \in Bodies, Says(b), Counted
  PROVE  AnswersRequest
<1> DEFINE f == Frame("enc", dev.chan, dev.tx, b, Head(up).id)
<1>1. /\ Replies("enc", f) /\ Readable /\ up # <<>>
      /\ dev' = [dev EXCEPT !.rx = @ + 1, !.tx = @ + 1,
                            !.asked = IF b = "button" THEN Head(up).body ELSE "none",
                            !.committed = @ \/ b = "commitment",
                            !.ended = @ \/ b = "endResponse"]
  BY DEF Says, Request, Replies
<1>2. Head(up).chan = dev.chan
  BY <1>1 DEF Readable, OnLatest, Request
<1>3. Head(up).id \in Nat /\ Head(up).body \in Bodies /\ "none" \in Bodies
  BY <1>1, RequestTyped, DeviceWords DEF FrameType
<1>4. /\ dev \in DevType /\ dev.tx \in Nat /\ dev.rx \in Nat /\ dev.chan \in Nat
      /\ dev.committed \in BOOLEAN /\ dev.ended \in BOOLEAN
  BY DEF Typed, DevType
<1>5. /\ f \in FrameType /\ f.ty = "enc" /\ f.chan = dev.chan /\ f.body = b
      /\ f.id = Head(up).id
  <2>1. /\ "enc" \in FrameTypes /\ b \in Bodies
        /\ dev.chan \in Nat /\ dev.tx \in Nat /\ Head(up).id \in Nat
    BY <1>3, <1>4, DeviceWords
  <2> QED
    BY <2>1, FrameParts
<1>6. /\ dev' \in DevType /\ dev'.v1 = dev.v1 /\ dev'.chan = dev.chan
      /\ dev'.ended = (dev.ended \/ b = "endResponse")
  <2>1. dev.rx + 1 \in Nat /\ dev.tx + 1 \in Nat
        /\ (IF b = "button" THEN Head(up).body ELSE "none") \in Bodies
    BY <1>3, <1>4
  <2> QED
    BY <1>1, <1>4, <2>1 DEF DevType
<1> HIDE DEF f
<1>7. DeviceAnswers(f) /\ Head(up).ty = "enc"
  BY <1>1, <1>5, <1>6, RepliesEffect
<1> QED
  BY <1>2, <1>5, <1>6, <1>7 DEF AnswersRequest

\* Every answer to an encrypted message is one answer to it.
LEMMA AnswersMessageEffect == ASSUME Typed, AnswersMessage PROVE AnswersRequest
<1>1. ~dev.v1 /\ up # <<>>
  BY DEF AnswersMessage
<1>2. {"button", "failure", "badSecret"} \subseteq Bodies
  BY DEF Bodies
<1>3. CASE \E b \in Final(Asked) : Says(b) /\ UNCHANGED faults
  BY <1>1, <1>3, SaidBodies, SaysEffects DEF Counted
<1>4. CASE Says("button") /\ UNCHANGED faults
  BY <1>1, <1>2, <1>4, SaysEffects DEF Counted
<1>5. CASE Fault("failure") /\ \E b \in {"failure", "badSecret"} : Says(b)
  BY <1>1, <1>2, <1>5, SaysEffects DEF Counted, Fault
<1>6. CASE /\ Replies("enc", ErrorFrame(IF OnLatest THEN "decryptionFailed" ELSE "unallocated"))
           /\ UNCHANGED <<dev, faults>>
  BY <1>1, <1>6, ErrorEffect, DeviceWords DEF Counted
<1> QED BY <1>3, <1>4, <1>5, <1>6 DEF AnswersMessage

\* Every step of the device is one of the two.
LEMMA DeviceStepEffect ==
  ASSUME Typed, DeviceStep
  PROVE  GivesChannel \/ AnswersRequest
  BY AnswersV1Effect, AllocatesEffect, PlainEffects, AnswersInitEffect,
     AnswersCompletionEffect, AnswersMessageEffect DEF DeviceStep
-----------------------------------------------------------------------------
(* The application and the line. *)

\* An operation is asked for.
AsksFor ==
    /\ host.pc = "idle"
    /\ UNCHANGED <<kind, dev, link, up, wire, sent, thp, cred, session, faults>>
    /\ ops < MaxOps /\ ops' = ops + 1
    /\ host' \in HostType /\ host'.res = "none"
    /\ \/ host'.op = "acquire" /\ host'.pc = "open"
       \/ host'.op \in {"call", "session", "release"} /\ host'.pc = host'.op /\ session.cur # 0

\* An operation begins from rest, with a new id.
LEMMA AsksEffect ==
  ASSUME Typed, Asks
  PROVE  AsksFor
<1>1. session.cur \in Nat /\ ops + 1 \in Nat /\ ThpAssumption
  BY ThpAssumption DEF Typed, SessionType
<1>2. IdleHost \in HostType /\ IdleHost.res = "none"
  BY DEF IdleHost, HostType, Pcs, UsbMaxRetries, Creds, HostErrors, Results
<1>3. ASSUME NEW op \in {"acquire", "call", "session", "release"}, NEW p \in Pcs,
             NEW prev \in Nat, Begins(op, p, prev)
      PROVE  /\ host.pc = "idle"
             /\ UNCHANGED <<kind, dev, link, up, wire, sent, thp, cred, session, faults>>
             /\ ops < MaxOps /\ ops' = ops + 1
             /\ host' \in HostType /\ host'.res = "none" /\ host'.op = op /\ host'.pc = p
  <2>1. host' = [IdleHost EXCEPT !.op = op, !.pc = p, !.prev = prev, !.id = ops + 1]
    BY <1>3 DEF Begins
  <2>2. host' \in HostType /\ host'.res = "none" /\ host'.op = op /\ host'.pc = p
    BY <1>1, <1>2, <2>1 DEF HostType
  <2> QED
    BY <1>3, <2>2 DEF Begins, Idle
<1>4. {"open", "call", "session", "release"} \subseteq Pcs
  BY DEF Pcs
<1>5. CASE \E prev \in Nat : Begins("acquire", "open", prev)
  BY <1>3, <1>4, <1>5 DEF AsksFor
<1>6. CASE session.cur # 0 /\ \E op \in {"call", "session", "release"} : Begins(op, op, 0)
  BY <1>3, <1>4, <1>6 DEF AsksFor
<1> QED
  BY <1>1, <1>5, <1>6 DEF Asks

\* The line drops the first request, or garbles the first frame.
LineFails ==
    /\ UNCHANGED <<kind, dev, link, sent, thp, host, cred, session, ops>>
    /\ Counted
    /\ \/ up # <<>> /\ up' = Tail(up) /\ wire' = wire
       \/ /\ up' = up /\ wire' \in Seq(FrameType) /\ Len(wire') = Len(wire)
          /\ \A i \in 1..Len(wire) :
               /\ wire'[i].ty \in {wire[i].ty, "garbled"}
               /\ wire'[i].chan = wire[i].chan /\ wire'[i].body = wire[i].body
               /\ wire'[i].id = wire[i].id

\* A fault loses, delays or garbles frames and touches nothing else.
LEMMA LineFaultEffect ==
  ASSUME Typed, LineFault
  PROVE  LineFails
<1>1. CASE Drops
  BY <1>1 DEF Drops, Fault, still, LineFails, Counted
<1>2. CASE Garbles
  <2> DEFINE g == [wire[1] EXCEPT !.ty = "garbled"]
  <2>1. wire \in Seq(FrameType) /\ Len(wire) \in Nat /\ 1 \in 1..Len(wire) /\ wire[1] \in FrameType
    BY <1>2, HeadTyped DEF Garbles, Typed
  <2>2. "garbled" \in FrameTypes
    BY DEF FrameTypes
  <2>3. /\ g \in FrameType /\ g.ty = "garbled" /\ g.chan = wire[1].chan
        /\ g.body = wire[1].body /\ g.id = wire[1].id
    BY <2>1, <2>2 DEF FrameType
  <2>4. wire' = [wire EXCEPT ![1] = g]
    BY <1>2 DEF Garbles
  <2> HIDE DEF g
  <2>5. /\ wire' \in Seq(FrameType) /\ Len(wire') = Len(wire)
        /\ \A i \in 1..Len(wire) : wire'[i] = IF i = 1 THEN g ELSE wire[i]
    BY <2>1, <2>3, <2>4
  <2>6. \A i \in 1..Len(wire) :
               /\ wire'[i].ty \in {wire[i].ty, "garbled"}
               /\ wire'[i].chan = wire[i].chan /\ wire'[i].body = wire[i].body
               /\ wire'[i].id = wire[i].id
    BY <2>3, <2>5
  <2> QED
    BY <1>2, <2>5, <2>6 DEF Garbles, Fault, still, LineFails, Counted
<1> QED BY <1>1, <1>2 DEF LineFault

-----------------------------------------------------------------------------
(* Types. *)

\* How the host moves the two lines.
HostLines ==
    /\ wire' = wire \/ Hears \/ wire' = <<>>
    /\ up' = up \/ up' = <<>> \/ \E q : Puts(q)

\* A step of the host reads at most one answer and writes at most one request.
LEMMA HostLinesMove == ASSUME HostEffect PROVE HostLines
<1>1. CASE Stops
  BY <1>1 DEF HostLines, Stops
<1>7. CASE Skips \/ GrantsSession \/ Returned
  BY <1>7 DEF HostLines, Skips, GrantsSession, Returned
<1>8. CASE Detects
  BY <1>8 DEF HostLines, Detects
<1>9. CASE Opens
  BY <1>9 DEF HostLines, Opens, LineCleared
<1>10. CASE Recovers \/ Closes
  BY <1>10 DEF HostLines, Recovers, Closes, LineCleared
<1>2. CASE Probes \/ AsksChannel \/ CallsPlain
  BY <1>2 DEF HostLines, Probes, AsksChannel, CallsPlain
<1>3. CASE TakesChannel
  BY <1>3 DEF HostLines, TakesChannel
<1>4. CASE TakesKeys
  BY <1>4 DEF HostLines, TakesKeys
<1>5. CASE Speaks
  BY <1>5 DEF HostLines, Speaks
<1>6. CASE AsksCode \/ Completes
  BY <1>6 DEF HostLines, AsksCode, Completes, Answer
<1> QED
  BY <1>1, <1>2, <1>3, <1>4, <1>5, <1>6, <1>7, <1>8, <1>9, <1>10 DEF HostEffect

\* Faults stay within their bound.
LEMMA CountedTyped == ASSUME Typed, Counted PROVE faults' \in 0..MaxFaults
  BY ThpAssumption DEF Typed, Counted

\* Steps of the host keep the types.
LEMMA ThpTyped == ASSUME Typed, HostEffect PROVE Typed'
<1>1. /\ UNCHANGED <<kind, dev, ops>> /\ host' \in HostType /\ thp' \in ThpType
      /\ cred' \in Creds /\ link' \in BOOLEAN /\ session' \in SessionType
      /\ faults' \in 0..MaxFaults
  BY CountedTyped DEF HostEffect, Base
<1>2. up' \in Seq(FrameType)
  <2>1. up \in Seq(FrameType)
    BY DEF Typed
  <2>2. CASE up' = up
    BY <2>1, <2>2
  <2>3. CASE up' = <<>>
    BY <2>3
  <2>4. ASSUME NEW q, Puts(q)
        PROVE  up' \in Seq(FrameType)
    BY <2>1, <2>4, AppendParts DEF Puts
  <2> QED BY <2>2, <2>3, <2>4, HostLinesMove DEF HostLines
<1>3. wire' \in Seq(FrameType) /\ ErrorsNamed'
  <2>1. CASE wire' = wire
    BY <2>1 DEF Typed, ErrorsNamed
  <2>2. CASE Hears
    BY <2>2, TailParts DEF Typed, ErrorsNamed, Hears
  <2>3. CASE wire' = <<>>
    BY <2>3, NothingOnIt DEF ErrorsNamed
  <2> QED BY <2>1, <2>2, <2>3, HostLinesMove DEF HostLines
<1> QED
  BY <1>1, <1>2, <1>3 DEF Typed

\* Answers of the device keep the types.
LEMMA DeviceTyped == ASSUME Typed, NEW f, DeviceAnswers(f) PROVE Typed'
<1>1. up' \in Seq(FrameType)
  BY TailParts DEF Typed, DeviceAnswers
<1>2. wire' \in Seq(FrameType) /\ ErrorsNamed'
  BY AppendParts DEF Typed, DeviceAnswers, ErrorsNamed
<1> QED
  BY <1>1, <1>2, CountedTyped DEF Typed, DeviceAnswers

\* Every step keeps the types.
LEMMA TypedStep == Typed /\ [Next]_vars => Typed'
<1> SUFFICES ASSUME Typed, [Next]_vars
             PROVE  Typed'
  OBVIOUS
<1>1. CASE Asks
  BY <1>1, AsksEffect, ThpAssumption DEF AsksFor, Typed, ErrorsNamed
<1>2. CASE HostStep
  BY <1>2, HostStepEffect, ThpTyped
<1>3. CASE DeviceStep
  BY <1>3, DeviceStepEffect, DeviceTyped DEF GivesChannel, AnswersRequest
<1>4. CASE LineFault
  <2>1. LineFails /\ faults' \in 0..MaxFaults
    BY <1>4, LineFaultEffect, CountedTyped DEF LineFails
  <2>2. up' \in Seq(FrameType)
    BY <2>1, TailParts DEF LineFails, Typed
  <2>3. wire' \in Seq(FrameType) /\ ErrorsNamed'
    BY <2>1 DEF LineFails, Typed, ErrorsNamed
  <2> QED
    BY <2>1, <2>2, <2>3 DEF LineFails, Typed
<1>5. CASE UNCHANGED vars
  BY <1>5 DEF vars, Typed, ErrorsNamed
<1> QED BY <1>1, <1>2, <1>3, <1>4, <1>5 DEF Next

\* The initial states have the types.
LEMMA TypedInit == Init => Typed
<1> SUFFICES ASSUME Init
             PROVE  Typed
  OBVIOUS
<1>1. cred \in Creds /\ kind \in AllKinds /\ ops \in 0..MaxOps /\ faults \in 0..MaxFaults
  BY ThpAssumption DEF Init
<1>2. thp \in ThpType
  <2>1. NewState \in ThpType
    BY DEF NewState, ThpType, Creds
  <2>2. NoState \in ThpType
    BY <2>1 DEF NoState, ThpType
  <2> QED
    BY <2>2 DEF Init
<1>3. IdleHost \in HostType
  BY DEF IdleHost, HostType, Pcs, UsbMaxRetries, Creds, HostErrors, Results
<1>4. dev \in DevType
  <2>1. "none" \in Bodies
    BY DEF Bodies, Creds
  <2>2. dev \in [v1 : BOOLEAN, locked : BOOLEAN, chan : {0}, keyed : {FALSE}, rx : {0}, tx : {1},
                 asked : {"none"}, committed : {FALSE}, ended : {FALSE}]
    BY DEF Init, DeviceInit
  <2>3. {0} \subseteq Nat /\ {1} \subseteq Nat /\ {"none"} \subseteq Bodies /\ {FALSE} \subseteq BOOLEAN
    BY <2>1
  <2> QED
    BY <2>2, <2>3 DEF DevType
<1>5. session \in SessionType
  BY DEF Init, SessionType
<1> QED
  BY <1>1, <1>2, <1>3, <1>4, <1>5, NothingOnIt DEF Init, Typed, ErrorsNamed
-----------------------------------------------------------------------------
(* Channels: a number the device has given out and the host has not taken    *)
(* yet is used nowhere, and none is given out twice.                          *)

\* c is the channel of the state, of its keys, of something encrypted or of a frame.
Used(c) ==
    \/ c = thp.chan \/ c = thp.keys
    \/ \E m \in sent : m[1] = c
    \/ \E i \in 1..Len(wire) : wire[i].chan = c
    \/ \E j \in 1..Len(up) : up[j].chan = c

\* Frame i on the way to the host gives channel c to it.
Offers(i, c) == i \in 1..Len(wire) /\ wire[i].ty = "allocRes" /\ wire[i].id = c

Fresh ==
    /\ \A c : Used(c) => c \in 0..dev.chan
    /\ \A i, c : Offers(i, c) =>
         c \in 1..dev.chan /\ ~Used(c) /\ \A j : Offers(j, c) => j = i

\* What the host does with channels.
HostChannels ==
    /\ thp'.chan \in {thp.chan, 0} \/ (TakesChannel /\ thp'.chan = Head(wire).id)
    /\ thp'.keys \in {thp.keys, thp.chan, 0}
    /\ \A m \in sent' : m \in sent \/ m[1] = thp.keys
    /\ up' = up \/ up' = <<>> \/ \E q : Puts(q) /\ q.chan \in {0, thp.chan, thp'.chan}

\* The channel of a request of the handshake.
LEMMA FrameChannels ==
  ASSUME Typed, NEW c \in Nat, NEW u \in BOOLEAN, NEW k \in Creds
  PROVE  /\ AllocRequest.chan = 0 /\ AllocRequest.ty = "alloc"
         /\ InitRequest(c, u).chan = c /\ InitRequest(c, u).ty = "init"
         /\ CompletionRequest(thp, k).chan = thp.chan /\ CompletionRequest(thp, k).ty = "comp"
  BY DEF AllocRequest, InitRequest, CompletionRequest, Frame

\* One more encrypted message, whose parts are those it was made of.
LEMMA OneMore ==
  ASSUME NEW k, NEW n, NEW b, NEW i, NEW w \in BOOLEAN, sent' = sent \cup {<<k, n, b, i, w>>}
  PROVE  \A m \in sent' : m \in sent \/ (m[1] = k /\ m[2] = n /\ m[5] = w)
<1> DEFINE x == <<k, n, b, i, w>>
<1>1. x[1] = k /\ x[2] = n /\ x[5] = w
  OBVIOUS
<1>2. \A m \in sent' : m \in sent \/ m = x
  OBVIOUS
<1> HIDE DEF x
<1> QED BY <1>1, <1>2

\* An operation that stops leaves at most a message that was not written whole.
LEMMA StopsWaste ==
  ASSUME Stops
  PROVE  \A m \in sent' : \/ m \in sent
                          \/ thp.keys # 0 /\ m[1] = thp.keys /\ m[2] = thp.send /\ m[5] = FALSE
<1>1. CASE sent' = sent
  BY <1>1
<1>2. CASE Wasted
  <2>1. PICK b \in Bodies, i \in Nat : sent' = sent \cup {<<thp.keys, thp.send, b, i, FALSE>>}
    BY <1>2 DEF Wasted
  <2>2. thp.keys # 0
    BY <1>2 DEF Wasted
  <2>3. \A m \in sent' : m \in sent \/ (m[1] = thp.keys /\ m[2] = thp.send /\ m[5] = FALSE)
    BY <2>1, OneMore, Zenon
  <2> QED BY <2>2, <2>3
<1> QED BY <1>1, <1>2 DEF Stops

\* The host names no channel but its own and the one it is given.
LEMMA HostChannelsHold == ASSUME Typed, HostEffect PROVE HostChannels
<1>1. thp \in ThpType /\ thp' \in ThpType
  BY DEF Typed, HostEffect, Base
<1>2. CASE Stops
  <2>1. \A m \in sent' : m \in sent \/ m[1] = thp.keys
    BY <1>2, StopsWaste
  <2> QED
    BY <1>1, <1>2, <2>1 DEF Stops, Same, Unkeyed, ThpType, HostChannels
<1>3. CASE Skips \/ Detects \/ GrantsSession
  BY <1>3 DEF Skips, Detects, GrantsSession, HostChannels
<1>4. CASE Opens \/ Recovers \/ Closes
  BY <1>4 DEF Opens, Recovers, Closes, LineCleared, Blank, HostChannels
<1>5. CASE Probes
  BY <1>5 DEF Probes, HostChannels, Frame
<1>6. CASE AsksChannel
  BY <1>6 DEF AsksChannel, HostChannels, AllocRequest, Frame
<1>7. CASE TakesChannel
  <2>1. up' = up \/ \E q : Puts(q) /\ q.chan = thp'.chan
    <3>1. CASE up' = up
      BY <3>1
    <3>2. CASE \E u \in BOOLEAN : Puts(InitRequest(thp'.chan, u))
      BY <3>2 DEF InitRequest, Frame
    <3> QED BY <1>7, <3>1, <3>2 DEF TakesChannel
  <2>2. thp'.keys \in {thp.keys, 0} /\ thp'.chan = Head(wire).id /\ sent' = sent
    BY <1>7 DEF TakesChannel
  <2> QED
    BY <1>7, <2>1, <2>2 DEF HostChannels
<1>8. CASE TakesKeys
  <2>1. up' = up \/ \E q : Puts(q) /\ q.chan = thp.chan
    <3>1. CASE up' = up
      BY <3>1
    <3>2. CASE \E c \in Creds : Puts(CompletionRequest(thp, c))
      BY <3>2 DEF CompletionRequest, Frame
    <3> QED BY <1>8, <3>1, <3>2 DEF TakesKeys
  <2>2. thp'.keys = thp.chan /\ thp'.chan = thp.chan
    BY <1>1, <1>8 DEF TakesKeys, Keyed, ThpType
  <2>3. \A m \in sent' : m \in sent
    BY <1>8 DEF TakesKeys
  <2> QED
    BY <2>1, <2>2, <2>3 DEF HostChannels
<1>9. CASE Speaks
  <2>1. PICK b, i : /\ sent' = sent \cup {<<thp.keys, thp.send, b, i, TRUE>>}
                    /\ Puts(Frame("enc", thp.chan, thp.send, b, i))
    BY <1>9 DEF Speaks
  <2>2. \E q : Puts(q) /\ q.chan = thp.chan
    BY <2>1 DEF Frame
  <2>3. \A m \in sent' : m \in sent \/ m[1] = thp.keys
    BY <2>1, OneMore
  <2> QED
    BY <1>9, <2>2, <2>3 DEF Speaks, HostChannels
<1>10. CASE AsksCode \/ Completes \/ Returned
  BY <1>10 DEF AsksCode, Completes, Returned, Same, HostChannels
<1>11. CASE CallsPlain
  BY <1>11 DEF CallsPlain, HostChannels, Frame
<1> QED
  BY <1>2, <1>3, <1>4, <1>5, <1>6, <1>7, <1>8, <1>9, <1>10, <1>11 DEF HostEffect

\* A channel in use after a step of the host was in use or is taken by it.
LEMMA HostUses ==
  ASSUME Typed, HostEffect, NEW c, Used(c)'
  PROVE  Used(c) \/ c = 0 \/ (TakesChannel /\ c = Head(wire).id)
<1>1. HostChannels /\ HostLines /\ up \in Seq(FrameType) /\ wire \in Seq(FrameType)
  BY HostChannelsHold, HostLinesMove DEF Typed
<1>2. CASE c = thp'.chan \/ c = thp'.keys
  BY <1>1, <1>2 DEF HostChannels, Used
<1>3. CASE \E m \in sent' : m[1] = c
  BY <1>1, <1>3 DEF HostChannels, Used
<1>4. CASE \E i \in 1..Len(wire') : wire'[i].chan = c
  <2>1. CASE wire' = wire
    BY <1>4, <2>1 DEF Used
  <2>2. CASE Hears
    BY <1>1, <1>4, <2>2, TailParts DEF Used, Hears
  <2>3. CASE wire' = <<>>
    BY <1>4, <2>3, NothingOnIt
  <2> QED BY <1>1, <2>1, <2>2, <2>3 DEF HostLines
<1>5. CASE \E j \in 1..Len(up') : up'[j].chan = c
  <2>1. CASE up' = up
    BY <1>5, <2>1 DEF Used
  <2>2. CASE up' = <<>>
    BY <1>5, <2>2, NothingOnIt
  <2>3. ASSUME NEW q, Puts(q), q.chan \in {0, thp.chan, thp'.chan}
        PROVE  Used(c) \/ c = 0 \/ c = thp'.chan
    <3>1. PICK j \in 1..Len(up') : up'[j].chan = c
      BY <1>5
    <3>2. CASE j \in 1..Len(up)
      BY <1>1, <2>3, <3>1, <3>2, AppendParts DEF Puts, Used
    <3>3. CASE j = Len(up) + 1
      BY <1>1, <2>3, <3>1, <3>3, AppendParts DEF Puts, Used
    <3> QED BY <1>1, <2>3, <3>1, <3>2, <3>3, AppendParts DEF Puts
  <2> QED
    BY <1>1, <1>2, <2>1, <2>2, <2>3 DEF HostChannels
<1> QED BY <1>2, <1>3, <1>4, <1>5 DEF Used

\* An offer on the line after a step of the host was there before.
LEMMA HostOffers ==
  ASSUME Typed, HostLines, NEW i, NEW c, Offers(i, c)'
  PROVE  \/ wire' = wire /\ Offers(i, c)
         \/ Hears /\ Offers(i + 1, c) /\ i \in Nat \ {0}
<1>1. wire \in Seq(FrameType)
  BY DEF Typed
<1>2. CASE wire' = wire
  BY <1>2 DEF Offers
<1>3. CASE Hears
  BY <1>1, <1>3, TailParts DEF Hears, Offers
<1>4. CASE wire' = <<>>
  BY <1>4, NothingOnIt DEF Offers
<1> QED BY <1>2, <1>3, <1>4 DEF HostLines

\* The first frame on the line, when it gives a channel.
LEMMA TakenIsOffered ==
  ASSUME Typed, TakesChannel
  PROVE  Hears /\ Offers(1, Head(wire).id)
  BY HeadTyped DEF TakesChannel, Hears, Offers

\* The host takes only a channel offered to it, which nothing uses yet.
LEMMA HostFresh == ASSUME Typed, Fresh, HostEffect PROVE Fresh'
<1>1. dev' = dev /\ HostLines /\ dev.chan \in Nat
  BY HostLinesMove DEF HostEffect, Base, Typed, DevType
<1>2. ASSUME NEW c, Used(c)'
      PROVE  c \in 0..dev'.chan
  <2>1. CASE Used(c)
    BY <1>1, <2>1 DEF Fresh
  <2>2. CASE c = 0
    BY <1>1, <2>2
  <2>3. CASE TakesChannel /\ c = Head(wire).id
    BY <1>1, <2>3, TakenIsOffered DEF Fresh
  <2> QED BY <1>2, <2>1, <2>2, <2>3, HostUses
<1>3. ASSUME NEW i, NEW c, Offers(i, c)'
      PROVE  c \in 1..dev'.chan /\ ~Used(c)' /\ \A j : Offers(j, c)' => j = i
  <2>1. CASE wire' = wire /\ Offers(i, c)
    <3>1. ~TakesChannel
      BY <2>1, TakenIsOffered, TailParts DEF Hears, Typed
    <3>2. c \in 1..dev.chan /\ ~Used(c) /\ \A j : Offers(j, c) => j = i
      BY <2>1 DEF Fresh
    <3>3. ~Used(c)'
      BY <1>1, <3>1, <3>2, HostUses
    <3>4. \A j : Offers(j, c)' => Offers(j, c)
      BY <2>1 DEF Offers
    <3> QED
      BY <1>1, <3>2, <3>3, <3>4
  <2>2. CASE Hears /\ Offers(i + 1, c) /\ i \in Nat \ {0}
    <3>1. c \in 1..dev.chan /\ ~Used(c) /\ \A j : Offers(j, c) => j = i + 1
      BY <2>2 DEF Fresh
    <3>2. TakesChannel => c # Head(wire).id
      BY <2>2, <3>1, TakenIsOffered
    <3>3. ~Used(c)'
      BY <1>1, <3>1, <3>2, HostUses
    <3>4. ASSUME NEW j, Offers(j, c)'
          PROVE  j = i
      <4>1. wire' # wire
        BY <2>2, TailParts DEF Hears, Typed
      <4>2. Offers(j + 1, c) /\ j \in Nat \ {0}
        BY <1>1, <3>4, <4>1, HostOffers
      <4> QED BY <2>2, <3>1, <4>2
    <3> QED
      BY <1>1, <3>1, <3>3, <3>4
  <2> QED BY <1>1, <1>3, <2>1, <2>2, HostOffers
<1> QED
  BY <1>2, <1>3 DEF Fresh

\* What is on the lines after a step of the device.
LEMMA DeviceOffers ==
  ASSUME Typed, NEW f, DeviceAnswers(f), NEW i, NEW c, Offers(i, c)'
  PROVE  Offers(i, c) \/ (i = Len(wire) + 1 /\ f.ty = "allocRes" /\ f.id = c)
  BY AppendParts DEF Typed, DeviceAnswers, Offers

\* An answer is on the channel of its request.
LEMMA DeviceUses ==
  ASSUME Typed, NEW f, DeviceAnswers(f), NEW c, Used(c)'
  PROVE  Used(c) \/ c = f.chan
<1>1. up \in Seq(FrameType) /\ wire \in Seq(FrameType)
  BY DEF Typed
<1>2. CASE c = thp.chan \/ c = thp.keys \/ \E m \in sent : m[1] = c
  BY <1>2 DEF Used
<1>3. CASE \E i \in 1..Len(wire') : wire'[i].chan = c
  BY <1>1, <1>3, AppendParts DEF DeviceAnswers, Used
<1>4. CASE \E j \in 1..Len(up') : up'[j].chan = c
  BY <1>1, <1>4, TailParts DEF DeviceAnswers, Used
<1> QED BY <1>2, <1>3, <1>4 DEF Used, DeviceAnswers

\* A channel given out is above all in use and offered once.
LEMMA GivesFresh == ASSUME Typed, Fresh, GivesChannel PROVE Fresh'
<1> DEFINE n == dev.chan + 1
           f == Frame("allocRes", 0, 0, "none", n)
<1>1. /\ DeviceAnswers(f) /\ dev'.chan = n /\ dev.chan \in Nat
      /\ f.chan = 0 /\ f.id = n /\ Len(wire) \in Nat
  BY DEF GivesChannel, Typed, DevType, Frame
<1> HIDE DEF f
<1>2. ASSUME NEW c, Used(c)'
      PROVE  c \in 0..dev.chan
  BY <1>1, <1>2, DeviceUses DEF Fresh
<1>3. ASSUME NEW i, NEW c, Offers(i, c)'
      PROVE  Offers(i, c) \/ (i = Len(wire) + 1 /\ c = n)
  BY <1>1, <1>3, DeviceOffers
<1>4. ASSUME NEW i, NEW c, Offers(i, c)'
      PROVE  c \in 1..dev'.chan /\ ~Used(c)' /\ \A j : Offers(j, c)' => j = i
  <2>1. CASE Offers(i, c)
    <3>1. c \in 1..dev.chan /\ ~Used(c) /\ \A j : Offers(j, c) => j = i
      BY <2>1 DEF Fresh
    <3>2. ~Used(c)'
      BY <1>1, <3>1, DeviceUses
    <3> QED
      BY <1>1, <1>3, <3>1, <3>2
  <2>2. CASE i = Len(wire) + 1 /\ c = n
    <3>1. ~Used(c)'
      BY <1>1, <1>2, <2>2
    <3>2. \A j : ~Offers(j, c)
      BY <1>1, <2>2 DEF Fresh
    <3> QED
      BY <1>1, <1>3, <2>2, <3>1, <3>2
  <2> QED BY <1>3, <1>4, <2>1, <2>2
<1> QED
  BY <1>1, <1>2, <1>4 DEF Fresh

\* Answers other than an allocation offer no channel.
LEMMA AnswersFresh == ASSUME Typed, Fresh, AnswersRequest PROVE Fresh'
<1>1. PICK f : /\ DeviceAnswers(f) /\ f.ty # "allocRes"
               /\ f.chan = 0 \/ f.chan = Head(up).chan
  BY DEF AnswersRequest
<1>2. dev'.chan = dev.chan /\ dev.chan \in Nat
  BY DEF AnswersRequest, Typed, DevType
<1>3. f.chan = 0 \/ Used(f.chan)
  BY <1>1, RequestTyped DEF DeviceAnswers, Used
<1>4. ASSUME NEW c, Used(c)'
      PROVE  Used(c) \/ c = 0
  BY <1>1, <1>3, <1>4, DeviceUses
<1>5. ASSUME NEW i, NEW c, Offers(i, c)'
      PROVE  Offers(i, c)
  BY <1>1, <1>5, DeviceOffers
<1> QED
  BY <1>2, <1>4, <1>5 DEF Fresh

\* Faults of the line offer no channel.
LEMMA LineFresh == ASSUME Typed, Fresh, LineFails PROVE Fresh'
<1>1. up \in Seq(FrameType) /\ wire \in Seq(FrameType) /\ dev' = dev
  BY DEF Typed, LineFails
<1>2. ASSUME NEW c, Used(c)'
      PROVE  Used(c)
  <2>1. CASE c = thp.chan \/ c = thp.keys \/ \E m \in sent : m[1] = c
    BY <2>1 DEF Used
  <2>2. CASE \E i \in 1..Len(wire') : wire'[i].chan = c
    BY <1>1, <2>2 DEF LineFails, Used
  <2>3. CASE \E j \in 1..Len(up') : up'[j].chan = c
    <3>1. CASE up' = up
      BY <2>3, <3>1 DEF Used
    <3>2. CASE up # <<>> /\ up' = Tail(up)
      BY <1>1, <2>3, <3>2, TailParts DEF Used
    <3> QED BY <3>1, <3>2 DEF LineFails
  <2> QED BY <1>2, <2>1, <2>2, <2>3 DEF Used, LineFails
<1>3. ASSUME NEW i, NEW c, Offers(i, c)'
      PROVE  Offers(i, c)
  BY <1>1, <1>3 DEF LineFails, Offers
<1> QED
  BY <1>1, <1>2, <1>3 DEF Fresh

\* Channels stay fresh until they are taken, for every step.
LEMMA FreshStep == Typed /\ Fresh /\ [Next]_vars => Fresh'
<1> SUFFICES ASSUME Typed, Fresh, [Next]_vars
             PROVE  Fresh'
  OBVIOUS
<1>1. CASE Asks
  BY <1>1, AsksEffect DEF AsksFor, Fresh, Used, Offers
<1>2. CASE HostStep
  BY <1>2, HostStepEffect, HostFresh
<1>3. CASE DeviceStep
  BY <1>3, DeviceStepEffect, GivesFresh, AnswersFresh
<1>4. CASE LineFault
  BY <1>4, LineFaultEffect, LineFresh
<1>5. CASE UNCHANGED vars
  BY <1>5 DEF vars, Fresh, Used, Offers
<1> QED BY <1>1, <1>2, <1>3, <1>4, <1>5 DEF Next

\* At first no channel is in use.
LEMMA FreshInit == Init => Fresh
<1> SUFFICES ASSUME Init
             PROVE  Fresh
  OBVIOUS
<1>1. up = <<>> /\ wire = <<>> /\ sent = {} /\ dev.chan = 0 /\ thp.chan = 0 /\ thp.keys = 0
  BY DEF Init, DeviceInit, NoState, NewState
<1> QED
  BY <1>1, NothingOnIt DEF Fresh, Used, Offers
-----------------------------------------------------------------------------
(* Nonces: what was encrypted under the keys of the state and written whole   *)
(* was encrypted under the nonces before the next, and the channel a          *)
(* handshake is about to get keys for has none yet.                           *)

Nonces ==
    /\ \A m \in sent : m[1] \in Nat \ {0} /\ m[2] \in Nat
    /\ \A m \in sent : m[5] /\ m[1] = thp.keys => m[2] < thp.send
    /\ NonceFresh
    /\ host.pc = "init" =>
         thp.chan # 0 /\ thp.chan # thp.keys /\ \A m \in sent : m[1] # thp.chan

\* A step that encrypts nothing and gives no keys.
KeepsKeys ==
    /\ sent' = sent
    /\ (thp'.keys = thp.keys /\ thp'.send = thp.send) \/ thp'.keys = 0
    /\ host'.pc = "init" => host' = host /\ thp' = thp

\* Keys change only with a channel, with an init answer, or to the keys in use.
LEMMA KeysKept ==
  ASSUME Typed, HostEffect, ~Stops, ~TakesChannel, ~TakesKeys, ~Speaks
  PROVE  KeepsKeys
<1>1. CASE Skips \/ Probes \/ Detects \/ AsksChannel \/ GrantsSession \/ CallsPlain
  BY <1>1 DEF Skips, Probes, Detects, AsksChannel, GrantsSession, CallsPlain, KeepsKeys
<1>2. CASE Opens \/ Recovers \/ Closes
  BY <1>2 DEF Opens, Recovers, Closes, Blank, KeepsKeys
<1>3. CASE AsksCode \/ Completes \/ Returned
  BY <1>3 DEF AsksCode, Completes, Returned, Same, KeepsKeys
<1> QED
  BY <1>1, <1>2, <1>3 DEF HostEffect

\* The host never encrypts under a nonce of its keys that is below the send counter.
LEMMA HostNonces == ASSUME Typed, Fresh, Nonces, HostEffect PROVE Nonces'
<1>1. thp \in ThpType /\ thp.send \in Nat /\ thp.keys \in Nat
  BY DEF Typed, ThpType
<1>2. CASE KeepsKeys
  BY <1>2 DEF KeepsKeys, Nonces, NonceFresh
<1>3. CASE TakesChannel
  <2>1. /\ thp'.chan # 0 /\ ~Used(thp'.chan) /\ sent' = sent
        /\ (thp'.keys = thp.keys /\ thp'.send = thp.send) \/ thp'.keys = 0
    BY <1>3, TakenIsOffered DEF Fresh, TakesChannel
  <2> QED
    BY <2>1 DEF Used, Nonces, NonceFresh
<1>4. CASE TakesKeys
  <2>1. thp'.keys = thp.chan /\ host.pc = "init" /\ sent' \subseteq sent /\ host'.pc # "init"
    BY <1>1, <1>4 DEF TakesKeys, Keyed, ThpType, Stopped
  <2> QED
    BY <2>1 DEF Nonces, NonceFresh
<1>5. CASE Speaks
  <2>1. PICK b, i : sent' = sent \cup {<<thp.keys, thp.send, b, i, TRUE>>}
    BY <1>5 DEF Speaks
  <2>2. /\ thp.keys # 0 /\ thp'.keys = thp.keys /\ thp'.send = thp.send + 1
        /\ host'.pc # "init"
    BY <1>5 DEF Speaks, Dialogue
  <2> DEFINE x == <<thp.keys, thp.send, b, i, TRUE>>
  <2>3. x[1] = thp.keys /\ x[2] = thp.send /\ x[5]
    OBVIOUS
  <2> HIDE DEF x
  <2>4. \A m \in sent' : m \in sent \/ m = x
    BY <2>1 DEF x
  <2>5. \A m \in sent : m[5] /\ m[1] = thp.keys => m[2] # x[2]
    BY <1>1, <2>3 DEF Nonces
  <2>6. NonceFresh'
    BY <2>3, <2>4, <2>5 DEF Nonces, NonceFresh
  <2>7. \A m \in sent' :
           /\ m[1] \in Nat \ {0} /\ m[2] \in Nat
           /\ m[5] /\ m[1] = thp.keys => m[2] < thp.send + 1
    BY <1>1, <2>2, <2>3, <2>4 DEF Nonces
  <2>8. \A m \in sent' : m[5] /\ m[1] = thp'.keys => m[2] < thp'.send
    BY <2>2, <2>7
  <2>9. \A m \in sent' : m[1] \in Nat \ {0} /\ m[2] \in Nat
    BY <2>7
  <2> HIDE DEF x
  <2> QED
    BY <2>2, <2>6, <2>8, <2>9 DEF Nonces
<1>6. CASE Stops
  <2>1. /\ (thp'.keys = thp.keys /\ thp'.send = thp.send) \/ thp'.keys = 0
        /\ host'.pc # "init"
    BY <1>1, <1>6 DEF Stops, Stopped, Same, Unkeyed, ThpType
  <2>2. \A m \in sent' : \/ m \in sent
                         \/ thp.keys # 0 /\ m[1] = thp.keys /\ m[2] = thp.send /\ m[5] = FALSE
    BY <1>6, StopsWaste
  <2>3. \A m \in sent' : m[5] => m \in sent
    BY <2>2
  <2>4. NonceFresh'
    BY <2>3 DEF Nonces, NonceFresh
  <2>5. \A m \in sent' : m[1] \in Nat \ {0} /\ m[2] \in Nat
    BY <1>1, <2>2 DEF Nonces
  <2>6. \A m \in sent' : m[5] /\ m[1] = thp'.keys => m[2] < thp'.send
    BY <2>1, <2>3, <2>5 DEF Nonces
  <2> QED
    BY <2>1, <2>4, <2>5, <2>6 DEF Nonces
<1> QED BY <1>2, <1>3, <1>4, <1>5, <1>6, KeysKept

\* The used nonces stay below the send counter, for every step.
LEMMA NoncesStep == Typed /\ Fresh /\ Nonces /\ [Next]_vars => Nonces'
<1> SUFFICES ASSUME Typed, Fresh, Nonces, [Next]_vars
             PROVE  Nonces'
  OBVIOUS
<1>1. CASE Asks
  BY <1>1, AsksEffect DEF AsksFor, Nonces, NonceFresh
<1>2. CASE HostStep
  BY <1>2, HostStepEffect, HostNonces
<1>3. CASE DeviceStep
  BY <1>3, DeviceStepEffect DEF GivesChannel, AnswersRequest, DeviceAnswers, Nonces, NonceFresh
<1>4. CASE LineFault
  BY <1>4, LineFaultEffect DEF LineFails, Nonces, NonceFresh
<1>5. CASE UNCHANGED vars
  BY <1>5 DEF vars, Nonces, NonceFresh
<1> QED BY <1>1, <1>2, <1>3, <1>4, <1>5 DEF Next
-----------------------------------------------------------------------------
(* Phases: the places an operation may be at, and where the channel is        *)
(* complete.                                                                   *)

Handshake == {"open", "probe", "detect", "begin", "alloc", "init", "failed", "grant"}
                 \cup Dialogue

Phases ==
    /\ host.op = "acquire" /\ host.pc \notin {"idle", "open", "grant"} => ~thp.complete
    /\ kind = "callbackBle" /\ (host.pc = "grant" \/ session.cur # 0) => thp.complete
    /\ kind = "callbackBle" => host.pc \notin {"probe", "detect"}
    /\ host.pc \in Handshake => host.op = "acquire"
    /\ host.pc = "created" => host.op = IF kind \in CbKinds THEN "session" ELSE "acquire"
    /\ host.pc \in {"call", "answer", "v1answer", "plainAnswer"} => host.op = "call"
    /\ host.pc \in {"session", "release"} => host.op = host.pc

\* The host keeps what each place of an operation implies of the state.
LEMMA HostPhases == ASSUME Typed, Phases, HostEffect PROVE Phases'
<1>1. /\ kind' = kind /\ host'.op = host.op /\ thp \in ThpType
      /\ session' = session => session'.cur = session.cur
  BY DEF HostEffect, Base, Typed
<1>2. CASE Stops
  <2>1. thp'.complete = thp.complete /\ session' = session
    BY <1>1, <1>2 DEF Stops, Same, Unkeyed, ThpType
  <2> QED
    BY <1>1, <1>2, <2>1 DEF Stops, Stopped, Rest, Phases, Handshake, Dialogue
<1>3. CASE Skips
  BY <1>1, <1>3 DEF Skips, Phases
<1>4. CASE Opens
  BY <1>1, <1>4 DEF Opens, Blank, Phases, Handshake, Dialogue
<1>5. CASE Probes \/ Detects \/ AsksChannel
  BY <1>1, <1>5 DEF Probes, Detects, AsksChannel, Phases, Handshake, Dialogue
<1>6. CASE TakesChannel
  BY <1>1, <1>6 DEF TakesChannel, Stopped, Phases, Handshake, Dialogue
<1>7. CASE TakesKeys
  <2>1. thp'.complete = thp.complete /\ session' = session
    BY <1>1, <1>7 DEF TakesKeys, Keyed, ThpType
  <2> QED
    BY <1>1, <1>7, <2>1 DEF TakesKeys, Stopped, Phases, Handshake, Dialogue
<1>8. CASE Speaks
  BY <1>1, <1>8 DEF Speaks, Phases, Handshake, Dialogue
<1>9. CASE AsksCode \/ Completes
  BY <1>1, <1>9 DEF AsksCode, Completes, Same, Phases, Handshake, Dialogue
<1>10. CASE GrantsSession \/ Recovers
  BY <1>1, <1>10 DEF GrantsSession, Recovers, Blank, Phases, Handshake, Dialogue
<1>11. CASE CallsPlain \/ Returned
  BY <1>1, <1>11 DEF CallsPlain, Returned, Same, Phases, Handshake, Dialogue
<1>12. CASE Closes
  BY <1>1, <1>12 DEF Closes, Blank, Phases, Handshake, Dialogue
<1> QED
  BY <1>2, <1>3, <1>4, <1>5, <1>6, <1>7, <1>8, <1>9, <1>10, <1>11, <1>12 DEF HostEffect

\* Every step keeps what each place of an operation implies of the state.
LEMMA PhasesStep == Typed /\ Phases /\ [Next]_vars => Phases'
<1> SUFFICES ASSUME Typed, Phases, [Next]_vars
             PROVE  Phases'
  OBVIOUS
<1>1. CASE Asks
  BY <1>1, AsksEffect DEF AsksFor, Phases, Handshake, Dialogue
<1>2. CASE HostStep
  BY <1>2, HostStepEffect, HostPhases
<1>3. CASE DeviceStep
  BY <1>3, DeviceStepEffect DEF GivesChannel, AnswersRequest, DeviceAnswers, Phases
<1>4. CASE LineFault
  BY <1>4, LineFaultEffect DEF LineFails, Phases
<1>5. CASE UNCHANGED vars
  BY <1>5 DEF vars, Phases
<1> QED BY <1>1, <1>2, <1>3, <1>4, <1>5 DEF Next
-----------------------------------------------------------------------------
(* The device has ended the pairing of the channel that is complete.          *)

InFlight == Len(up) + Len(wire)
NoAlloc == \A j \in 1..Len(up) : up[j].ty # "alloc"

\* What comes after the handshake: a conversation, one message at a time.
InDialogue == host.pc \in Dialogue \/ (host.pc = "created" /\ kind \notin CbKinds)

\* The answer that ends a pairing on the latest channel is the device's word for it.
EndsKnown ==
    \A i \in 1..Len(wire) :
        wire[i].ty = "enc" /\ wire[i].body = "endResponse" /\ wire[i].chan = dev.chan => dev.ended

\* The answer to the handshake of the state's channel is the last thing that was
\* said, and it was said of the latest channel.
InitOnce ==
    host.pc = "init" =>
        /\ \A i \in 1..Len(wire) :
             wire[i].ty = "initRes" /\ wire[i].chan = thp.chan
               => i = Len(wire) /\ up = <<>> /\ dev.chan = thp.chan
        /\ \A j \in 1..Len(up) : up[j].ty = "init" /\ up[j].chan = thp.chan => j = Len(up)

DialogueOn ==
    InDialogue =>
        /\ dev.chan = thp.chan /\ thp.chan # 0
        /\ InFlight <= 1 /\ NoAlloc
        /\ host.pc = "code" => up = <<>> /\ wire = <<>>

CompleteOn ==
    thp.complete => dev.ended /\ dev.chan = thp.chan /\ thp.chan # 0 /\ thp.paired /\ NoAlloc

CreatedOn == host.pc = "created" /\ kind \notin CbKinds => dev.ended /\ thp.paired

Confirmed == EndsKnown /\ InitOnce /\ DialogueOn /\ CompleteOn /\ CreatedOn

\* A frame on the line after a step of the host was on it before.
LEMMA HostWire ==
  ASSUME Typed, HostLines, NEW i \in 1..Len(wire')
  PROVE  \/ wire' = wire
         \/ Hears /\ i + 1 \in 1..Len(wire) /\ wire'[i] = wire[i + 1] /\ Len(wire') = Len(wire) - 1
<1>1. wire \in Seq(FrameType)
  BY DEF Typed
<1>2. CASE Hears
  BY <1>1, <1>2, TailParts DEF Hears
<1>3. CASE wire' = <<>>
  BY <1>3, NothingOnIt
<1> QED BY <1>2, <1>3 DEF HostLines

\* No allocation is asked for unless the host asks for it.
LEMMA NoAllocKept ==
  ASSUME Typed, NoAlloc, up' = up \/ up' = <<>> \/ \E q : Puts(q) /\ q.ty # "alloc"
  PROVE  NoAlloc'
<1>1. up \in Seq(FrameType)
  BY DEF Typed
<1>2. CASE up' = up
  BY <1>2 DEF NoAlloc
<1>3. CASE up' = <<>>
  BY <1>3, NothingOnIt DEF NoAlloc
<1>4. ASSUME NEW q, Puts(q), q.ty # "alloc"
      PROVE  NoAlloc'
  BY <1>1, <1>4, AppendParts DEF Puts, NoAlloc
<1> QED BY <1>2, <1>3, <1>4

\* The lengths of the lines.
LEMMA LineLengths ==
  ASSUME Typed
  PROVE  /\ Len(up) \in Nat /\ Len(wire) \in Nat
         /\ Len(up) = 0 <=> up = <<>>
         /\ Len(wire) = 0 <=> wire = <<>>
         /\ Hears => Len(wire) # 0 /\ Len(wire') = Len(wire) - 1
         /\ \A q : Puts(q) => Len(up') = Len(up) + 1
<1>1. up \in Seq(FrameType) /\ wire \in Seq(FrameType)
  BY DEF Typed
<1>2. /\ Len(up) \in Nat /\ Len(wire) \in Nat
      /\ Len(up) = 0 <=> up = <<>>
      /\ Len(wire) = 0 <=> wire = <<>>
  BY <1>1
<1>3. Hears => Len(wire) # 0 /\ Len(wire') = Len(wire) - 1
  BY <1>1, TailParts DEF Hears
<1>4. \A q : Puts(q) => Len(up') = Len(up) + 1
  BY <1>1, AppendParts DEF Puts
<1> QED BY <1>2, <1>3, <1>4

\* A message written when at most one frame is in flight, after that one was read.
LEMMA OneInFlight ==
  ASSUME Typed, Typed', InFlight <= 1
  PROVE  /\ Hears => Len(wire) = 1 /\ up = <<>> /\ wire' = <<>>
         /\ Hears /\ up' = up => InFlight' = 0
         /\ \A q : Puts(q) /\ (Hears \/ (up = <<>> /\ wire = <<>> /\ wire' = wire))
              => Len(up') = 1 /\ wire' = <<>> /\ InFlight' <= 1
<1>1. /\ Len(up) \in Nat /\ Len(wire) \in Nat /\ Len(wire') \in Nat
      /\ Len(up) = 0 <=> up = <<>>
      /\ Len(wire) = 0 <=> wire = <<>>
      /\ Len(wire') = 0 <=> wire' = <<>>
      /\ Hears => Len(wire) # 0 /\ Len(wire') = Len(wire) - 1
      /\ \A q : Puts(q) => Len(up') = Len(up) + 1
  <2>1. wire' \in Seq(FrameType)
    BY DEF Typed
  <2>2. Len(wire') \in Nat /\ (Len(wire') = 0 <=> wire' = <<>>)
    BY <2>1
  <2> QED
    BY <2>2, LineLengths
<1>2. Hears => Len(wire) = 1 /\ up = <<>> /\ wire' = <<>>
  BY <1>1 DEF InFlight
<1>3. Hears /\ up' = up => InFlight' = 0
  BY <1>1, <1>2 DEF InFlight
<1>4. ASSUME NEW q, Puts(q), Hears \/ (up = <<>> /\ wire = <<>> /\ wire' = wire)
      PROVE  Len(up') = 1 /\ wire' = <<>> /\ InFlight' <= 1
  <2>1. Len(up) = 0 /\ wire' = <<>> /\ Len(wire') = 0
    BY <1>1, <1>2, <1>4
  <2>2. Len(up') = 1
    BY <1>1, <1>4, <2>1
  <2> QED
    BY <2>1, <2>2 DEF InFlight
<1> QED
  BY <1>2, <1>3, <1>4

\* The host brings no end response onto the line.
LEMMA HostEndsKnown == ASSUME Typed, EndsKnown, HostEffect PROVE EndsKnown'
<1>1. HostLines /\ dev' = dev
  BY HostLinesMove DEF HostEffect, Base
<1> QED
  BY <1>1, HostWire DEF EndsKnown

\* The host keeps one init request of its channel, and its answer the last thing said.
LEMMA HostInitOnce ==
  ASSUME Typed, Fresh, InitOnce, HostEffect
  PROVE  InitOnce'
<1>1. SUFFICES ASSUME host'.pc = "init"
               PROVE  InitOnce'
  BY DEF InitOnce
<1>2. dev' = dev /\ up \in Seq(FrameType) /\ wire \in Seq(FrameType) /\ HostLines
  BY HostLinesMove DEF HostEffect, Base, Typed
<1>3. TakesChannel \/ Skips
  <2>1. ~Stops /\ ~Opens /\ ~Probes /\ ~Detects /\ ~AsksChannel
    BY <1>1 DEF Stops, Stopped, Opens, Probes, Detects, AsksChannel
  <2>2. ~TakesKeys /\ ~Speaks /\ ~AsksCode /\ ~Completes /\ ~GrantsSession
    BY <1>1 DEF TakesKeys, Stopped, Speaks, Dialogue, AsksCode, Completes, GrantsSession
  <2>3. ~Recovers /\ ~CallsPlain /\ ~Returned /\ ~Closes
    BY <1>1 DEF Recovers, CallsPlain, Returned, Closes
  <2> QED BY <2>1, <2>2, <2>3 DEF HostEffect
<1>4. CASE TakesChannel
  <2>1. PICK u \in BOOLEAN : Puts(InitRequest(thp'.chan, u))
    BY <1>1, <1>4 DEF TakesChannel, Stopped
  <2>2. ~Used(thp'.chan)
    BY <1>4, TakenIsOffered DEF TakesChannel, Fresh
  <2>3. \A i \in 1..Len(wire') : wire'[i].chan # thp'.chan
    BY <1>2, <1>4, <2>2, TailParts DEF TakesChannel, Hears, Used
  <2>4. \A j \in 1..Len(up') : up'[j].chan = thp'.chan => j = Len(up')
    BY <1>2, <2>1, <2>2, AppendParts DEF Puts, Used
  <2> QED BY <2>3, <2>4 DEF InitOnce
<1>5. CASE Skips
  <2>1. host.pc = "init" /\ thp' = thp /\ up' = up /\ Hears
    BY <1>1, <1>5 DEF Skips
  <2>2. \A i \in 1..Len(wire') : wire'[i].ty = "initRes" /\ wire'[i].chan = thp.chan
                                   => i = Len(wire') /\ up = <<>> /\ dev.chan = thp.chan
    BY <1>2, <2>1, TailParts DEF Hears, InitOnce
  <2> QED
    BY <1>2, <2>1, <2>2 DEF InitOnce
<1> QED BY <1>3, <1>4, <1>5

\* The answer that ends the pairing of the channel of the state.
LEMMA EndIsHeard ==
  ASSUME Typed, EndsKnown, Answer("endResponse"), dev.chan = thp.chan, thp.chan # 0
  PROVE  dev.ended
<1>1. /\ Head(wire) = wire[1] /\ 1 \in 1..Len(wire)
      /\ Head(wire).ty = "enc" /\ Head(wire).body = "endResponse" /\ Head(wire).chan = thp.chan
  BY HeadTyped DEF Answer, Hears
<1> QED BY <1>1 DEF EndsKnown

\* A dialogue is held on the latest channel of the device, one frame in flight.
LEMMA HostDialogueOn ==
  ASSUME Typed, Typed', Nonces, InitOnce, DialogueOn, HostEffect
  PROVE  DialogueOn'
<1>1. SUFFICES ASSUME InDialogue'
               PROVE  DialogueOn'
  BY DEF DialogueOn
<1>2. dev' = dev /\ kind' = kind /\ thp \in ThpType
  BY DEF HostEffect, Base, Typed
<1>3. TakesKeys \/ Skips \/ Speaks \/ AsksCode
  <2>1. ~Stops /\ ~Opens /\ ~Probes /\ ~Detects /\ ~AsksChannel
    BY <1>1 DEF Stops, Stopped, Opens, Probes, Detects, AsksChannel, InDialogue, Dialogue
  <2>2. ~TakesChannel /\ ~Completes /\ ~GrantsSession
    BY <1>1 DEF TakesChannel, Stopped, Completes, GrantsSession, InDialogue, Dialogue
  <2>3. ~Recovers /\ ~CallsPlain /\ ~Returned /\ ~Closes
    BY <1>1 DEF Recovers, CallsPlain, Returned, Closes, InDialogue, Dialogue
  <2> QED BY <2>1, <2>2, <2>3 DEF HostEffect
<1>4. CASE TakesKeys
  <2>1. PICK c \in Creds : Puts(CompletionRequest(thp, c)) /\ host'.pc = "comp"
    BY <1>1, <1>4 DEF TakesKeys, Stopped, InDialogue, Dialogue
  <2>2. host.pc = "init" /\ Hears /\ Head(wire).ty = "initRes" /\ thp'.chan = thp.chan
    BY <1>2, <1>4 DEF TakesKeys, Keyed, ThpType
  <2>3. thp.chan # 0 /\ Head(wire).chan = thp.chan
    BY <1>4, <2>2 DEF TakesKeys, Nonces
  <2>4. Len(wire) = 1 /\ up = <<>> /\ dev.chan = thp.chan
    BY <2>2, <2>3, HeadTyped DEF Hears, InitOnce
  <2>5. CompletionRequest(thp, c).ty = "comp"
    BY DEF CompletionRequest, Frame
  <2>6. NoAlloc
    BY <2>4, NothingOnIt DEF NoAlloc
  <2>7. NoAlloc'
    BY <2>1, <2>5, <2>6, NoAllocKept
  <2>8. InFlight <= 1
    BY <2>4, LineLengths DEF InFlight
  <2>9. InFlight' <= 1
    BY <2>1, <2>2, <2>8, OneInFlight
  <2> QED
    BY <1>2, <2>1, <2>2, <2>3, <2>4, <2>7, <2>9 DEF DialogueOn
<1>5. CASE Skips
  <2>1. InDialogue /\ thp' = thp /\ up' = up /\ Hears /\ host' = host
    BY <1>1, <1>2, <1>5 DEF Skips, InDialogue
  <2>2. NoAlloc' /\ InFlight' <= 1
    BY <2>1, OneInFlight DEF DialogueOn, NoAlloc
  <2>3. host.pc # "code"
    BY <2>1 DEF DialogueOn, Hears
  <2> QED
    BY <1>2, <2>1, <2>2, <2>3 DEF DialogueOn
<1>6. CASE Speaks
  <2>1. InDialogue /\ host'.pc # "code"
    BY <1>1, <1>2, <1>6 DEF Speaks, InDialogue, Dialogue
  <2>2. PICK b, i : Puts(Frame("enc", thp.chan, thp.send, b, i))
    BY <1>6 DEF Speaks
  <2>3. Frame("enc", thp.chan, thp.send, b, i).ty # "alloc"
    BY DEF Frame
  <2>4. NoAlloc'
    BY <2>1, <2>2, <2>3, NoAllocKept DEF DialogueOn
  <2>5. Hears \/ (up = <<>> /\ wire = <<>> /\ wire' = wire)
    BY <1>6, <2>1 DEF Speaks, DialogueOn, InDialogue, Dialogue
  <2>6. InFlight' <= 1
    BY <2>1, <2>2, <2>5, OneInFlight DEF DialogueOn
  <2>7. thp'.chan = thp.chan
    BY <1>6 DEF Speaks
  <2> QED
    BY <1>2, <2>1, <2>4, <2>6, <2>7 DEF DialogueOn
<1>7. CASE AsksCode
  <2>1. InDialogue /\ thp'.chan = thp.chan /\ up' = up /\ Hears
    BY <1>7 DEF AsksCode, Same, InDialogue, Dialogue
  <2>2. NoAlloc' /\ InFlight' <= 1 /\ up' = <<>> /\ wire' = <<>>
    BY <2>1, OneInFlight DEF DialogueOn, NoAlloc
  <2> QED
    BY <1>2, <2>1, <2>2 DEF DialogueOn
<1> QED BY <1>3, <1>4, <1>5, <1>6, <1>7

\* A state becomes complete only after the device has ended the dialogue.
LEMMA HostCompleteOn ==
  ASSUME Typed, Phases, EndsKnown, DialogueOn, CompleteOn, CreatedOn, HostEffect
  PROVE  CompleteOn'
<1>1. SUFFICES ASSUME thp'.complete
               PROVE  CompleteOn'
  BY DEF CompleteOn
<1>2. dev' = dev /\ kind' = kind /\ thp \in ThpType
  BY DEF HostEffect, Base, Typed
<1>3. CASE Completes
  <2>1. InDialogue /\ thp'.chan = thp.chan /\ up' = up
    BY <1>3 DEF Completes, InDialogue
  <2>2. NoAlloc' /\ dev.chan = thp.chan /\ thp.chan # 0
    BY <2>1 DEF DialogueOn, NoAlloc
  <2>3. dev.ended /\ thp'.paired
    BY <1>3, <2>2, EndIsHeard DEF Completes, CreatedOn
  <2> QED
    BY <1>2, <2>1, <2>2, <2>3 DEF CompleteOn
<1>4. ASSUME thp.complete, thp'.chan = thp.chan, thp.paired => thp'.paired,
             up' = up \/ up' = <<>> \/ \E q : Puts(q) /\ q.ty # "alloc"
      PROVE  CompleteOn'
  BY <1>2, <1>4, NoAllocKept DEF CompleteOn
<1>5. CASE Stops
  BY <1>1, <1>2, <1>4, <1>5 DEF Stops, Same, Unkeyed, ThpType
<1>6. CASE Skips \/ Opens \/ Detects \/ GrantsSession \/ Recovers \/ Closes
  BY <1>1, <1>4, <1>6
     DEF Skips, Opens, Detects, GrantsSession, Recovers, Closes, Blank, LineCleared
<1>7. CASE Probes \/ AsksChannel \/ TakesChannel \/ TakesKeys
  <2>1. host.op = "acquire" /\ host.pc \notin {"idle", "open", "grant"}
    BY <1>7 DEF Probes, AsksChannel, TakesChannel, TakesKeys, Phases, Handshake
  <2>2. thp'.complete => thp.complete
    BY <1>2, <1>7 DEF Probes, AsksChannel, TakesChannel, TakesKeys, Keyed, ThpType
  <2> QED
    BY <1>1, <2>1, <2>2 DEF Phases
<1>8. CASE Speaks
  <2>1. \E q : Puts(q) /\ q.ty # "alloc"
    BY <1>8 DEF Speaks, Frame
  <2> QED
    BY <1>1, <1>4, <1>8, <2>1 DEF Speaks
<1>9. CASE AsksCode \/ Returned
  BY <1>1, <1>4, <1>9 DEF AsksCode, Returned, Same
<1>10. CASE CallsPlain
  <2>1. \E q : Puts(q) /\ q.ty # "alloc"
    BY <1>10 DEF CallsPlain, Frame
  <2> QED
    BY <1>1, <1>4, <1>10, <2>1 DEF CallsPlain
<1> QED
  BY <1>3, <1>5, <1>6, <1>7, <1>8, <1>9, <1>10 DEF HostEffect

\* A session is only asked for after the device has ended the dialogue.
LEMMA HostCreatedOn ==
  ASSUME Typed, EndsKnown, DialogueOn, CreatedOn, HostEffect
  PROVE  CreatedOn'
<1>1. SUFFICES ASSUME host'.pc = "created", kind \notin CbKinds
               PROVE  dev.ended /\ thp'.paired
  BY DEF CreatedOn, HostEffect, Base
<1>2. Skips \/ Speaks
  <2>1. ~Stops /\ ~Opens /\ ~Probes /\ ~Detects /\ ~AsksChannel
    BY <1>1 DEF Stops, Stopped, Opens, Probes, Detects, AsksChannel
  <2>2. ~TakesChannel /\ ~TakesKeys /\ ~AsksCode /\ ~Completes /\ ~GrantsSession
    BY <1>1 DEF TakesChannel, TakesKeys, Stopped, AsksCode, Completes, GrantsSession
  <2>3. ~Recovers /\ ~CallsPlain /\ ~Returned /\ ~Closes
    BY <1>1 DEF Recovers, CallsPlain, Returned, Closes
  <2> QED BY <2>1, <2>2, <2>3 DEF HostEffect
<1>3. CASE Skips
  BY <1>1, <1>3 DEF Skips, CreatedOn
<1>4. CASE Speaks /\ host.pc = "created"
  BY <1>1, <1>4 DEF Speaks, CreatedOn
<1>5. CASE Speaks /\ host.pc # "created"
  <2>1. host.pc \in Dialogue /\ Answer("endResponse") /\ thp'.paired
    BY <1>1, <1>5 DEF Speaks, Dialogue
  <2> QED
    BY <2>1, EndIsHeard DEF DialogueOn, InDialogue
<1> QED BY <1>2, <1>3, <1>4, <1>5

\* The device gives a channel only while none is in use.
LEMMA GivesConfirmed ==
  ASSUME Typed, Fresh, Confirmed, GivesChannel
  PROVE  Confirmed'
<1> DEFINE f == Frame("allocRes", 0, 0, "none", dev.chan + 1)
<1>1. /\ DeviceAnswers(f) /\ f.ty = "allocRes" /\ dev'.chan = dev.chan + 1
      /\ Head(up).ty = "alloc"
  BY DEF GivesChannel, Frame
<1> HIDE DEF f
<1>2. /\ up \in Seq(FrameType) /\ wire \in Seq(FrameType) /\ dev.chan \in Nat
      /\ UNCHANGED <<thp, host, kind>> /\ up # <<>>
      /\ up' = Tail(up) /\ wire' = Append(wire, f) /\ f \in FrameType
  BY <1>1 DEF Typed, DevType, DeviceAnswers
<1>3. ~NoAlloc
  BY <1>1, <1>2, RequestTyped DEF NoAlloc
<1>4. ~InDialogue /\ ~thp.complete
  BY <1>3 DEF Confirmed, DialogueOn, CompleteOn
<1>5. EndsKnown'
  <2>1. ASSUME NEW i \in 1..Len(wire)
        PROVE  wire[i].chan # dev'.chan
    <3>1. Used(wire[i].chan)
      BY DEF Used
    <3>2. wire[i].chan \in 0..dev.chan
      BY <3>1 DEF Fresh
    <3> QED BY <1>1, <1>2, <3>2
  <2> QED
    BY <1>1, <1>2, <2>1, AppendParts DEF EndsKnown
<1>6. InitOnce'
  <2> SUFFICES ASSUME host.pc = "init"
               PROVE  InitOnce'
    BY <1>2 DEF InitOnce
  <2>1. \A i \in 1..Len(wire') : ~(wire'[i].ty = "initRes" /\ wire'[i].chan = thp.chan)
    BY <1>1, <1>2, AppendParts DEF Confirmed, InitOnce
  <2>2. \A j \in 1..Len(up') : up'[j].ty = "init" /\ up'[j].chan = thp.chan => j = Len(up')
    BY <1>2, TailParts DEF Confirmed, InitOnce
  <2> QED
    BY <1>2, <2>1, <2>2 DEF InitOnce
<1> QED
  BY <1>2, <1>4, <1>5, <1>6 DEF Confirmed, DialogueOn, CompleteOn, CreatedOn, InDialogue

\* What is in flight when the device has answered.
LEMMA AnsweredLines ==
  ASSUME Typed, NEW f, DeviceAnswers(f)
  PROVE  /\ InFlight' = InFlight
         /\ up # <<>>
         /\ NoAlloc => NoAlloc'
<1>1. /\ up \in Seq(FrameType) /\ wire \in Seq(FrameType) /\ f \in FrameType
      /\ up # <<>> /\ up' = Tail(up) /\ wire' = Append(wire, f)
  BY DEF Typed, DeviceAnswers
<1>2. Len(up') = Len(up) - 1 /\ Len(wire') = Len(wire) + 1 /\ Len(up) \in Nat /\ Len(wire) \in Nat
  BY <1>1, TailParts, AppendParts
<1>3. InFlight' = InFlight
  BY <1>2 DEF InFlight
<1>4. NoAlloc => NoAlloc'
  BY <1>1, TailParts DEF NoAlloc
<1> QED BY <1>1, <1>3, <1>4

\* The device ends the dialogue before it says so.
LEMMA AnswersConfirmed ==
  ASSUME Typed, Confirmed, AnswersRequest
  PROVE  Confirmed'
<1>1. PICK f :
         /\ DeviceAnswers(f)
         /\ f.ty = "initRes" => /\ Head(up).ty = "init"
                                /\ f.chan = Head(up).chan /\ f.chan = dev.chan
         /\ f.ty = "enc" => (f.body = "endResponse" => dev'.ended)
  BY DEF AnswersRequest
<1>2. /\ up \in Seq(FrameType) /\ wire \in Seq(FrameType)
      /\ UNCHANGED <<thp, host, kind>> /\ up # <<>>
      /\ up' = Tail(up) /\ wire' = Append(wire, f) /\ f \in FrameType
      /\ dev'.chan = dev.chan /\ (dev.ended => dev'.ended)
  BY <1>1 DEF Typed, DeviceAnswers, AnswersRequest
<1>3. InFlight' = InFlight /\ (NoAlloc => NoAlloc')
  BY <1>1, AnsweredLines
<1>4. EndsKnown'
  BY <1>1, <1>2, AppendParts DEF Confirmed, EndsKnown
<1>5. InitOnce'
  <2>1. SUFFICES ASSUME host.pc = "init"
                 PROVE  InitOnce'
    BY <1>2 DEF InitOnce
  <2>2. ASSUME NEW i \in 1..Len(wire'), wire'[i].ty = "initRes", wire'[i].chan = thp.chan
        PROVE  i = Len(wire') /\ up' = <<>> /\ dev'.chan = thp.chan
    <3>1. i \notin 1..Len(wire)
      BY <1>2, <2>1, <2>2, AppendParts DEF Confirmed, InitOnce
    <3>2. i = Len(wire') /\ f = wire'[i]
      BY <1>2, <3>1, AppendParts
    <3>3. /\ Head(up) = up[1] /\ 1 \in 1..Len(up) /\ up[1].ty = "init"
          /\ up[1].chan = thp.chan /\ dev.chan = thp.chan
      BY <1>1, <1>2, <2>2, <3>2, RequestTyped
    <3>4. Len(up) = 1
      BY <2>1, <3>3 DEF Confirmed, InitOnce
    <3>5. up' = <<>>
      BY <1>2, <3>4
    <3> QED BY <1>2, <3>2, <3>3, <3>5
  <2>3. \A j \in 1..Len(up') : up'[j].ty = "init" /\ up'[j].chan = thp.chan => j = Len(up')
    BY <1>2, <2>1, TailParts DEF Confirmed, InitOnce
  <2> QED
    BY <1>2, <2>2, <2>3 DEF InitOnce
<1>6. DialogueOn'
  BY <1>2, <1>3 DEF Confirmed, DialogueOn, InDialogue
<1>7. CompleteOn' /\ CreatedOn'
  BY <1>2, <1>3 DEF Confirmed, CompleteOn, CreatedOn
<1> QED BY <1>4, <1>5, <1>6, <1>7 DEF Confirmed

\* What is in flight when the line has failed.
LEMMA FailedLines ==
  ASSUME Typed, LineFails
  PROVE  /\ InFlight' <= InFlight /\ InFlight' \in Nat /\ InFlight \in Nat
         /\ up = <<>> => up' = up
         /\ wire = <<>> => wire' = <<>>
         /\ NoAlloc => NoAlloc'
<1>1. up \in Seq(FrameType) /\ wire \in Seq(FrameType)
  BY DEF Typed
<1>2. CASE up # <<>> /\ up' = Tail(up) /\ wire' = wire
  <2>1. Len(up') = Len(up) - 1 /\ Len(up) \in Nat \ {0} /\ Len(wire) \in Nat
    BY <1>1, <1>2, TailParts
  <2>2. NoAlloc => NoAlloc'
    BY <1>1, <1>2, TailParts DEF NoAlloc
  <2>3. InFlight = Len(up) + Len(wire) /\ InFlight' = (Len(up) - 1) + Len(wire)
    BY <1>2, <2>1 DEF InFlight
  <2>4. /\ InFlight' <= InFlight /\ InFlight' \in Nat /\ InFlight \in Nat
    BY <2>1, <2>3
  <2> QED BY <1>2, <2>2, <2>4
<1>3. CASE up' = up /\ wire' \in Seq(FrameType) /\ Len(wire') = Len(wire)
  <2>1. Len(up) \in Nat /\ Len(wire) \in Nat
    BY <1>1
  <2>2. wire = <<>> => wire' = <<>>
    BY <1>1, <1>3
  <2>3. NoAlloc => NoAlloc'
    BY <1>3 DEF NoAlloc
  <2> QED BY <1>3, <2>1, <2>2, <2>3 DEF InFlight
<1> QED BY <1>2, <1>3 DEF LineFails

\* Faults of the line confirm nothing.
LEMMA LineConfirmed ==
  ASSUME Typed, Confirmed, LineFails
  PROVE  Confirmed'
<1>1. UNCHANGED <<thp, host, kind, dev>> /\ up \in Seq(FrameType) /\ wire \in Seq(FrameType)
  BY DEF Typed, LineFails
<1>2. /\ InFlight' <= InFlight /\ InFlight' \in Nat /\ InFlight \in Nat
      /\ up = <<>> => up' = up
      /\ wire = <<>> => wire' = <<>>
      /\ NoAlloc => NoAlloc'
  BY FailedLines
<1>3. /\ Len(wire') = Len(wire)
      /\ \A i \in 1..Len(wire) :
               /\ wire'[i].ty \in {wire[i].ty, "garbled"}
               /\ wire'[i].chan = wire[i].chan /\ wire'[i].body = wire[i].body
  BY DEF LineFails
<1>4. EndsKnown'
  BY <1>1, <1>3 DEF Confirmed, EndsKnown
<1>5. InitOnce'
  <2>1. host.pc = "init" => \A i \in 1..Len(wire') :
          wire'[i].ty = "initRes" /\ wire'[i].chan = thp.chan
               => i = Len(wire') /\ up' = <<>> /\ dev.chan = thp.chan
    BY <1>2, <1>3 DEF Confirmed, InitOnce
  <2>2. host.pc = "init" => \A j \in 1..Len(up') :
          up'[j].ty = "init" /\ up'[j].chan = thp.chan => j = Len(up')
    <3>1. CASE up' = up
      BY <3>1 DEF Confirmed, InitOnce
    <3>2. CASE up # <<>> /\ up' = Tail(up)
      BY <1>1, <3>2, TailParts DEF Confirmed, InitOnce
    <3> QED BY <3>1, <3>2 DEF LineFails
  <2> QED
    BY <1>1, <2>1, <2>2 DEF InitOnce
<1>6. DialogueOn'
  BY <1>1, <1>2 DEF Confirmed, DialogueOn, InDialogue
<1>7. CompleteOn' /\ CreatedOn'
  BY <1>1, <1>2 DEF Confirmed, CompleteOn, CreatedOn
<1> QED BY <1>4, <1>5, <1>6, <1>7 DEF Confirmed

\* Completion stays confirmed by the device, for every step.
LEMMA ConfirmedStep ==
  Typed /\ Fresh /\ Nonces /\ Phases /\ Confirmed /\ [Next]_vars => Confirmed'
<1> SUFFICES ASSUME Typed, Fresh, Nonces, Phases, Confirmed, [Next]_vars
             PROVE  Confirmed'
  OBVIOUS
<1>1. CASE Asks
  <2>1. /\ UNCHANGED <<kind, dev, up, wire, thp>>
        /\ host'.pc \in {"open", "call", "session", "release"}
    BY <1>1, AsksEffect DEF AsksFor
  <2> QED
    BY <2>1 DEF Confirmed, EndsKnown, InitOnce, DialogueOn, InDialogue, Dialogue, InFlight,
                CompleteOn, CreatedOn, NoAlloc
<1>2. CASE HostStep
  BY <1>2, HostStepEffect, TypedStep, HostEndsKnown, HostInitOnce, HostDialogueOn,
     HostCompleteOn, HostCreatedOn DEF Confirmed
<1>3. CASE DeviceStep
  BY <1>3, DeviceStepEffect, GivesConfirmed, AnswersConfirmed
<1>4. CASE LineFault
  BY <1>4, LineFaultEffect, LineConfirmed
<1>5. CASE UNCHANGED vars
  BY <1>5 DEF vars, Confirmed, EndsKnown, InitOnce, DialogueOn, InDialogue, InFlight,
              CompleteOn, CreatedOn, NoAlloc
<1> QED BY <1>1, <1>2, <1>3, <1>4, <1>5 DEF Next
-----------------------------------------------------------------------------
(* The theorems.                                                              *)

\* The initial states satisfy all parts of the invariant.
LEMMA InitHolds == Init => Typed /\ Fresh /\ Nonces /\ Phases /\ Confirmed
<1> SUFFICES ASSUME Init
             PROVE  Typed /\ Fresh /\ Nonces /\ Phases /\ Confirmed
  OBVIOUS
<1>1. /\ up = <<>> /\ wire = <<>> /\ sent = {} /\ session.cur = 0
      /\ host.pc = "idle" /\ host.op = "none" /\ host.res = "none"
  BY DEF Init, IdleHost
<1>2. /\ thp.chan = 0 /\ thp.keys = 0 /\ ~thp.complete
      /\ dev.v1 => kind \in {"callbackUsb", "usb"}
  BY DEF Init, NoState, NewState
<1>3. Nonces
  BY <1>1 DEF Nonces, NonceFresh
<1>4. Phases
  BY <1>1, <1>2 DEF Phases, Handshake, Dialogue
<1>5. Confirmed
  BY <1>1, <1>2, NothingOnIt
     DEF Confirmed, EndsKnown, InitOnce, DialogueOn, InDialogue, Dialogue, CompleteOn, CreatedOn
<1> QED BY <1>3, <1>4, <1>5, TypedInit, FreshInit

\* The inductive invariant of the channel.
Safe == Typed /\ Fresh /\ Nonces /\ Phases /\ Confirmed

\* The inductive invariant of the transports holds.
LEMMA SafeHolds == Spec => []Safe
<1>1. Init => Safe
  BY InitHolds DEF Safe
<1>2. Safe /\ [Next]_vars => Safe'
  BY TypedStep, FreshStep, NoncesStep, PhasesStep, ConfirmedStep DEF Safe
<1> QED BY <1>1, <1>2, PTL DEF Spec

\* Every variable keeps its shape, and no channel or key of the host's state is one
\* the device has not given out.
THEOREM TypeOKHolds == Spec => []TypeOK
<1>1. Safe => Typed /\ Fresh
  BY DEF Safe
<1>2. ASSUME Typed, Fresh, kind \in Kinds
      PROVE  TypeOK
  <2>1. thp \in ThpType /\ host \in HostType /\ session \in SessionType
    BY <1>2 DEF Typed
  <2>2. thp.chan \in 0..dev.chan /\ thp.keys \in 0..dev.chan
    BY <1>2 DEF Fresh, Used
  <2>3. thp \in [there : BOOLEAN, chan : 0..dev.chan, keys : 0..dev.chan, send : Nat,
                 recv : Nat \ {0}, paired : BOOLEAN, sid : 0..255, creds : Creds,
                 complete : BOOLEAN]
    BY <2>1, <2>2 DEF ThpType
  <2>4. session.cur \in 0..session.counter
    BY <2>1 DEF SessionType
  <2> QED
    BY <1>2, <2>1, <2>3, <2>4 DEF TypeOK, Typed, HostType
<1>3. Init => kind \in Kinds
  BY DEF Init
<1>4. Safe /\ kind \in Kinds /\ [Next]_vars => (kind \in Kinds)'
  <2> SUFFICES ASSUME Typed, kind \in Kinds, [Next]_vars
               PROVE  kind' = kind
    BY DEF Safe
  <2>1. CASE HostStep
    BY <2>1, HostStepEffect DEF HostEffect, Base
  <2>2. CASE DeviceStep
    BY <2>2, DeviceStepEffect DEF GivesChannel, AnswersRequest, DeviceAnswers
  <2>3. CASE Asks \/ LineFault
    BY <2>3, AsksEffect, LineFaultEffect DEF AsksFor, LineFails
  <2> QED BY <2>1, <2>2, <2>3 DEF Next, vars
<1>5. Spec => [](kind \in Kinds)
  BY <1>3, <1>4, SafeHolds, PTL DEF Spec
<1>6. Safe /\ kind \in Kinds => TypeOK
  BY <1>1, <1>2
<1> QED BY <1>5, <1>6, SafeHolds, PTL

\* update_nonce and the two halves of send_encrypted_message: of the messages written
\* to the end no two are under one key and one nonce, over any transport and however
\* often a write or a handshake fails, is retried or is started again.
THEOREM NonceFreshHolds == Spec => []NonceFresh
<1>1. Safe => NonceFresh
  BY DEF Safe, Nonces
<1> QED BY <1>1, SafeHolds, PTL

\* acquire of the callback transport: a session over Bluetooth stands for a channel
\* whose handshake is complete.
THEOREM SessionHasChannelHolds == Spec => []SessionHasChannel
<1>1. Safe => SessionHasChannel
  BY DEF Safe, Phases, SessionHasChannel
<1> QED BY <1>1, SafeHolds, PTL

\* handshake_complete: the device has ended the pairing of the very channel the state
\* is on, and has given out none since.
THEOREM CompleteMeansConfirmedHolds == Spec => []CompleteMeansConfirmed
<1>1. Safe => CompleteMeansConfirmed
  BY DEF Safe, Confirmed, CompleteOn, CompleteMeansConfirmed
<1> QED BY <1>1, SafeHolds, PTL
=============================================================================
