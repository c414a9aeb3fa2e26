--------------------------- MODULE TlsProxyProofs ---------------------------
(***************************************************************************)
(* Proofs about TlsProxy, for a head and bodies of any size.  A worker past *)
(* the head has read it whole and knows what it declares, or has one that  *)
(* its client cut (HeadInv); an origin that has answered an upload has     *)
(* received as much as that head declares (AnsweredInv); so what is        *)
(* reported as created has been received, and is the client's whole upload *)
(* unless the client ended inside its own head (CreatedMeansReceived).     *)
(***************************************************************************)
EXTENDS TlsProxy, TLAPS

HeadKnown == (got >= HEAD /\ length = declared) \/ HeadCut

HeadInv ==
  /\ worker # "closed" => answer = "none"
  /\ worker \in {"handshake", "head"} => got < HEAD
  /\ worker \in {"body", "forward", "await"} => HeadKnown

AnsweredInv ==
  /\ origin # "none" => worker \in {"await", "closed"}
  /\ origin # "none" => HeadKnown
  /\ origin = "reset" => target = "whoami"
  /\ target = "upload" /\ origin = "answered" =>
       Forwarded = length /\ (got = Total \/ HeadCut)

IInv == TypeOK /\ HeadInv /\ AnsweredInv /\ CreatedMeansReceived

LEMMA InitIInv == Init => IInv
  BY TlsProxyAssumption DEF Init, IInv, TypeOK, HeadInv, AnsweredInv, CreatedMeansReceived, Total

LEMMA Types ==
  ASSUME TypeOK
  PROVE  /\ HEAD \in Nat /\ HEAD > 0 /\ declared \in Nat /\ length \in Nat
         /\ sent \in Nat /\ got \in Nat /\ deaths \in Nat
         /\ got <= sent /\ sent <= HEAD + declared /\ length <= declared
<1>1. HEAD \in Nat /\ HEAD > 0 /\ MaxDeclared \in Nat /\ MaxDeaths \in Nat
  BY TlsProxyAssumption
<1>2. declared \in Nat /\ deaths \in Nat
  BY <1>1 DEF TypeOK
<1>3. sent \in Nat /\ sent <= HEAD + declared /\ length \in Nat /\ length <= declared
  BY <1>1, <1>2 DEF TypeOK, Total
<1>4. got \in Nat /\ got <= sent
  BY <1>3 DEF TypeOK
<1> QED BY <1>1, <1>2, <1>3, <1>4

LEMMA ClientStep ==
  ASSUME IInv, Client
  PROVE  IInv'
<1>1. UNCHANGED <<proxy, target, declared, worker, got, length, answer, origin, deaths>>
  BY DEF Client, ClientSends, ClientEnds, request, workerVars, originVars
<1>2. \/ client = "open" /\ client' = client /\ sent' = sent + 1 /\ sent < Total
      \/ client = "open" /\ client' = "ended" /\ sent' = sent
  BY DEF Client, ClientSends, ClientEnds
<1>3. TypeOK'
  <2>1. sent' \in Nat /\ got <= sent' /\ sent' <= HEAD + declared
    BY <1>2, Types DEF IInv, Total
  <2>2. client' \in {"open", "ended"}
    BY <1>2
  <2> QED BY <1>1, <2>1, <2>2, Types DEF IInv, TypeOK, Total
<1>4. HeadInv' /\ AnsweredInv' /\ CreatedMeansReceived'
  <2>1. HeadCut => HeadCut'
    BY <1>1, <1>2 DEF HeadCut
  <2>2. Total' = Total /\ Forwarded' = Forwarded
    BY <1>1 DEF Total, Forwarded
  <2> QED BY <1>1, <2>1, <2>2 DEF IInv, HeadInv, HeadKnown, AnsweredInv, CreatedMeansReceived
<1> QED BY <1>3, <1>4 DEF IInv

\* A worker that closes its connection, having sent what it may send.
LEMMA CloseStep ==
  ASSUME IInv, NEW a \in {"none", "too_large", "ok", "created", "cut"}, CloseWith(a),
         a = "created" => a = answer \/ (target = "upload" /\ origin = "answered")
  PROVE  IInv'
<1>1. /\ UNCHANGED <<proxy, target, declared, client, sent, got, length, origin, deaths>>
      /\ worker' = "closed" /\ answer' = a
  BY DEF CloseWith, request, clientVars, originVars
<1>2. Total' = Total /\ Forwarded' = Forwarded /\ HeadCut' = HeadCut
  BY <1>1 DEF Total, Forwarded, HeadCut
<1>3. TypeOK'
  BY <1>1, <1>2 DEF IInv, TypeOK
<1>4. HeadInv' /\ AnsweredInv' /\ CreatedMeansReceived'
  BY <1>1, <1>2 DEF IInv, HeadInv, HeadKnown, AnsweredInv, CreatedMeansReceived
<1> QED BY <1>3, <1>4 DEF IInv

LEMMA EndingStep ==
  ASSUME IInv,
         \/ HandshakeRefused \/ HandshakeEnds \/ Timeout \/ ConnectFails \/ HangUp
         \/ Deliver \/ DeliverCut \/ DeliverReset
  PROVE  IInv'
<1>1. answer \in {"none", "too_large", "ok", "created", "cut"}
  BY DEF IInv, TypeOK
<1>2. CASE HandshakeRefused \/ HandshakeEnds \/ Timeout \/ ConnectFails \/ HangUp
  BY <1>1, <1>2, CloseStep DEF HandshakeRefused, HandshakeEnds, Timeout, ConnectFails,
     HangUp, Close
<1>3. Response \in {"ok", "created"} /\ (Response = "created" => target = "upload")
  BY DEF Response
<1>4. CASE Deliver
  BY <1>1, <1>3, <1>4, CloseStep DEF Deliver
<1>5. CASE DeliverCut
  BY <1>1, <1>5, CloseStep DEF DeliverCut
<1>6. CASE DeliverReset
  BY <1>1, <1>3, <1>6, CloseStep DEF DeliverReset, IInv, AnsweredInv
<1> QED BY <1>2, <1>4, <1>5, <1>6

\* What a worker knows of its head when it goes on with it, or reads more of it.
LEMMA ReadingStep ==
  ASSUME IInv, Handshake \/ ReadHead \/ HeadEnds \/ ReadBody \/ BodyEnds
  PROVE  IInv'
<1>1. UNCHANGED <<proxy, target, declared, client, sent, origin, deaths>>
  BY DEF Handshake, ReadHead, HeadEnds, ReadBody, BodyEnds, Proceed, CloseWith, Close,
     request, clientVars, originVars
<1>2. worker \in {"handshake", "head", "body"} /\ origin = "none"
  BY DEF IInv, TypeOK, AnsweredInv, Handshake, ReadHead, HeadEnds, ReadBody, BodyEnds
<1>3. ASSUME worker' \in {"head", "body", "forward", "closed"},
             got' \in got .. sent, length' \in 0 .. declared,
             answer' \in {"none", "too_large"}, HeadInv'
      PROVE  IInv'
  <2>1. TypeOK'
    BY <1>1, <1>3, Types DEF IInv, TypeOK, Total
  <2>2. AnsweredInv' /\ CreatedMeansReceived'
    BY <1>1, <1>2, <1>3 DEF IInv, AnsweredInv, CreatedMeansReceived
  <2> QED BY <1>3, <2>1, <2>2 DEF IInv
<1>4. ASSUME NEW n \in 0 .. declared, NEW m \in got .. sent, Proceed(n, m),
             \/ m >= HEAD /\ n = declared
             \/ m = got /\ HeadCut
      PROVE  IInv'
  <2>1. HeadInv'
    <3>1. HeadKnown'
      BY <1>1, <1>4 DEF Proceed, HeadKnown, HeadCut
    <3> QED BY <1>2, <1>4, <3>1 DEF IInv, HeadInv, HeadKnown, Proceed
  <2>2. answer' \in {"none", "too_large"}
    BY <1>2, <1>4 DEF IInv, HeadInv, HeadKnown, Proceed
  <2> QED BY <1>3, <1>4, <2>1, <2>2 DEF Proceed
<1>5. CASE Handshake
  BY <1>1, <1>2, <1>3, <1>5, Types DEF IInv, HeadInv, HeadKnown, TypeOK, Handshake
<1>6. CASE ReadHead
  <2>1. PICK m \in got + 1 .. sent :
          IF m >= HEAD THEN Proceed(declared, m)
          ELSE got' = m /\ UNCHANGED <<request, clientVars, worker, length, answer, originVars>>
    BY <1>6 DEF ReadHead
  <2>2. m \in got .. sent /\ declared \in 0 .. declared /\ m \in Nat /\ HEAD \in Nat
    BY Types DEF IInv
  <2>3. CASE m >= HEAD
    BY <1>4, <2>1, <2>2, <2>3
  <2>4. CASE ~(m >= HEAD)
    <3>1. HeadInv'
      BY <1>1, <1>6, <2>1, <2>2, <2>4 DEF IInv, HeadInv, HeadKnown, ReadHead
    <3> QED BY <1>2, <1>3, <1>6, <2>1, <2>2, <2>4, <3>1 DEF IInv, TypeOK, HeadInv, ReadHead
  <2> QED BY <2>3, <2>4
<1>7. CASE HeadEnds
  <2>1. CASE Close
    BY <2>1, CloseStep DEF Close, IInv, TypeOK
  <2>2. CASE ~Close
    <3>1. PICK n \in 0 .. declared : Proceed(n, got)
      BY <1>7, <2>2 DEF HeadEnds
    <3>2. got = got /\ HeadCut /\ got \in got .. sent
      BY <1>7, <2>2, Types DEF HeadEnds, HeadCut, IInv, HeadInv, HeadKnown
    <3> QED BY <1>4, <3>1, <3>2
  <2> QED BY <2>1, <2>2
<1>8. CASE ReadBody
  <2>1. PICK m \in got + 1 .. sent :
          got' = m /\ worker' = IF m < HEAD + length THEN "body" ELSE "forward"
    BY <1>8 DEF ReadBody
  <2>2. m \in got .. sent /\ m \in Nat /\ m > got
    BY Types DEF IInv
  <2>3. got >= HEAD /\ length = declared
    BY <1>8, <2>2, Types DEF IInv, HeadInv, HeadKnown, HeadCut, ReadBody
  <2>4. HeadInv'
    BY <1>1, <1>8, <2>1, <2>2, <2>3, Types DEF IInv, HeadInv, HeadKnown, ReadBody
  <2> QED BY <1>2, <1>3, <1>8, <2>1, <2>2, <2>4 DEF IInv, TypeOK, HeadInv, HeadKnown, ReadBody
<1>9. CASE BodyEnds
  <2>1. CASE proxy = "ts"
    BY <1>9, <2>1, CloseStep DEF BodyEnds, Close, IInv, TypeOK
  <2>2. CASE proxy # "ts"
    <3>1. HeadInv'
      <4>1. UNCHANGED <<got, length, answer>> /\ worker' = "forward"
        BY <1>9, <2>2 DEF BodyEnds
      <4>2. HeadCut' = HeadCut
        BY <1>1, <4>1 DEF HeadCut
      <4> QED BY <1>1, <1>2, <1>9, <4>1, <4>2 DEF IInv, HeadInv, HeadKnown, BodyEnds
    <3> QED BY <1>2, <1>3, <1>9, <2>2, <3>1, Types DEF IInv, TypeOK, HeadInv, HeadKnown, BodyEnds
  <2> QED BY <2>1, <2>2
<1> QED BY <1>5, <1>6, <1>7, <1>8, <1>9

LEMMA OriginStep ==
  ASSUME IInv, Forward \/ OriginAnswers \/ OriginDies
  PROVE  IInv'
<1>1. /\ UNCHANGED <<proxy, target, declared, client, sent, got, length, answer>>
      /\ worker' \in {worker, "await"}
  BY DEF Forward, OriginAnswers, OriginDies, request, clientVars, workerVars
<1>2. TypeOK'
  <2>1. /\ worker' \in {"handshake", "head", "body", "forward", "await", "closed"}
        /\ origin' \in {"none", "reading", "answered", "reset", "died"}
    BY <1>1 DEF IInv, TypeOK, Forward, OriginAnswers, OriginDies
  <2>2. deaths' = deaths \/ (deaths < MaxDeaths /\ deaths' = deaths + 1)
    BY DEF Forward, OriginAnswers, OriginDies
  <2>3. deaths' \in 0 .. MaxDeaths
    BY <2>2, TlsProxyAssumption DEF IInv, TypeOK
  <2> QED BY <1>1, <2>1, <2>3 DEF IInv, TypeOK, Total
<1>3. Total' = Total /\ Forwarded' = Forwarded /\ HeadCut' = HeadCut
  BY <1>1 DEF Total, Forwarded, HeadCut
<1>4. HeadInv'
  BY <1>1, <1>3 DEF IInv, HeadInv, HeadKnown, Forward, OriginAnswers, OriginDies, workerVars
<1>5. CreatedMeansReceived'
  BY <1>1, <1>3 DEF IInv, CreatedMeansReceived
<1>6. HeadKnown
  BY DEF IInv, HeadInv, HeadKnown, AnsweredInv, Forward, OriginAnswers, OriginDies
<1>7. worker' \in {"await", "closed"}
  BY DEF IInv, AnsweredInv, Forward, OriginAnswers, OriginDies, workerVars
<1>8. origin' = "reset" => target = "whoami"
  BY DEF Forward, OriginAnswers, OriginDies
<1>9. ASSUME target = "upload", origin' = "answered"
      PROVE  Forwarded = length /\ (got = Total \/ HeadCut)
  <2>1. Forwarded >= length
    BY <1>9 DEF Forward, OriginAnswers, OriginDies
  <2>2. CASE got >= HEAD /\ length = declared
    BY <2>1, <2>2, Types DEF IInv, Forwarded, Total
  <2>3. CASE HeadCut
    BY <2>1, <2>3, Types DEF IInv, Forwarded, HeadCut
  <2> QED BY <1>6, <2>2, <2>3 DEF HeadKnown
<1>10. AnsweredInv'
  BY <1>1, <1>3, <1>6, <1>7, <1>8, <1>9 DEF AnsweredInv, HeadKnown
<1> QED BY <1>2, <1>4, <1>5, <1>10 DEF IInv

LEMMA StepIInv == IInv /\ [Next]_vars => IInv'
<1> SUFFICES ASSUME IInv, [Next]_vars PROVE IInv'
  OBVIOUS
<1>1. CASE UNCHANGED vars
  <2>1. UNCHANGED <<proxy, target, declared, client, sent, worker, got, length, answer,
                    origin, deaths>>
    BY <1>1 DEF vars, request, clientVars, workerVars, originVars
  <2>2. Total' = Total /\ Forwarded' = Forwarded /\ HeadCut' = HeadCut
    BY <2>1 DEF Total, Forwarded, HeadCut
  <2>3. TypeOK'
    BY <2>1, <2>2 DEF IInv, TypeOK
  <2>4. HeadInv' /\ AnsweredInv' /\ CreatedMeansReceived'
    BY <2>1, <2>2 DEF IInv, HeadInv, HeadKnown, AnsweredInv, CreatedMeansReceived
  <2> QED BY <2>3, <2>4 DEF IInv
<1> QED BY <1>1, ClientStep, EndingStep, ReadingStep, OriginStep DEF Next, Worker

\* The two ends, the worker and the origin keep their types.
THEOREM TypeCorrect == Spec => []TypeOK
<1>1. IInv => TypeOK
  BY DEF IInv
<1> QED BY InitIInv, StepIInv, <1>1, PTL DEF Spec

\* Whatever is cut short, dies or times out, an upload that is reported as created
\* reached the origin as the proxy forwarded it, to the last byte its head declares;
\* that is the client's whole upload but for a Python proxy's client that closed
\* its side inside its own head, which may be told that a shorter one was created.
THEOREM AcknowledgedUploads == Spec => []CreatedMeansReceived
<1>1. IInv => CreatedMeansReceived
  BY DEF IInv
<1> QED BY InitIInv, StepIInv, <1>1, PTL DEF Spec
=============================================================================
