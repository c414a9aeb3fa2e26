------------------------------ MODULE TlsProxy ------------------------------
(***************************************************************************)
(* One connection through the TLS proxy of Lesson 15: the client, the      *)
(* proxy's worker (tls_proxy.py, handle_connection; tlsProxy.ts, the       *)
(* secure-connection listener) and the origin's handler (origin.py).  A    *)
(* worker shares nothing with the workers of other connections.            *)
(*                                                                         *)
(* A request is a stream of units: HEAD of them up to the blank line, the  *)
(* first of them the request line, then the body the head declares.  The   *)
(* two proxies are one program but for what ends a wait: the Python one    *)
(* sets a timeout of 5 s once the handshake is over and takes it for       *)
(* nothing but the client's socket; in Node a timer runs over the whole    *)
(* life of the socket, the handshake included, and a client that ends its  *)
(* side closes the connection.                                             *)
(***************************************************************************)
EXTENDS Naturals

CONSTANTS
  HEAD,         \* units of a request's head
  MAX_BODY,     \* MAX_BODY_BYTES, in units
  MaxDeclared,  \* bound: the largest Content-Length a client declares
  MaxDeaths     \* bound: origin handlers that die

ASSUME TlsProxyAssumption ==
  /\ HEAD \in Nat \ {0}
  /\ MAX_BODY \in Nat
  /\ MaxDeclared \in Nat
  /\ MaxDeaths \in Nat

VARIABLES
  proxy,     \* "py" or "ts"
  target,    \* "whoami", which ignores the body, or "upload", which reads it
  declared,  \* Content-Length of the client's request
  client,    \* "open", or "ended" once it has closed its side
  sent,      \* units the client has sent
  worker,    \* where handle_connection is
  got,       \* units the worker has read
  length,    \* content_length, as the worker parsed it
  origin,    \* the origin's handler of this request
  deaths,    \* origin handlers that have died
  answer     \* what the client has been sent

request == <<proxy, target, declared>>
clientVars == <<client, sent>>
workerVars == <<worker, got, length, answer>>
originVars == <<origin, deaths>>
vars == <<request, clientVars, workerVars, originVars>>

Total == HEAD + declared

TypeOK ==
  /\ proxy \in {"py", "ts"}
  /\ target \in {"whoami", "upload"}
  /\ declared \in 0 .. MaxDeclared
  /\ client \in {"open", "ended"}
  /\ sent \in 0 .. Total
  /\ worker \in {"handshake", "head", "body", "forward", "await", "closed"}
  /\ got \in 0 .. sent
  /\ length \in 0 .. declared
  /\ origin \in {"none", "reading", "answered", "reset", "died"}
  /\ deaths \in 0 .. MaxDeaths
  /\ answer \in {"none", "too_large", "ok", "created", "cut"}

Init ==
  /\ proxy \in {"py", "ts"}
  /\ target \in {"whoami", "upload"}
  /\ declared \in 0 .. MaxDeclared
  /\ client = "open"
  /\ sent = 0
  /\ worker = "handshake"
  /\ got = 0
  /\ length = 0
  /\ origin = "none"
  /\ deaths = 0
  /\ answer = "none"

-----------------------------------------------------------------------------
(* The client.  It may stop anywhere: nothing makes it take its next step. *)

ClientSends ==
  /\ client = "open"
  /\ worker # "handshake"
  /\ sent < Total
  /\ sent' = sent + 1
  /\ UNCHANGED <<request, client, workerVars, originVars>>

ClientEnds ==
  /\ client = "open"
  /\ client' = "ended"
  /\ UNCHANGED <<request, sent, workerVars, originVars>>

-----------------------------------------------------------------------------
(* The worker.                                                             *)

CloseWith(a) ==
  /\ worker' = "closed"
  /\ answer' = a
  /\ UNCHANGED <<request, clientVars, got, length, originVars>>

Close == CloseWith(answer)

\* wrap_socket blocks until the client has shaken hands; settimeout comes after.
Handshake ==
  /\ worker = "handshake"
  /\ client = "open"
  /\ worker' = "head"
  /\ UNCHANGED <<request, clientVars, got, length, answer, originVars>>

\* A client that speaks no TLS: SSLError, or tlsClientError.
HandshakeRefused == worker = "handshake" /\ client = "open" /\ Close

\* A bare probe: the client has gone before the handshake is over.
HandshakeEnds == worker = "handshake" /\ client = "ended" /\ Close

\* What the worker does with a head that declares n, having read m units.
Proceed(n, m) ==
  /\ length' = n
  /\ got' = m
  /\ worker' = IF n > MAX_BODY THEN "closed"
               ELSE IF m < HEAD + n THEN "body" ELSE "forward"
  /\ answer' = IF n > MAX_BODY THEN "too_large" ELSE answer
  /\ UNCHANGED <<request, clientVars, originVars>>

\* One recv may end anywhere, also in the body behind the blank line.
ReadHead ==
  /\ worker = "head"
  /\ \E m \in got + 1 .. sent :
       IF m >= HEAD THEN Proceed(declared, m)
       ELSE /\ got' = m
            /\ UNCHANGED <<request, clientVars, worker, length, answer, originVars>>

\* recv returns nothing.  The Python proxy goes on with the head it has: a
\* Content-Length that is cut is a smaller one or, cut to nothing, a ValueError
\* that closes the connection, and one that is missing is 0.
HeadEnds ==
  /\ worker = "head"
  /\ client = "ended"
  /\ got = sent
  /\ \/ Close
     \/ proxy = "py" /\ got > 0 /\ \E n \in 0 .. declared : Proceed(n, got)

\* Mutant of ReadBody: the bytes of the last recv are counted twice.
ReadBodyTwice ==
  /\ worker = "body"
  /\ \E m \in got + 1 .. sent :
       /\ got' = m + 1
       /\ worker' = IF m < HEAD + length THEN "body" ELSE "forward"
  /\ UNCHANGED <<request, clientVars, length, answer, originVars>>

ReadBody ==
  /\ worker = "body"
  /\ \E m \in got + 1 .. sent :
       /\ got' = m
       /\ worker' = IF m < HEAD + length THEN "body" ELSE "forward"
  /\ UNCHANGED <<request, clientVars, length, answer, originVars>>

\* recv returns nothing.  The Python proxy forwards the body it has, under the
\* Content-Length it was declared with.
BodyEnds ==
  /\ worker = "body"
  /\ client = "ended"
  /\ got = sent
  /\ IF proxy = "ts" THEN Close
     ELSE /\ worker' = "forward"
          /\ UNCHANGED <<request, clientVars, got, length, answer, originVars>>

\* Mutant of Timed: no timer runs but on the client's request, as in Python.
TimedInRequest == worker \in {"head", "body"} /\ client = "open" /\ got = sent

\* Where a worker waits with a timer running: on the client after the handshake
\* and, in Node, on the handshake (handshakeTimeout) and on the origin.
Timed ==
  \/ worker \in {"head", "body"} /\ client = "open" /\ got = sent
  \/ proxy = "ts" /\ worker \in {"handshake", "await"}

\* Mutant of Timeout: the timeout is set when the head has been read.
TimeoutInBody == Timed /\ worker # "head" /\ Close

Timeout == Timed /\ Close

\* create_connection, and sendall of the head and whatever body there is.
Forward ==
  /\ worker = "forward"
  /\ worker' = "await"
  /\ origin' = "reading"
  /\ UNCHANGED <<request, clientVars, got, length, answer, deaths>>

\* Nobody listens at the origin: OSError, and the client gets no response.
ConnectFails == worker = "forward" /\ Close

\* Node ends its own side when the client ends, and so drops the response.
HangUp ==
  /\ proxy = "ts"
  /\ worker = "await"
  /\ client = "ended"
  /\ Close

Response == IF target = "upload" THEN "created" ELSE "ok"

\* The origin closes the connection, which ends the response; the proxy passes
\* it on.  A client that has ended its side may or may not still read.
Deliver ==
  /\ worker = "await"
  /\ origin = "answered"
  /\ \E a \in {Response} \cup (IF client = "ended" THEN {answer} ELSE {}) : CloseWith(a)

\* The end of a connection looks the same when the handler has died: what there
\* is of a response is passed on as if it were all.
DeliverCut ==
  /\ worker = "await"
  /\ origin = "died"
  /\ \E a \in {"cut", answer} : CloseWith(a)

\* A reset is an error: the Python proxy drops the response it has collected,
\* the other one has passed on what came before.
DeliverReset ==
  /\ worker = "await"
  /\ origin = "reset"
  /\ \E a \in {answer} \cup (IF proxy = "ts" THEN {Response} ELSE {}) : CloseWith(a)

-----------------------------------------------------------------------------
(* The origin.                                                             *)

Forwarded == IF got > HEAD THEN got - HEAD ELSE 0

\* Mutant of OriginAnswers: the proxy shuts its side down behind the request, so
\* that the handler's read ends, short, instead of waiting.
OriginAnswersShort ==
  /\ origin = "reading"
  /\ origin' = "answered"
  /\ UNCHANGED <<request, clientVars, workerVars, deaths>>

\* Mutant of OriginAnswers: do_POST reads to the end of the connection, which the
\* worker keeps open while it waits for the answer.
OriginReadsToEnd ==
  /\ origin = "reading"
  /\ target = "upload" => worker = "closed"
  /\ origin' = "answered"
  /\ UNCHANGED <<request, clientVars, workerVars, deaths>>

\* do_POST reads as many bytes as the head declares before it answers.  do_GET
\* reads none, and a close with unread bytes may reset the connection.
OriginAnswers ==
  /\ origin = "reading"
  /\ target = "upload" => Forwarded >= length
  /\ origin' \in {"answered"}
       \cup (IF target = "whoami" /\ Forwarded > 0 THEN {"reset"} ELSE {})
  /\ UNCHANGED <<request, clientVars, workerVars, deaths>>

OriginDies ==
  /\ origin = "reading"
  /\ deaths < MaxDeaths
  /\ deaths' = deaths + 1
  /\ origin' = "died"
  /\ UNCHANGED <<request, clientVars, workerVars>>

-----------------------------------------------------------------------------

Client == ClientSends \/ ClientEnds

Worker ==
  \/ ReadHead
  \/ HeadEnds
  \/ ReadBody
  \/ BodyEnds
  \/ Timeout
  \/ Forward
  \/ ConnectFails
  \/ HangUp
  \/ Deliver
  \/ DeliverCut
  \/ DeliverReset
  \/ HandshakeEnds

Next == Client \/ Handshake \/ HandshakeRefused \/ Worker \/ OriginAnswers \/ OriginDies

Spec == Init /\ [][Next]_vars

\* The worker and the origin's handler are threads that run, and a timer that
\* has been set goes off.  The client promises nothing, so neither does the
\* handshake, which needs both.
FairSpec == Spec /\ WF_vars(Worker) /\ WF_vars(OriginAnswers)

-----------------------------------------------------------------------------

\* tls_proxy.py:64-67 takes the end of the stream for the end of the head.
HeadCut == proxy = "py" /\ client = "ended" /\ got = sent /\ got < HEAD

\* An upload is reported as created only when the origin has received every byte
\* its head declares, as the proxy forwarded it; and that is the whole upload,
\* unless the client itself ended inside its head.  Nothing in
\* tls_proxy.py:110-117 checks that: a short body is forwarded as if it were
\* whole, and only the origin's blocking read keeps it from being acknowledged.
CreatedMeansReceived ==
  answer = "created" => /\ Forwarded = length
                        /\ got = Total \/ HeadCut

\* tlsProxy.ts:143 and Node's own handshakeTimeout: whatever its client does or
\* leaves undone, every connection of the TypeScript proxy is closed.
NodeWorkersEnd == proxy = "ts" => <>(worker = "closed")

\* settimeout(5.0) and setTimeout(5000): once the handshake is over no client can
\* keep a worker waiting for the rest of a request, in either language.
NoEndlessRead == worker \in {"head", "body"} ~> worker \notin {"head", "body"}

\* A client that sends its whole request gets its worker to the end in either
\* language, though the worker waits for the end of a response that the origin
\* sends only when it has read all it was promised (origin.py:58-67).
WholeRequestsEnd == sent = Total ~> worker = "closed"

\* tls_proxy.py:84, "a stalled or bare TLS probe must not hang a worker forever".
\* The timeout is set one line too late, after line 83 has waited for the handshake
\* without one; and it is the client's.  Line 114 forwards a body that its client cut
\* under the length it was declared with: the origin waits for the rest, and the
\* worker for the origin, on a socket that has no timeout.
WorkersEnd == <>(worker = "closed")
=============================================================================
