----------------------------- MODULE HttpServer -----------------------------
(***************************************************************************)
(* The HTTP layer of mymuduo/http on one connection: HttpServer's message  *)
(* callback with HttpContext, the parser that keeps its state from one     *)
(* callback to the next, and a client that sends requests, one after the   *)
(* other or without waiting for the replies.                               *)
(*                                                                         *)
(* The input is a sequence of lines, each with its CRLF, and of pieces of  *)
(* bodies.  A read that ends inside of a line shows findCRLF no end of it, *)
(* as one that ends before the line does, so lines arrive in one piece;    *)
(* bodies arrive piece by piece, each counting one for Content-Length.  A  *)
(* client may send a body with any request and any Content-Length, so the  *)
(* parser may come to read a body, or the rest of it, as lines: what these *)
(* say is left open.  Paths, queries and other headers are left out.  A    *)
(* step of the server is one iteration of parseRequest, or the rest of     *)
(* onMessage.                                                              *)
(***************************************************************************)
EXTENDS Integers, Sequences

CONSTANTS
    Requests,       \* what clients send, records of RequestType
    Numbers,        \* the numbers a Content-Length may have
    MaxRequests     \* bound: requests one client sends

Methods == {"kInvalid", "kGet", "kPost", "kPut"}   \* kPut, kHead and kDelete alike
Versions == {"kUnknown", "kHttp10", "kHttp11"}

\* The value of the header Connection, and that of Content-Length, which is
\* NoLength when there is none, no number or a negative one.
Connections == {"", "close", "Keep-Alive"}
NoLength == -1
Lengths == Numbers \cup {NoLength}

\* A piece of a body: text without a line end, or text up to a line end.
BodyPieces == [kind : {"byte", "crlf"}]

RequestType ==
    [method : Methods, version : Versions, connection : Connections, length : Lengths,
     body : Seq(BodyPieces)]

ASSUME NumbersAssumption == Numbers \subseteq Nat
ASSUME RequestsAssumption == Requests \subseteq RequestType
ASSUME MaxRequestsAssumption == MaxRequests \in Nat

VARIABLES
    sent,           \* requests the client has begun to send
    unsent,         \* what is left of the last one
    waits,          \* the client waits for a reply before the next request
    network,        \* what the server has not read
    inputBuffer_,   \* what parseRequest has not retrieved
    state_,         \* HttpContext's state
    request_,       \* HttpContext's request, so far
    pc,             \* where the loop is in onMessage
    ok,             \* what parseRequest returns
    connected,      \* the TcpConnection is kConnected, else kDisconnecting
    replies,        \* what was passed to write, each with its close mark
    handled,        \* requests the httpCallback_ was given
    astray,         \* what was taken for a body was not the body that was sent
    terminated      \* "no", "assert" or "exception"

clientVars == <<sent, unsent, waits>>
contextVars == <<state_, request_>>
historyVars == <<handled, astray>>
vars == <<clientVars, network, inputBuffer_, contextVars, pc, ok, connected,
          replies, historyVars, terminated>>

\* Lines: a request line or another line with a space and no colon, headers
\* the server knows, other headers, and a line with neither space nor colon.
Lines ==
    [kind : {"line"}, method : Methods, version : Versions]
    \cup [kind : {"connection"}, value : Connections]
    \cup [kind : {"length"}, value : Lengths]
    \cup [kind : {"other", "empty"}]

Tokens == Lines \cup BodyPieces

ParsedType ==
    [method : Methods, version : Versions, connection : Connections,
     length : Lengths, body : Nat]

ReplyType == [status : {"400", "answer"}, close : BOOLEAN]

TypeOK ==
    /\ sent \in Seq(Requests)
    /\ unsent \in Seq(Tokens)
    /\ waits \in BOOLEAN
    /\ network \in Seq(Tokens)
    /\ inputBuffer_ \in Seq(Tokens)
    /\ state_ \in {"kExpectRequestLine", "kExpectHeaders", "kExpectBody", "kGotAll"}
    /\ request_ \in ParsedType
    /\ pc \in {"idle", "parse", "reply"}
    /\ ok \in BOOLEAN
    /\ connected \in BOOLEAN
    /\ replies \in Seq(ReplyType)
    /\ handled \in Seq(ParsedType)
    /\ astray \in BOOLEAN
    /\ terminated \in {"no", "assert", "exception"}

\* HttpRequest().
NewRequest == [method |-> "kInvalid", version |-> "kUnknown", connection |-> "",
               length |-> NoLength, body |-> 0]

\* onConnection has set the context.
Init ==
    /\ sent = << >> /\ unsent = << >> /\ waits \in BOOLEAN
    /\ network = << >>
    /\ inputBuffer_ = << >>
    /\ state_ = "kExpectRequestLine"
    /\ request_ = NewRequest
    /\ pc = "idle" /\ ok = TRUE
    /\ connected = TRUE
    /\ replies = << >> /\ handled = << >> /\ astray = FALSE
    /\ terminated = "no"

-----------------------------------------------------------------------------
(* The client.                                                             *)

\* A request as its lines and its body.
Encoded(r) ==
    <<[kind |-> "line", method |-> r.method, version |-> r.version]>> \o
    (IF r.connection = "" THEN << >>
     ELSE <<[kind |-> "connection", value |-> r.connection]>>) \o
    (IF r.length = NoLength THEN << >>
     ELSE <<[kind |-> "length", value |-> r.length]>>) \o
    <<[kind |-> "empty"]>> \o
    r.body

ClientBegins(r) ==
    /\ unsent = << >>
    /\ Len(sent) < MaxRequests
    /\ waits => Len(replies) >= Len(sent)
    /\ sent' = Append(sent, r)
    /\ unsent' = Encoded(r)
    /\ UNCHANGED <<waits, network, inputBuffer_, contextVars, pc, ok, connected,
                   replies, historyVars, terminated>>

ClientSends ==
    /\ unsent # << >>
    /\ network' = Append(network, Head(unsent))
    /\ unsent' = Tail(unsent)
    /\ UNCHANGED <<sent, waits, inputBuffer_, contextVars, pc, ok, connected,
                   replies, historyVars, terminated>>

-----------------------------------------------------------------------------
(* TcpConnection::handleRead calls onMessage with what has come.           *)

HandleRead ==
    /\ terminated = "no" /\ pc = "idle"
    /\ network # << >>
    /\ inputBuffer_' = inputBuffer_ \o network
    /\ network' = << >>
    /\ pc' = "parse" /\ ok' = TRUE
    /\ UNCHANGED <<clientVars, contextVars, connected, replies, historyVars, terminated>>

-----------------------------------------------------------------------------
(* HttpContext::parseRequest, one iteration of its loop.                   *)

\* findCRLF: where the first line ends; pieces of a body may lead it.
HasLine == \E i \in DOMAIN inputBuffer_ : inputBuffer_[i].kind # "byte"

findCRLF ==
    CHOOSE i \in DOMAIN inputBuffer_ :
        /\ inputBuffer_[i].kind # "byte"
        /\ \A j \in 1..(i - 1) : inputBuffer_[j].kind = "byte"

\* The text up to there reads as the line l; with pieces of a body in it, it
\* may read as any line.
Reads(l) ==
    /\ HasLine
    /\ IF findCRLF = 1 /\ inputBuffer_[1] \in Lines THEN l = inputBuffer_[1] ELSE l \in Lines

retrieveUntil(i) == inputBuffer_' = SubSeq(inputBuffer_, i + 1, Len(inputBuffer_))

\* processRequestLine calls setMethod for a line that has a space ...
callsSetMethod(l) == l.kind # "empty"

\* ... with a word that is a method or is not, ...
setMethod(l) == IF l.kind = "line" THEN l.method ELSE "kInvalid"

\* ... and then wants HTTP/1.0 or HTTP/1.1.
processRequestLine(l) == setMethod(l) # "kInvalid" /\ l.version # "kUnknown"

Parsing(state) == terminated = "no" /\ pc = "parse" /\ state_ = state

\* Nothing of these changes while parseRequest runs.
ParseFrame == UNCHANGED <<clientVars, network, connected, replies, handled>>

\* The assertion of setMethod.
ParseAsserts(l) ==
    /\ Parsing("kExpectRequestLine") /\ Reads(l)
    /\ callsSetMethod(l) /\ request_.method # "kInvalid"
    /\ terminated' = "assert"
    /\ ParseFrame
    /\ UNCHANGED <<inputBuffer_, contextVars, pc, ok, astray>>

ParseRequestLine(l) ==
    /\ Parsing("kExpectRequestLine") /\ Reads(l)
    /\ callsSetMethod(l) => request_.method = "kInvalid"
    /\ processRequestLine(l)
    /\ request_' = [request_ EXCEPT !.method = setMethod(l), !.version = l.version]
    /\ retrieveUntil(findCRLF)
    /\ state_' = "kExpectHeaders"
    /\ ParseFrame
    /\ UNCHANGED <<pc, ok, astray, terminated>>

\* The line stays in the buffer, where it will read the same again, and the
\* method it set in the request.
ParseBadRequestLine(l) ==
    /\ Parsing("kExpectRequestLine") /\ Reads(l)
    /\ callsSetMethod(l) => request_.method = "kInvalid"
    /\ ~processRequestLine(l)
    /\ request_' = [request_ EXCEPT !.method = IF callsSetMethod(l) THEN setMethod(l) ELSE @]
    /\ inputBuffer_' = <<l>> \o SubSeq(inputBuffer_, findCRLF + 1, Len(inputBuffer_))
    /\ ok' = FALSE /\ pc' = "reply"
    /\ ParseFrame
    /\ UNCHANGED <<state_, astray, terminated>>

ParseWaitsForLine ==
    /\ Parsing("kExpectRequestLine") \/ Parsing("kExpectHeaders")
    /\ ~HasLine
    /\ pc' = "reply"
    /\ ParseFrame
    /\ UNCHANGED <<inputBuffer_, contextVars, ok, astray, terminated>>

addHeader(r, l) ==
    CASE l.kind = "connection"       -> [r EXCEPT !.connection = l.value]
      [] l.kind = "length"           -> [r EXCEPT !.length = l.value]
      [] l.kind \in {"line", "other"} -> r

\* A line with a colon; a request line may have one in its path.
ParseHeader(l) ==
    /\ Parsing("kExpectHeaders") /\ Reads(l)
    /\ l.kind # "empty"
    /\ request_' = addHeader(request_, l)
    /\ retrieveUntil(findCRLF)
    /\ ParseFrame
    /\ UNCHANGED <<state_, pc, ok, astray, terminated>>

\* The body of the request that is being parsed; the parser takes n pieces
\* of the input for it.
MissesBody(n) == n # Len(sent[Len(handled) + 1].body)

\* Mutant: parseRequest returns after the headers of a POST as well.
ParseHeadersEndReturns(l) ==
    /\ Parsing("kExpectHeaders") /\ Reads(l)
    /\ l.kind \in {"empty", "line"}
    /\ retrieveUntil(findCRLF)
    /\ state_' = IF request_.method = "kPost" THEN "kExpectBody" ELSE "kGotAll"
    /\ pc' = "reply"
    /\ astray' = (astray \/ (request_.method # "kPost" /\ MissesBody(0)))
    /\ ParseFrame
    /\ UNCHANGED <<request_, ok, terminated>>

\* A line without a colon ends the headers, and the request unless it is a
\* POST: a body of another request stays in the buffer.
ParseHeadersEnd(l) ==
    /\ Parsing("kExpectHeaders") /\ Reads(l)
    /\ l.kind \in {"empty", "line"}
    /\ retrieveUntil(findCRLF)
    /\ IF request_.method = "kPost"
       THEN state_' = "kExpectBody" /\ UNCHANGED <<pc, astray>>
       ELSE state_' = "kGotAll" /\ pc' = "reply" /\ astray' = (astray \/ MissesBody(0))
    /\ ParseFrame
    /\ UNCHANGED <<request_, ok, terminated>>

\* stoi("") throws, and so does assign of a negative length; nobody catches.
ParseBodyThrows ==
    /\ Parsing("kExpectBody")
    /\ request_.length = NoLength
    /\ terminated' = "exception"
    /\ ParseFrame
    /\ UNCHANGED <<inputBuffer_, contextVars, pc, ok, astray>>

\* Mutant: a missing Content-Length is taken for a number.
ParseBodyUnchecked ==
    /\ Parsing("kExpectBody")
    /\ request_' = [request_ EXCEPT !.body = request_.length]
    /\ state_' = "kGotAll"
    /\ pc' = "reply"
    /\ ParseFrame
    /\ UNCHANGED <<inputBuffer_, ok, astray, terminated>>

\* retrieve drops n pieces of a body.  When lines are among them, which have
\* lengths of their own, it ends anywhere behind the first, maybe inside of
\* one: what is left of that is text, with its line end or the last half of
\* that, which ends no line.
retrieveBody(n) ==
    IF \A i \in 1..n : inputBuffer_[i] \in BodyPieces
    THEN retrieveUntil(n)
    ELSE \E i \in DOMAIN inputBuffer_, rest \in {<< >>} \cup {<<t>> : t \in BodyPieces} :
            /\ \E j \in 1..i : inputBuffer_[j] \in Lines
            /\ inputBuffer_' = rest \o SubSeq(inputBuffer_, i + 1, Len(inputBuffer_))

\* setBody takes Content-Length bytes, whatever the buffer has; retrieve
\* then drops what is there.  body counts the pieces that were there.
ParseBody ==
    LET n == IF Len(inputBuffer_) < request_.length
             THEN Len(inputBuffer_) ELSE request_.length
    IN  /\ Parsing("kExpectBody")
        /\ request_.length # NoLength
        /\ request_' = [request_ EXCEPT !.body = n]
        /\ astray' = (astray \/ MissesBody(n))
        /\ retrieveBody(n)
        /\ state_' = "kGotAll"
        /\ pc' = "reply"
        /\ ParseFrame
        /\ UNCHANGED <<ok, terminated>>

-----------------------------------------------------------------------------
(* The rest of onMessage.                                                  *)

\* TcpConnection::send and shutdown, which test for kConnected.
SendAndMaybeShutdown(status, close) ==
    IF connected
    THEN /\ replies' = Append(replies, [status |-> status, close |-> close])
         /\ connected' = ~close
    ELSE UNCHANGED <<replies, connected>>

ReplyFrame == pc' = "idle" /\ UNCHANGED <<clientVars, network, inputBuffer_, ok, astray, terminated>>

Replying == terminated = "no" /\ pc = "reply"

\* Mutant: the connection is not shut down after the 400.
ReplyBadRequestStaysOpen ==
    /\ Replying
    /\ ~ok
    /\ replies' = IF connected THEN Append(replies, [status |-> "400", close |-> TRUE])
                  ELSE replies
    /\ ReplyFrame
    /\ UNCHANGED <<connected, contextVars, handled>>

ReplyBadRequest ==
    /\ Replying
    /\ ~ok
    /\ SendAndMaybeShutdown("400", TRUE)
    /\ ReplyFrame
    /\ UNCHANGED <<contextVars, handled>>

\* onRequest: what the request says of the connection.
close ==
    \/ request_.connection = "close"
    \/ request_.version = "kHttp10" /\ request_.connection # "Keep-Alive"

\* Mutant: the headers of the last request stay.
resetKeepsHeaders ==
    /\ state_' = "kExpectRequestLine"
    /\ request_' = [NewRequest EXCEPT !.connection = request_.connection]

\* Mutant: only the state is reset.
resetOnlyState ==
    /\ state_' = "kExpectRequestLine"
    /\ UNCHANGED request_

reset ==
    /\ state_' = "kExpectRequestLine"
    /\ request_' = NewRequest

\* httpCallback_ may leave that as it is, or call setCloseConnection.
Callbacks == {"leaves", "closes", "keeps"}

closeConnection(callback) ==
    \/ callback = "closes"
    \/ callback = "leaves" /\ close

\* onRequest and reset.
ReplyRequest(callback) ==
    /\ Replying
    /\ ok /\ state_ = "kGotAll"
    /\ handled' = Append(handled, request_)
    /\ SendAndMaybeShutdown("answer", closeConnection(callback))
    /\ reset
    /\ ReplyFrame

ReplyNothing ==
    /\ Replying
    /\ ok /\ state_ # "kGotAll"
    /\ ReplyFrame
    /\ UNCHANGED <<contextVars, connected, replies, handled>>

-----------------------------------------------------------------------------

Server ==
    \/ HandleRead
    \/ \E l \in Lines : \/ ParseAsserts(l) \/ ParseRequestLine(l) \/ ParseBadRequestLine(l)
                        \/ ParseHeader(l) \/ ParseHeadersEnd(l)
    \/ ParseWaitsForLine \/ ParseBodyThrows \/ ParseBody
    \/ ReplyBadRequest \/ ReplyNothing
    \/ \E callback \in Callbacks : ReplyRequest(callback)

Next ==
    \/ \E r \in Requests : ClientBegins(r)
    \/ ClientSends
    \/ Server

Spec == Init /\ [][Next]_vars

\* The connection's loop keeps running.  The client need not send anything.
FairSpec == Spec /\ WF_vars(Server)

-----------------------------------------------------------------------------
(* Properties.                                                             *)

WithBody(r) == [r EXCEPT !.body = Len(r.body)]

(***************************************************************************)
(* The requests given to httpCallback_ are those the client sent, in order *)
(* and each with its own headers and body, wherever the stream was cut     *)
(* into reads and however many requests one read brought, until the parser *)
(* first misses a body: one that was not there yet, that has not the       *)
(* length its Content-Length says, or that came with another method than   *)
(* POST.  state_ carries parseRequest over from one read to the next, and  *)
(* reset() leaves nothing of one request to the next.                      *)
(***************************************************************************)
RequestsAsSent ==
    ~astray => \A i \in DOMAIN handled : i \in DOMAIN sent /\ handled[i] = WithBody(sent[i])

(***************************************************************************)
(* A reply that ends the connection, a 400 or one marked Connection: close *)
(* (HttpServer.cpp:57-61, 82-87), is the last one, and nothing else shuts  *)
(* the connection down: the client may rely on the mark.                   *)
(***************************************************************************)
CloseIsLast ==
    /\ \A i \in DOMAIN replies : replies[i].close => i = Len(replies)
    /\ connected <=> \A i \in DOMAIN replies : ~replies[i].close

(***************************************************************************)
(* The assertion of setMethod (HttpRequest.h:37) fails only on a           *)
(* connection that was shut down before, whatever came on it and however   *)
(* it was read: reset() unsets the method of a request that was answered,  *)
(* and after a line that failed with its method set comes the shutdown, so *)
(* that only data behind the end of the connection makes it fail.          *)
(***************************************************************************)
AssertionAfterShutdown == terminated = "assert" => ~connected

(***************************************************************************)
(* The assertion itself, `assert(method_ == kInvalid)` (HttpRequest.h:37): *)
(* setMethod is called only for a request that has no method yet.          *)
(***************************************************************************)
NoAssertionFails == terminated # "assert"

(***************************************************************************)
(* A client that waits for each reply gets one for each request it has     *)
(* sent, unless the server ends the connection, misses a body or is given  *)
(* a POST without Content-Length.  For a client that does not wait nothing *)
(* of the kind holds: a request that came with the one before it stays in  *)
(* the buffer until more data comes (HttpServer.cpp:63-67).                *)
(***************************************************************************)
EveryRequestAnswered ==
    \A i \in 1..MaxRequests :
        (waits /\ unsent = << >> /\ Len(sent) = i)
            ~> (Len(replies) >= i \/ ~connected \/ astray \/ terminated = "exception")

(***************************************************************************)
(* The comment at HttpServer.cpp:50: onRequest is called once all of the   *)
(* request is there, the body with its Content-Length bytes included.      *)
(***************************************************************************)
OnlyWholeRequests ==
    \A i \in DOMAIN handled : handled[i].length > 0 => handled[i].body = handled[i].length

=============================================================================
