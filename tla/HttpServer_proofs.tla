-------------------------- MODULE HttpServer_proofs -------------------------
(***************************************************************************)
(* Proofs about HttpServer for every set of requests and every number of   *)
(* requests a client sends.                                                *)
(***************************************************************************)
EXTENDS HttpServer, SequenceTheorems, WellFoundedInduction, TLAPS

\* A body is made of tokens.
LEMMA BodyType == ASSUME NEW r \in Requests PROVE r.body \in Seq(Tokens)
  <1>1. r.body \in Seq(BodyPieces)
      BY RequestsAssumption DEF RequestType
  <1>2. BodyPieces \subseteq Tokens
      BY DEF Tokens
  <1> QED BY <1>1, <1>2

\* The lines of a request, as tokens and as lines.
LEMMA HeaderTokens ==
    ASSUME NEW r \in Requests
    PROVE  /\ [kind |-> "line", method |-> r.method, version |-> r.version] \in Tokens \cap Lines
           /\ [kind |-> "connection", value |-> r.connection] \in Tokens \cap Lines
           /\ [kind |-> "length", value |-> r.length] \in Tokens \cap Lines
           /\ [kind |-> "empty"] \in Tokens \cap Lines
  <1>1. r \in RequestType
      BY RequestsAssumption
  <1> QED BY <1>1 DEF RequestType, Tokens, Lines

\* What the client sends of a request has the type of the input.
LEMMA EncodedType == \A r \in Requests : Encoded(r) \in Seq(Tokens)
  <1> SUFFICES ASSUME NEW r \in Requests PROVE Encoded(r) \in Seq(Tokens)
      OBVIOUS
  <1>1. PICK b \in Seq(Tokens) : b = r.body
      BY BodyType
  <1>2. PICK c \in Tokens, e \in Tokens, f \in Tokens, l \in Tokens :
            /\ c = [kind |-> "connection", value |-> r.connection] /\ e = [kind |-> "empty"]
            /\ f = [kind |-> "line", method |-> r.method, version |-> r.version]
            /\ l = [kind |-> "length", value |-> r.length]
      BY HeaderTokens
  <1>3. << >> \in Seq(Tokens) /\ \A t \in Tokens : <<t>> \in Seq(Tokens)
      OBVIOUS
  <1>4. /\ (IF r.connection = "" THEN << >> ELSE <<c>>) \in Seq(Tokens)
        /\ (IF r.length = NoLength THEN << >> ELSE <<l>>) \in Seq(Tokens)
        /\ <<f>> \in Seq(Tokens) /\ <<e>> \in Seq(Tokens)
      BY <1>3, Zenon
  <1>5. \A u, v, w, x, y \in Seq(Tokens) : u \o v \o w \o x \o y \in Seq(Tokens)
      OBVIOUS
  <1> QED BY <1>1, <1>2, <1>4, <1>5, Zenon DEF Encoded

\* Retrieving a part of the buffer leaves what was in it.
LEMMA RetrieveType ==
    ASSUME NEW S, inputBuffer_ \in Seq(S), NEW n \in Nat, retrieveUntil(n)
    PROVE  inputBuffer_' \in Seq(S)
  <1>1. Len(inputBuffer_) \in Nat
      OBVIOUS
  <1>2. \A i \in (n + 1)..Len(inputBuffer_) : inputBuffer_[i] \in S
      BY <1>1
  <1> QED BY <1>1, <1>2, SubSeqProperties DEF retrieveUntil

\* A set of natural numbers has a least one.
LEMMA LeastNatural ==
    ASSUME NEW T \in SUBSET Nat, T # {}
    PROVE  \E x \in T : \A y \in T : x <= y
  <1> DEFINE R == OpToRel(<, Nat)
  <1>1. \E x \in T : \A y \in T : <<y, x>> \notin R
    <2>1. IsWellFoundedOn(R, Nat)
        BY NatLessThanWellFounded
    <2> HIDE DEF R
    <2> QED BY <2>1, WFMin
  <1>2. \A x, y \in Nat : <<y, x>> \notin R => ~(y < x)
      BY DEF OpToRel
  <1>3. PICK x \in T : \A y \in T : <<y, x>> \notin R
      BY <1>1
  <1>4. \A y \in T : ~(y < x)
    <2> HIDE DEF R
    <2> QED BY <1>2, <1>3
  <1>5. \A y \in T : x <= y
      BY <1>4
  <1> QED BY <1>5

\* findCRLF is a place in the buffer.
LEMMA LineType ==
    ASSUME inputBuffer_ \in Seq(Tokens), HasLine
    PROVE  findCRLF \in Nat /\ findCRLF \in DOMAIN inputBuffer_
  <1> DEFINE T == {i \in DOMAIN inputBuffer_ : inputBuffer_[i].kind # "byte"}
             First(i) == /\ inputBuffer_[i].kind # "byte"
                         /\ \A j \in 1..(i - 1) : inputBuffer_[j].kind = "byte"
  <1>1. T \in SUBSET Nat /\ T # {}
      BY DEF HasLine
  <1>2. PICK i \in T : \A j \in T : i <= j
    <2> HIDE DEF T
    <2> QED BY <1>1, LeastNatural
  <1>3. i \in DOMAIN inputBuffer_ /\ First(i)
      BY <1>2
  <1>4. findCRLF \in DOMAIN inputBuffer_
      BY <1>3 DEF findCRLF
  <1> QED BY <1>4

-----------------------------------------------------------------------------
(* Type correctness.                                                       *)

\* Init establishes the types.
LEMMA InitTypeOK == Init => TypeOK
  <1> SUFFICES ASSUME Init PROVE TypeOK
      OBVIOUS
  <1>1. NewRequest \in ParsedType
      BY DEF NewRequest, ParsedType, Methods, Versions, Connections, Lengths, NoLength
  <1>2. /\ sent \in Seq(Requests) /\ unsent \in Seq(Tokens) /\ network \in Seq(Tokens)
        /\ inputBuffer_ \in Seq(Tokens) /\ replies \in Seq(ReplyType)
        /\ handled \in Seq(ParsedType)
      BY DEF Init
  <1>3. /\ waits \in BOOLEAN /\ ok \in BOOLEAN /\ connected \in BOOLEAN /\ astray \in BOOLEAN
        /\ state_ \in {"kExpectRequestLine", "kExpectHeaders", "kExpectBody", "kGotAll"}
        /\ pc \in {"idle", "parse", "reply"}
        /\ terminated \in {"no", "assert", "exception"}
      BY DEF Init
  <1>4. request_ \in ParsedType
      BY <1>1 DEF Init
  <1> QED BY <1>2, <1>3, <1>4, Zenon DEF TypeOK

\* The client's steps keep the types.
LEMMA ClientType ==
    ASSUME TypeOK, ClientSends \/ \E r \in Requests : ClientBegins(r)
    PROVE  TypeOK'
  <1>1. ASSUME NEW r \in Requests, ClientBegins(r) PROVE TypeOK'
    <2>1. Encoded(r) \in Seq(Tokens)
        BY EncodedType
    <2> QED BY <1>1, <2>1 DEF ClientBegins, TypeOK, contextVars, historyVars
  <1>2. CASE ClientSends
    <2>1. Head(unsent) \in Tokens /\ Tail(unsent) \in Seq(Tokens)
        BY <1>2 DEF ClientSends, TypeOK
    <2> QED BY <1>2, <2>1 DEF ClientSends, TypeOK, contextVars, historyVars
  <1> QED BY <1>1, <1>2

ParseLine(l) ==
    \/ ParseAsserts(l) \/ ParseRequestLine(l) \/ ParseBadRequestLine(l)
    \/ ParseHeader(l) \/ ParseHeadersEnd(l)

\* What has been retrieved after a line or a body leaves tokens.
LEMMA SuffixType ==
    ASSUME NEW n \in Nat, NEW t \in Seq(Tokens), inputBuffer_ \in Seq(Tokens)
    PROVE  t \o SubSeq(inputBuffer_, n + 1, Len(inputBuffer_)) \in Seq(Tokens)
  <1>1. \A i \in (n + 1)..Len(inputBuffer_) : inputBuffer_[i] \in Tokens
      OBVIOUS
  <1>2. PICK d \in Seq(Tokens) : d = SubSeq(inputBuffer_, n + 1, Len(inputBuffer_))
    <2>1. Len(inputBuffer_) \in Nat
        OBVIOUS
    <2>2. SubSeq(inputBuffer_, n + 1, Len(inputBuffer_)) \in Seq(Tokens)
        BY <1>1, <2>1, SubSeqProperties
    <2> QED BY <2>2
  <1> QED BY <1>2, ConcatProperties

\* The steps of parseRequest on a line keep the types.
LEMMA ParseLineType ==
    ASSUME TypeOK, NEW l \in Lines, ParseLine(l)
    PROVE  TypeOK'
  <1> USE DEF ParseFrame, clientVars, contextVars
  <1>0. findCRLF \in Nat /\ l \in Tokens
    <2>1. HasLine
        BY DEF ParseLine, ParseAsserts, ParseRequestLine, ParseBadRequestLine,
               ParseHeader, ParseHeadersEnd, Reads
    <2> QED BY <2>1, LineType DEF TypeOK, Tokens
  <1>m. setMethod(l) \in Methods
      BY DEF setMethod, Lines, Methods
  <1>1. CASE ParseAsserts(l)
      BY <1>1 DEF ParseAsserts, TypeOK
  <1>2. CASE ParseRequestLine(l)
    <2>1. inputBuffer_' \in Seq(Tokens)
        BY <1>0, <1>2, RetrieveType DEF ParseRequestLine, TypeOK
    <2>2. l.version \in Versions
        BY <1>2 DEF ParseRequestLine, processRequestLine, setMethod, Lines
    <2>3. request_' \in ParsedType
        BY <1>m, <1>2, <2>2 DEF ParseRequestLine, TypeOK, ParsedType
    <2> QED BY <1>2, <2>1, <2>3 DEF ParseRequestLine, TypeOK
  <1>3. CASE ParseBadRequestLine(l)
    <2>1. request_' \in ParsedType
        BY <1>m, <1>3 DEF ParseBadRequestLine, TypeOK, ParsedType
    <2>2. inputBuffer_' \in Seq(Tokens)
      <3>1. <<l>> \in Seq(Tokens)
          BY <1>0
      <3> QED BY <1>0, <1>3, <3>1, SuffixType DEF ParseBadRequestLine, TypeOK
    <2> QED BY <1>3, <2>1, <2>2 DEF ParseBadRequestLine, TypeOK
  <1>4. CASE ParseHeader(l)
    <2>1. inputBuffer_' \in Seq(Tokens)
        BY <1>0, <1>4, RetrieveType DEF ParseHeader, TypeOK
    <2>2. request_' \in ParsedType
      <3>1. CASE l.kind = "connection"
        <4>1. l.value \in Connections
            BY <3>1 DEF Lines
        <4>2. request_' = [request_ EXCEPT !.connection = l.value]
            BY <1>4, <3>1 DEF ParseHeader, addHeader
        <4> QED BY <4>1, <4>2 DEF TypeOK, ParsedType
      <3>2. CASE l.kind = "length"
        <4>1. l.value \in Lengths
            BY <3>2 DEF Lines
        <4>2. request_' = [request_ EXCEPT !.length = l.value]
            BY <1>4, <3>2 DEF ParseHeader, addHeader
        <4> QED BY <4>1, <4>2 DEF TypeOK, ParsedType
      <3>3. CASE l.kind \in {"line", "other"}
          BY <1>4, <3>3 DEF ParseHeader, addHeader, TypeOK
      <3>4. l.kind \in {"line", "connection", "length", "other", "empty"}
          BY DEF Lines
      <3> QED BY <1>4, <3>1, <3>2, <3>3, <3>4 DEF ParseHeader
    <2> QED BY <1>4, <2>1, <2>2 DEF ParseHeader, TypeOK
  <1>5. CASE ParseHeadersEnd(l)
    <2>1. inputBuffer_' \in Seq(Tokens)
        BY <1>0, <1>5, RetrieveType DEF ParseHeadersEnd, TypeOK
    <2>2. astray' \in BOOLEAN
        BY <1>5 DEF ParseHeadersEnd, TypeOK
    <2> QED BY <1>5, <2>1, <2>2 DEF ParseHeadersEnd, TypeOK
  <1> QED BY <1>1, <1>2, <1>3, <1>4, <1>5 DEF ParseLine

\* The other steps of parseRequest keep the types.
LEMMA ParseType ==
    ASSUME TypeOK, ParseWaitsForLine \/ ParseBodyThrows \/ ParseBody
    PROVE  TypeOK'
  <1> USE DEF ParseFrame, clientVars, contextVars
  <1>1. CASE ParseWaitsForLine
      BY <1>1 DEF ParseWaitsForLine, TypeOK
  <1>2. CASE ParseBodyThrows
      BY <1>2 DEF ParseBodyThrows, TypeOK
  <1>3. CASE ParseBody
    <2> DEFINE n == IF Len(inputBuffer_) < request_.length
                    THEN Len(inputBuffer_) ELSE request_.length
    <2>1. n \in Nat
        BY <1>3, NumbersAssumption DEF ParseBody, TypeOK, ParsedType, Lengths
    <2>2. inputBuffer_' \in Seq(Tokens)
      <3>1. retrieveBody(n)
          BY <1>3 DEF ParseBody
      <3> HIDE DEF n
      <3>2. CASE retrieveUntil(n)
          BY <2>1, <3>2, RetrieveType DEF TypeOK
      <3>3. CASE \E i \in DOMAIN inputBuffer_, rest \in {<< >>} \cup {<<t>> : t \in BodyPieces} :
                    inputBuffer_' = rest \o SubSeq(inputBuffer_, i + 1, Len(inputBuffer_))
        <4>1. PICK i \in DOMAIN inputBuffer_, rest \in {<< >>} \cup {<<t>> : t \in BodyPieces} :
                    inputBuffer_' = rest \o SubSeq(inputBuffer_, i + 1, Len(inputBuffer_))
            BY <3>3
        <4>2. i \in Nat
            BY DEF TypeOK
        <4>3. rest \in Seq(Tokens)
          <5>1. \A t \in BodyPieces : <<t>> \in Seq(Tokens)
              BY DEF Tokens
          <5>2. << >> \in Seq(Tokens)
              OBVIOUS
          <5> QED BY <5>1, <5>2, Zenon
        <4> QED BY <4>1, <4>2, <4>3, SuffixType DEF TypeOK
      <3> QED BY <3>1, <3>2, <3>3 DEF retrieveBody
    <2>3. request_' \in ParsedType
        BY <1>3, <2>1 DEF ParseBody, TypeOK, ParsedType
    <2>4. astray' \in BOOLEAN
        BY <1>3 DEF ParseBody, TypeOK
    <2> QED BY <1>3, <2>2, <2>3, <2>4 DEF ParseBody, TypeOK
  <1> QED BY <1>1, <1>2, <1>3

\* The rest of onMessage keeps the types.
LEMMA OnMessageType ==
    ASSUME TypeOK, ReplyBadRequest \/ ReplyNothing \/ \E c \in Callbacks : ReplyRequest(c)
    PROVE  TypeOK'
  <1> USE DEF ReplyFrame, clientVars, contextVars
  <1>1. ASSUME NEW status \in {"400", "answer"}, NEW b \in BOOLEAN,
               SendAndMaybeShutdown(status, b)
        PROVE  replies' \in Seq(ReplyType) /\ connected' \in BOOLEAN
    <2> DEFINE rec == [status |-> status, close |-> b]
    <2>1. rec \in ReplyType
        BY DEF ReplyType
    <2>2. Append(replies, rec) \in Seq(ReplyType)
      <3> HIDE DEF rec
      <3> QED BY <2>1 DEF TypeOK
    <2>3. (~b) \in BOOLEAN
        OBVIOUS
    <2> QED BY <1>1, <2>2, <2>3, Zenon DEF SendAndMaybeShutdown, TypeOK
  <1>2. CASE ReplyBadRequest
    <2>1. replies' \in Seq(ReplyType) /\ connected' \in BOOLEAN
        BY <1>1, <1>2 DEF ReplyBadRequest
    <2> QED BY <1>2, <2>1 DEF ReplyBadRequest, TypeOK
  <1>3. CASE ReplyNothing
      BY <1>3 DEF ReplyNothing, TypeOK
  <1>4. ASSUME NEW c \in Callbacks, ReplyRequest(c) PROVE TypeOK'
    <2>1. closeConnection(c) \in BOOLEAN
        BY DEF closeConnection
    <2>2. replies' \in Seq(ReplyType) /\ connected' \in BOOLEAN
      <3>1. SendAndMaybeShutdown("answer", closeConnection(c))
          BY <1>4 DEF ReplyRequest
      <3> QED BY <1>1, <2>1, <3>1, Zenon
    <2>3. NewRequest \in ParsedType
        BY DEF NewRequest, ParsedType, Methods, Versions, Connections, Lengths, NoLength
    <2> QED BY <1>4, <2>2, <2>3 DEF ReplyRequest, reset, TypeOK
  <1> QED BY <1>2, <1>3, <1>4

\* Every step keeps the types.
LEMMA NextTypeOK == TypeOK /\ [Next]_vars => TypeOK'
  <1> SUFFICES ASSUME TypeOK, [Next]_vars PROVE TypeOK'
      OBVIOUS
  <1>1. CASE HandleRead
      BY <1>1 DEF HandleRead, TypeOK, clientVars, contextVars, historyVars
  <1>2. CASE UNCHANGED vars
      BY <1>2 DEF vars, TypeOK, clientVars, contextVars, historyVars
  <1> QED BY <1>1, <1>2, ClientType, ParseLineType, ParseType, OnMessageType
          DEF Next, Server, ParseLine

(***************************************************************************)
(* The parser, the buffer and the replies keep their types: the body has a *)
(* length and the buffer holds lines and bytes of requests, whatever was   *)
(* retrieved from it (HttpContext.cpp:55-126).                             *)
(***************************************************************************)
THEOREM HttpTypes == Spec => []TypeOK
  BY InitTypeOK, NextTypeOK, PTL DEF Spec

-----------------------------------------------------------------------------
(* Replies and the end of the connection.                                  *)

\* CloseIsLast is inductive with the types.
LEMMA NextCloseIsLast == TypeOK /\ CloseIsLast /\ [Next]_vars => CloseIsLast'
  <1> SUFFICES ASSUME TypeOK, CloseIsLast, [Next]_vars PROVE CloseIsLast'
      OBVIOUS
  <1>1. ASSUME NEW status \in {"400", "answer"}, NEW b \in BOOLEAN,
               SendAndMaybeShutdown(status, b)
        PROVE  CloseIsLast'
    <2>1. CASE ~connected
        BY <1>1, <2>1 DEF SendAndMaybeShutdown, CloseIsLast
    <2>2. CASE connected
      <3> DEFINE rec == [status |-> status, close |-> b]
      <3>1. rec \in ReplyType /\ rec.close = b
          BY DEF ReplyType
      <3>2. replies' = Append(replies, rec) /\ connected' = ~b
          BY <1>1, <2>2 DEF SendAndMaybeShutdown
      <3> HIDE DEF rec
      <3>3. /\ Len(replies') = Len(replies) + 1
            /\ \A i \in DOMAIN replies : replies'[i] = replies[i]
            /\ replies'[Len(replies) + 1] = rec
            /\ DOMAIN replies' = DOMAIN replies \cup {Len(replies) + 1}
          BY <3>1, <3>2 DEF TypeOK
      <3>4. \A i \in DOMAIN replies : ~replies[i].close
          BY <2>2 DEF CloseIsLast
      <3>5. \A i \in DOMAIN replies' : replies'[i].close => i = Len(replies')
          BY <3>3, <3>4
      <3>6. (\A i \in DOMAIN replies' : ~replies'[i].close) <=> ~b
          BY <3>1, <3>3, <3>4
      <3> QED BY <3>2, <3>5, <3>6 DEF CloseIsLast
    <2> QED BY <2>1, <2>2
  <1>2. CASE ReplyBadRequest
      BY <1>1, <1>2 DEF ReplyBadRequest
  <1>3. ASSUME NEW c \in Callbacks, ReplyRequest(c) PROVE CloseIsLast'
    <2>1. closeConnection(c) \in BOOLEAN
        BY DEF closeConnection
    <2> QED BY <1>1, <1>3, <2>1 DEF ReplyRequest
  <1>4. CASE UNCHANGED <<replies, connected>>
      BY <1>4 DEF CloseIsLast
  <1>5. \/ ReplyBadRequest \/ \E c \in Callbacks : ReplyRequest(c)
        \/ UNCHANGED <<replies, connected>>
      BY DEF Next, Server, vars, ClientBegins, ClientSends, HandleRead, ParseFrame,
             ParseAsserts, ParseRequestLine, ParseBadRequestLine, ParseWaitsForLine,
             ParseHeader, ParseHeadersEnd, ParseBodyThrows, ParseBody, ReplyNothing
  <1> QED BY <1>2, <1>3, <1>4, <1>5

(***************************************************************************)
(* A reply that announces the end of the connection is the last one, and   *)
(* only such a reply ends it (HttpServer.cpp:57-61, 82-87), for every      *)
(* sequence of requests.                                                   *)
(***************************************************************************)
THEOREM LastReplyCloses == Spec => []CloseIsLast
  <1>1. Init => CloseIsLast
      BY DEF Init, CloseIsLast
  <1> QED BY <1>1, HttpTypes, NextCloseIsLast, PTL DEF Spec

-----------------------------------------------------------------------------
(* The assertion of setMethod.                                             *)

(***************************************************************************)
(* A method is set at a request line only when the line before was found   *)
(* bad, so that the 400 and the shutdown are next or the connection is     *)
(* shut down already.                                                      *)
(***************************************************************************)
MethodUnset ==
    /\ state_ = "kExpectRequestLine" /\ request_.method # "kInvalid" =>
           ~connected \/ (pc = "reply" /\ ~ok)
    /\ AssertionAfterShutdown

\* The connection, once shut down, stays so.
LEMMA ShutDownStays == TypeOK /\ ~connected /\ [Next]_vars => ~connected'
  BY DEF Next, Server, vars, ClientBegins, ClientSends, HandleRead, ParseFrame,
         ParseAsserts, ParseRequestLine, ParseBadRequestLine, ParseWaitsForLine,
         ParseHeader, ParseHeadersEnd, ParseBodyThrows, ParseBody, ReplyNothing,
         ReplyRequest, ReplyBadRequest, SendAndMaybeShutdown

\* Every step keeps MethodUnset.
LEMMA NextMethodUnset == TypeOK /\ MethodUnset /\ [Next]_vars => MethodUnset'
  <1> SUFFICES ASSUME TypeOK, MethodUnset, [Next]_vars, connected PROVE MethodUnset'
    <2>1. ~connected' => MethodUnset'
        BY DEF MethodUnset, AssertionAfterShutdown
    <2> QED BY <2>1, ShutDownStays
  <1>0. /\ terminated # "assert"
        /\ state_ = "kExpectRequestLine" /\ request_.method # "kInvalid" => pc = "reply" /\ ~ok
      BY DEF MethodUnset, AssertionAfterShutdown
  <1> USE DEF MethodUnset, AssertionAfterShutdown
  <1>1. CASE ClientSends \/ \E r \in Requests : ClientBegins(r)
    <2>1. UNCHANGED <<state_, request_, pc, ok, connected, terminated>>
        BY <1>1 DEF ClientSends, ClientBegins, contextVars
    <2> QED BY <1>0, <2>1
  <1>2. CASE HandleRead
      BY <1>0, <1>2 DEF HandleRead, contextVars
  <1>3. ASSUME NEW l \in Lines, ParseLine(l) PROVE MethodUnset'
    <2>1. CASE ParseAsserts(l)
        BY <1>0, <2>1 DEF ParseAsserts, Parsing
    <2>2. CASE ParseBadRequestLine(l)
        BY <1>0, <2>2 DEF ParseBadRequestLine
    <2>3. CASE ParseRequestLine(l) \/ ParseHeader(l) \/ ParseHeadersEnd(l)
        BY <1>0, <2>3 DEF ParseRequestLine, ParseHeader, ParseHeadersEnd, Parsing
    <2> QED BY <1>3, <2>1, <2>2, <2>3 DEF ParseLine
  <1>4. CASE ParseWaitsForLine
      BY <1>0, <1>4 DEF ParseWaitsForLine, Parsing, contextVars
  <1>5. CASE ParseBodyThrows \/ ParseBody
      BY <1>0, <1>5 DEF ParseBodyThrows, ParseBody, Parsing, contextVars
  <1>6. CASE ReplyBadRequest
    <2>1. ~connected' /\ terminated' = terminated
        BY <1>6 DEF ReplyBadRequest, SendAndMaybeShutdown, ReplyFrame
    <2> QED BY <2>1
  <1>7. CASE ReplyNothing
      BY <1>0, <1>7 DEF ReplyNothing, Replying, ReplyFrame, contextVars
  <1>8. ASSUME NEW c \in Callbacks, ReplyRequest(c) PROVE MethodUnset'
      BY <1>0, <1>8 DEF ReplyRequest, reset, NewRequest, ReplyFrame
  <1>9. CASE UNCHANGED vars
      BY <1>0, <1>9 DEF vars, contextVars
  <1> QED BY <1>1, <1>2, <1>3, <1>4, <1>5, <1>6, <1>7, <1>8, <1>9 DEF Next, Server, ParseLine

(***************************************************************************)
(* The assertion at HttpRequest.h:37 holds for as long as the connection   *)
(* is not shut down, whatever clients send: it fails only for what comes   *)
(* after the last reply.                                                   *)
(***************************************************************************)
THEOREM AssertionHoldsWhileConnected == Spec => []AssertionAfterShutdown
  <1>1. Init => MethodUnset
    <2>1. NewRequest.method = "kInvalid"
        BY DEF NewRequest
    <2>2. Init => request_ = NewRequest /\ terminated # "assert"
        BY DEF Init
    <2> QED BY <2>1, <2>2, Zenon DEF MethodUnset, AssertionAfterShutdown
  <1>2. MethodUnset => AssertionAfterShutdown
      BY DEF MethodUnset
  <1> QED BY <1>1, <1>2, HttpTypes, NextMethodUnset, PTL DEF Spec

-----------------------------------------------------------------------------
(* The parser's place in the stream.                                       *)

(***************************************************************************)
(* T is made of the requests rs[m], rs[m + 1], ... one after the other:    *)
(* mark[i] bytes of it come before rs[i].                                  *)
(***************************************************************************)
Marks(T, rs, m, mark) ==
    /\ mark[m] = 0 /\ mark[Len(rs) + 1] = Len(T)
    /\ \A i, j \in m..(Len(rs) + 1) : i <= j => mark[i] <= mark[j]
    /\ \A i \in m..Len(rs) :
           /\ mark[i + 1] = mark[i] + Len(Encoded(rs[i]))
           /\ \A j \in 1..Len(Encoded(rs[i])) : T[mark[i] + j] = Encoded(rs[i])[j]

Flat(T, rs, m) == \E mark \in [m..(Len(rs) + 1) -> Nat] : Marks(T, rs, m, mark)

\* Nothing follows the last request.
LEMMA FlatEmpty ==
    ASSUME NEW rs \in Seq(Requests)
    PROVE  Flat(<< >>, rs, Len(rs) + 1)
  <1> DEFINE mark == [i \in (Len(rs) + 1)..(Len(rs) + 1) |-> 0]
  <1>1. mark \in [(Len(rs) + 1)..(Len(rs) + 1) -> Nat]
      OBVIOUS
  <1>2. Marks(<< >>, rs, Len(rs) + 1, mark)
      BY DEF Marks
  <1> HIDE DEF mark
  <1> QED BY <1>1, <1>2 DEF Flat

\* Past the last request there is nothing.
LEMMA FlatEnd ==
    ASSUME NEW rs \in Seq(Requests), NEW T \in Seq(Tokens), Flat(T, rs, Len(rs) + 1)
    PROVE  T = << >>
  <1>1. Len(T) = 0
      BY DEF Flat, Marks
  <1> QED BY <1>1

\* The client begins another request.
LEMMA FlatAppend ==
    ASSUME NEW rs \in Seq(Requests), NEW r \in Requests, NEW T \in Seq(Tokens),
           NEW m \in 1..(Len(rs) + 1), Flat(T, rs, m)
    PROVE  Flat(T \o Encoded(r), Append(rs, r), m)
  <1>1. PICK mark \in [m..(Len(rs) + 1) -> Nat] : Marks(T, rs, m, mark)
      BY DEF Flat
  <1>2. PICK e \in Seq(Tokens) : e = Encoded(r)
      BY EncodedType
  <1>3. PICK n \in Nat : n = Len(rs) /\ m \in Nat /\ 1 <= m /\ m <= n + 1
      OBVIOUS
  <1>4. PICK rs2 \in Seq(Requests) : rs2 = Append(rs, r)
      BY AppendProperties
  <1>5. Len(rs2) = n + 1 /\ rs2[n + 1] = r /\ \A i \in 1..n : rs2[i] = rs[i]
      BY <1>3, <1>4
  <1>6. PICK T2 \in Seq(Tokens) : T2 = T \o e
      BY ConcatProperties
  <1>7. /\ Len(T2) = Len(T) + Len(e) /\ \A j \in 1..Len(T) : T2[j] = T[j]
        /\ \A j \in 1..Len(e) : T2[Len(T) + j] = e[j]
      BY <1>6
  <1> DEFINE mark2 == [i \in m..(n + 2) |-> IF i = n + 2 THEN Len(T2) ELSE mark[i]]
  <1>8. /\ mark2 \in [m..(n + 2) -> Nat] /\ mark2[n + 2] = Len(T2)
        /\ \A i \in m..(n + 1) : mark2[i] = mark[i] /\ mark[i] \in Nat
    <2>0. \A i \in m..(n + 1) : i # n + 2 /\ i \in m..(n + 2)
        BY <1>3
    <2>1. \A i \in m..(n + 1) : mark[i] \in Nat
        BY <1>3
    <2>2. n + 2 \in m..(n + 2) /\ Len(T2) \in Nat
        BY <1>3
    <2>3. \A i \in m..(n + 2) : i = n + 2 \/ i \in m..(n + 1)
        BY <1>3
    <2> QED BY <2>0, <2>1, <2>2, <2>3
  <1> HIDE DEF mark2
  <1>9. /\ mark[m] = 0 /\ mark[n + 1] = Len(T)
        /\ \A i, j \in m..(n + 1) : i <= j => mark[i] <= mark[j]
      BY <1>1, <1>3 DEF Marks
  <1>10. \A i, j \in m..(n + 2) : i <= j => mark2[i] <= mark2[j]
    <2>1. ASSUME NEW i \in m..(n + 1) PROVE mark2[i] <= Len(T2)
      <3>1. mark[i] <= mark[n + 1] /\ mark[i] \in Nat /\ mark2[i] = mark[i]
          BY <1>3, <1>8, <1>9
      <3> QED BY <3>1, <1>7, <1>9
    <2>2. \A i \in m..(n + 1), j \in m..(n + 1) : i <= j => mark2[i] <= mark2[j]
        BY <1>3, <1>8, <1>9
    <2>3. \A i \in m..(n + 2) : i \in m..(n + 1) \/ i = n + 2
        BY <1>3
    <2>4. SUFFICES ASSUME NEW i \in m..(n + 2), NEW j \in m..(n + 2), i <= j
                   PROVE  mark2[i] <= mark2[j]
        OBVIOUS
    <2>5. CASE j = n + 2
        BY <2>1, <2>3, <2>5, <1>8
    <2>6. CASE j # n + 2
      <3>1. j \in m..(n + 1) /\ i \in m..(n + 1)
          BY <2>3, <2>4, <2>6, <1>3
      <3> QED BY <2>2, <2>4, <3>1
    <2> QED BY <2>5, <2>6
  <1>11. ASSUME NEW i \in m..(n + 1)
         PROVE  /\ mark2[i + 1] = mark2[i] + Len(Encoded(rs2[i]))
                /\ \A j \in 1..Len(Encoded(rs2[i])) : T2[mark2[i] + j] = Encoded(rs2[i])[j]
    <2>1. CASE i = n + 1
      <3>1. Encoded(rs2[i]) = e
          BY <2>1, <1>2, <1>5
      <3>2. mark2[i] = Len(T) /\ mark2[i + 1] = Len(T2)
        <4>1. n + 1 \in m..(n + 1) /\ i + 1 = n + 2
            BY <2>1, <1>3
        <4> QED BY <2>1, <4>1, <1>8, <1>9
      <3> QED BY <3>1, <3>2, <1>7
    <2>2. CASE i \in m..n
      <3>1. PICK f \in Seq(Tokens) : f = Encoded(rs[i])
          BY <2>2, <1>3, EncodedType
      <3>2. Encoded(rs2[i]) = f
          BY <2>2, <3>1, <1>5
      <3>3. mark[i + 1] = mark[i] + Len(f) /\ \A j \in 1..Len(f) : T[mark[i] + j] = f[j]
          BY <2>2, <3>1, <1>1, <1>3 DEF Marks
      <3>4. /\ mark2[i] = mark[i] /\ mark2[i + 1] = mark[i + 1]
            /\ mark[i] \in Nat /\ mark[i + 1] \in Nat /\ mark[i + 1] <= Len(T)
          BY <2>2, <1>3, <1>8, <1>9
      <3>5. \A j \in 1..Len(f) : mark[i] + j \in 1..Len(T)
        <4>1. PICK a \in Nat, b \in Nat : a = mark[i] /\ b = mark[i + 1]
            BY <3>4
        <4>2. PICK x \in Nat, y \in Nat : x = Len(f) /\ y = Len(T)
            OBVIOUS
        <4>3. b = a + x /\ b <= y
            BY <3>3, <3>4, <4>1, <4>2
        <4>4. \A j \in 1..x : a + j \in 1..y
            BY <4>3
        <4> QED BY <4>1, <4>2, <4>4
      <3> QED BY <3>2, <3>3, <3>4, <3>5, <1>7
    <2> QED BY <2>1, <2>2, <1>3
  <1>12. Marks(T2, rs2, m, mark2)
    <2>1. mark2[m] = 0
        BY <1>3, <1>8, <1>9
    <2>2. Len(rs2) + 1 = n + 2
        BY <1>5
    <2> QED BY <1>5, <1>8, <1>10, <1>11, <2>1, <2>2 DEF Marks
  <1>13. Flat(T2, rs2, m)
    <2>1. Len(rs2) + 1 = n + 2
        BY <1>5
    <2> QED BY <1>8, <1>12, <2>1 DEF Flat
  <1> QED BY <1>2, <1>4, <1>6, <1>13

\* The first request and what follows it.
LEMMA FlatFirst ==
    ASSUME NEW rs \in Seq(Requests), NEW T \in Seq(Tokens), NEW m \in 1..Len(rs), Flat(T, rs, m)
    PROVE  \E U \in Seq(Tokens) : T = Encoded(rs[m]) \o U /\ Flat(U, rs, m + 1)
  <1>1. PICK mark \in [m..(Len(rs) + 1) -> Nat] : Marks(T, rs, m, mark)
      BY DEF Flat
  <1>2. PICK e \in Seq(Tokens) : e = Encoded(rs[m])
      BY EncodedType
  <1>3. PICK n \in Nat : n = Len(rs) /\ m \in Nat /\ 1 <= m /\ m <= n
      OBVIOUS
  <1>4. PICK k \in Nat : k = Len(e)
      OBVIOUS
  <1>5. mark[m] = 0 /\ mark[m + 1] = k /\ mark[n + 1] = Len(T) /\ k <= Len(T)
    <2>1. mark[m] = 0 /\ mark[n + 1] = Len(T) /\ mark[m + 1] = mark[m] + Len(e)
        BY <1>1, <1>2, <1>3 DEF Marks
    <2>2. \A i, j \in m..(n + 1) : i <= j => mark[i] <= mark[j]
        BY <1>1, <1>3 DEF Marks
    <2>3. m + 1 \in m..(n + 1) /\ n + 1 \in m..(n + 1) /\ m + 1 <= n + 1
        BY <1>3
    <2>4. mark[m + 1] <= mark[n + 1]
        BY <2>2, <2>3
    <2> QED BY <1>4, <2>1, <2>4
  <1>6. \A i \in (m + 1)..(n + 1) : mark[i] \in Nat /\ k <= mark[i] /\ mark[i] <= Len(T)
    <2>1. \A i, j \in m..(n + 1) : i <= j => mark[i] <= mark[j]
        BY <1>1, <1>3 DEF Marks
    <2>2. ASSUME NEW i \in (m + 1)..(n + 1)
          PROVE  mark[i] \in Nat /\ k <= mark[i] /\ mark[i] <= Len(T)
      <3>1. /\ i \in m..(n + 1) /\ m + 1 \in m..(n + 1) /\ n + 1 \in m..(n + 1)
            /\ m + 1 <= i /\ i <= n + 1
          BY <1>3
      <3>2. mark[i] \in Nat
          BY <1>3, <3>1
      <3> QED BY <1>5, <2>1, <3>1, <3>2
    <2> QED BY <2>2
  <1>7. \A j \in 1..k : T[j] = e[j]
      BY <1>1, <1>2, <1>3, <1>4, <1>5 DEF Marks
  <1> DEFINE V == SubSeq(T, k + 1, Len(T))
  <1>8. V \in Seq(Tokens) /\ Len(V) = Len(T) - k /\ \A j \in 1..(Len(T) - k) : V[j] = T[k + j]
    <2>1. \A i \in (k + 1)..Len(T) : T[i] \in Tokens
        OBVIOUS
    <2>2. V \in Seq(Tokens)
        BY <2>1, SubSeqProperties
    <2> QED BY <2>2, <1>5
  <1> HIDE DEF V
  <1>9. T = e \o V
    <2>1. e \o V \in Seq(Tokens) /\ Len(e \o V) = Len(T)
        BY <1>4, <1>5, <1>8
    <2>2. \A j \in 1..Len(T) : (e \o V)[j] = T[j]
        BY <1>4, <1>5, <1>7, <1>8
    <2> QED BY <2>1, <2>2, SeqEqual
  <1> DEFINE mark2 == [i \in (m + 1)..(n + 1) |-> mark[i] - k]
  <1>10. mark2 \in [(m + 1)..(n + 1) -> Nat] /\ \A i \in (m + 1)..(n + 1) : mark2[i] = mark[i] - k
      BY <1>3, <1>6
  <1> HIDE DEF mark2
  <1>11. mark2[m + 1] = 0 /\ mark2[n + 1] = Len(V)
    <2>1. m + 1 \in (m + 1)..(n + 1) /\ n + 1 \in (m + 1)..(n + 1)
        BY <1>3
    <2>2. mark2[m + 1] = mark[m + 1] - k /\ mark2[n + 1] = mark[n + 1] - k
        BY <2>1, <1>10
    <2>3. k - k = 0
        OBVIOUS
    <2> QED BY <2>2, <2>3, <1>5, <1>8
  <1>12. \A i, j \in (m + 1)..(n + 1) : i <= j => mark2[i] <= mark2[j]
    <2>1. \A i, j \in (m + 1)..(n + 1) : i <= j => mark[i] <= mark[j]
        BY <1>1, <1>3 DEF Marks
    <2> QED BY <1>3, <1>6, <1>10, <2>1
  <1>13. ASSUME NEW i \in (m + 1)..n
         PROVE  /\ mark2[i + 1] = mark2[i] + Len(Encoded(rs[i]))
                /\ \A j \in 1..Len(Encoded(rs[i])) : V[mark2[i] + j] = Encoded(rs[i])[j]
    <2>1. PICK f \in Seq(Tokens) : f = Encoded(rs[i])
        BY <1>3, EncodedType
    <2>2. mark[i + 1] = mark[i] + Len(f) /\ \A j \in 1..Len(f) : T[mark[i] + j] = f[j]
      <3>1. i \in m..Len(rs)
          BY <1>3
      <3>2. /\ mark[i + 1] = mark[i] + Len(Encoded(rs[i]))
            /\ \A j \in 1..Len(Encoded(rs[i])) : T[mark[i] + j] = Encoded(rs[i])[j]
          BY <1>1, <3>1 DEF Marks
      <3> QED BY <2>1, <3>2, Zenon
    <2>3. /\ mark2[i] = mark[i] - k /\ mark2[i + 1] = mark[i + 1] - k
          /\ mark[i] \in Nat /\ mark[i + 1] \in Nat /\ k <= mark[i] /\ mark[i + 1] <= Len(T)
        BY <1>3, <1>6, <1>10
    <2>4. \A j \in 1..Len(f) : mark2[i] + j \in 1..(Len(T) - k) /\ k + (mark2[i] + j) = mark[i] + j
      <3>1. PICK a \in Nat, b \in Nat : a = mark[i] /\ b = mark[i + 1]
          BY <2>3
      <3>2. PICK x \in Nat, y \in Nat : x = Len(f) /\ y = Len(T)
          OBVIOUS
      <3>3. b = a + x /\ b <= y /\ k <= a /\ mark2[i] = a - k
          BY <2>2, <2>3, <3>1, <3>2
      <3>4. \A j \in 1..x : (a - k) + j \in 1..(y - k) /\ k + ((a - k) + j) = a + j
          BY <3>3
      <3> QED BY <3>1, <3>2, <3>3, <3>4
    <2>5. \A j \in 1..Len(f) : V[mark2[i] + j] = f[j]
        BY <1>8, <2>2, <2>4
    <2> QED BY <2>1, <2>2, <2>3, <2>5
  <1>14. Marks(V, rs, m + 1, mark2)
      BY <1>3, <1>11, <1>12, <1>13 DEF Marks
  <1>15. Flat(V, rs, m + 1)
      BY <1>3, <1>10, <1>14 DEF Flat
  <1> QED BY <1>2, <1>8, <1>9, <1>15

\* What is left when the first part of a stream is taken out of its first piece.
LEMMA DropFirst ==
    ASSUME NEW S, NEW a \in Seq(S), NEW b \in Seq(S), NEW x \in Seq(S), NEW y \in Seq(S),
           a \o b = x \o y, Len(x) <= Len(a)
    PROVE  SubSeq(a, Len(x) + 1, Len(a)) \o b = y
  <1>1. PICK n \in Nat, l \in Nat : n = Len(x) /\ l = Len(a) /\ n <= l
      OBVIOUS
  <1>2. PICK d \in Seq(S) : d = SubSeq(a, n + 1, l)
    <2>1. \A i \in (n + 1)..l : a[i] \in S
        BY <1>1
    <2>2. SubSeq(a, n + 1, l) \in Seq(S)
        BY <1>1, <2>1, SubSeqProperties
    <2> QED BY <2>2
  <1>3. Len(d) = l - n /\ \A i \in 1..(l - n) : d[i] = a[n + i]
      BY <1>1, <1>2
  <1>4. l + Len(b) = n + Len(y)
      BY <1>1, ConcatProperties
  <1>5. Len(d \o b) = Len(y)
      BY <1>1, <1>3, <1>4
  <1>6. ASSUME NEW i \in 1..Len(y) PROVE (d \o b)[i] = y[i]
    <2>1. (x \o y)[n + i] = y[i]
        BY <1>1
    <2>2. (a \o b)[n + i] = (d \o b)[i]
      <3>1. CASE i <= l - n
          BY <1>1, <1>3, <1>4, <3>1
      <3>2. CASE i > l - n
        <4>1. (a \o b)[n + i] = b[(n + i) - l]
            BY <1>1, <1>4, <3>2
        <4>2. (d \o b)[i] = b[i - (l - n)]
            BY <1>1, <1>3, <1>4, <3>2
        <4>3. (n + i) - l = i - (l - n)
            BY <1>1
        <4> QED BY <4>1, <4>2, <4>3
      <3>3. i <= l - n \/ i > l - n
          BY <1>1
      <3> QED BY <3>1, <3>2, <3>3
    <2> QED BY <2>1, <2>2
  <1>7. d \o b = y
      BY <1>5, <1>6, ConcatProperties, SeqEqual
  <1> QED BY <1>1, <1>2, <1>7

\* All that was sent and not retrieved yet.
Stream == inputBuffer_ \o (network \o unsent)

\* The stream is made of tokens.
LEMMA StreamType == ASSUME TypeOK PROVE Stream \in Seq(Tokens)
  BY ConcatProperties DEF TypeOK, Stream

\* What is retrieved from inputBuffer_ is dropped from the stream.
LEMMA StreamDrop ==
    ASSUME TypeOK, NEW x \in Seq(Tokens), NEW y \in Seq(Tokens), Stream = x \o y,
           Len(x) <= Len(inputBuffer_), retrieveUntil(Len(x)), UNCHANGED <<network, unsent>>
    PROVE  Stream' = y
  <1>1. inputBuffer_ \in Seq(Tokens) /\ network \o unsent \in Seq(Tokens)
      BY ConcatProperties DEF TypeOK
  <1>2. SubSeq(inputBuffer_, Len(x) + 1, Len(inputBuffer_)) \o (network \o unsent) = y
      BY <1>1, DropFirst DEF Stream
  <1> QED BY <1>2 DEF Stream, retrieveUntil

\* The line that parseRequest finds is the first one of the stream.
LEMMA StreamLine ==
    ASSUME TypeOK, NEW l, Reads(l), NEW h \in Lines, NEW y \in Seq(Tokens), Stream = <<h>> \o y
    PROVE  /\ findCRLF = 1 /\ l = h /\ inputBuffer_ # << >> /\ inputBuffer_[1] = h
           /\ retrieveUntil(findCRLF) /\ UNCHANGED <<network, unsent>> => Stream' = y
  <1>1. inputBuffer_ \in Seq(Tokens) /\ network \o unsent \in Seq(Tokens)
      BY ConcatProperties DEF TypeOK
  <1>2. Len(inputBuffer_) >= 1 /\ 1 \in DOMAIN inputBuffer_
      BY <1>1 DEF Reads, HasLine
  <1>3. inputBuffer_[1] = h
    <2>1. Stream[1] = inputBuffer_[1]
        BY <1>1, <1>2 DEF Stream
    <2>2. (<<h>> \o y)[1] = h
        OBVIOUS
    <2> QED BY <2>1, <2>2
  <1>k. h.kind # "byte" /\ h \in Tokens
      BY DEF Lines, Tokens
  <1>4. findCRLF = 1
    <2>1. ASSUME NEW i \in DOMAIN inputBuffer_,
                 \A j \in 1..(i - 1) : inputBuffer_[j].kind = "byte"
          PROVE  i = 1
      <3>1. i \in Nat /\ i >= 1
          BY <1>1
      <3>2. ~(1 \in 1..(i - 1))
          BY <1>3, <1>k, <2>1
      <3> QED BY <3>1, <3>2
    <2>2. \A j \in 1..(1 - 1) : inputBuffer_[j].kind = "byte"
        OBVIOUS
    <2> QED BY <1>2, <1>3, <1>k, <2>1, <2>2 DEF findCRLF
  <1>5. l = h
      BY <1>3, <1>4 DEF Reads
  <1>6. ASSUME retrieveUntil(findCRLF), UNCHANGED <<network, unsent>> PROVE Stream' = y
    <2>1. <<h>> \in Seq(Tokens) /\ Len(<<h>>) = 1
        BY <1>k
    <2> QED BY <1>2, <1>4, <1>6, <2>1, StreamDrop
  <1>7. inputBuffer_ # << >>
      BY <1>1, <1>2
  <1> QED BY <1>3, <1>4, <1>5, <1>6, <1>7

\* Concatenation of streams is associative.
LEMMA Joined ==
    ASSUME NEW x \in Seq(Tokens), NEW y \in Seq(Tokens), NEW z \in Seq(Tokens)
    PROVE  (x \o y) \o z = x \o (y \o z) /\ x \o y \in Seq(Tokens)
  BY ConcatAssociative, ConcatProperties

Join(s, t, w) == (s \o t) \o w = s \o (t \o w) /\ s \o t \in Seq(Tokens)

\* The same of any three streams and of the last two of them.
LEMMA JoinedAll == \A s, t, w \in Seq(Tokens) : Join(s, t, w) /\ Join(t, w, s)
  <1> SUFFICES ASSUME NEW s \in Seq(Tokens), NEW t \in Seq(Tokens), NEW w \in Seq(Tokens)
               PROVE  Join(s, t, w) /\ Join(t, w, s)
      OBVIOUS
  <1>1. Join(s, t, w)
      BY Joined DEF Join
  <1>2. Join(t, w, s)
      BY Joined DEF Join
  <1> QED BY <1>1, <1>2

\* The first part of a stream, and the rest of it.
LEMMA JoinedFirst ==
    ASSUME NEW f \in Seq(Tokens), NEW x \in Seq(Tokens), NEW y \in Seq(Tokens),
           NEW z \in Seq(Tokens), NEW b \in Seq(Tokens)
    PROVE  f \o x \o y \o z \o b = f \o (x \o y \o z \o b) /\ x \o y \o z \o b \in Seq(Tokens)
  <1>1. Join(f, x, y) /\ Join(x, y, f)
      BY JoinedAll, Zenon
  <1>2. PICK u \in Seq(Tokens) : u = x \o y
      BY <1>1 DEF Join
  <1>3. Join(f, u, z) /\ Join(u, z, f)
      BY JoinedAll, Zenon
  <1>4. PICK v \in Seq(Tokens) : v = u \o z
      BY <1>3 DEF Join
  <1>5. Join(f, v, b) /\ Join(v, b, f)
      BY JoinedAll, Zenon
  <1> QED BY <1>1, <1>2, <1>3, <1>4, <1>5, Zenon DEF Join

\* What is left of the request r when the parser has the headers of p.
HeadersLeft(p, r) ==
    (IF r.connection = p.connection THEN << >>
     ELSE <<[kind |-> "connection", value |-> r.connection]>>) \o
    (IF r.length = p.length THEN << >>
     ELSE <<[kind |-> "length", value |-> r.length]>>) \o
    <<[kind |-> "empty"]>> \o
    r.body

\* The parser has its line and maybe headers of the request r.
Partial(p, r) ==
    /\ p.method = r.method /\ p.version = r.version /\ p.body = 0
    /\ p.connection \in {"", r.connection}
    /\ p.length \in {NoLength, r.length}

\* The next header, or the end of the headers.
LEMMA NextHeader ==
    ASSUME NEW r \in Requests, NEW p, Partial(p, r), p \in ParsedType
    PROVE  /\ HeadersLeft(p, r) \in Seq(Tokens)
           /\ r.connection # p.connection =>
                  HeadersLeft(p, r) = <<[kind |-> "connection", value |-> r.connection]>> \o
                                      HeadersLeft([p EXCEPT !.connection = r.connection], r)
           /\ r.connection = p.connection /\ r.length # p.length =>
                  HeadersLeft(p, r) = <<[kind |-> "length", value |-> r.length]>> \o
                                      HeadersLeft([p EXCEPT !.length = r.length], r)
           /\ r.connection = p.connection /\ r.length = p.length =>
                  HeadersLeft(p, r) = <<[kind |-> "empty"]>> \o r.body
  <1>0. \A x, y, z \in Seq(Tokens) : (x \o y) \o z = x \o (y \o z)
      BY Joined
  <1>1. PICK b \in Seq(Tokens) : b = r.body
      BY BodyType
  <1>2. PICK c \in Tokens, e \in Tokens :
            c = [kind |-> "connection", value |-> r.connection] /\ e = [kind |-> "empty"]
      BY HeaderTokens
  <1>3. PICK l : l = [kind |-> "length", value |-> r.length]
      OBVIOUS
  <1>4. r.length # p.length => l \in Tokens
      BY <1>3, HeaderTokens DEF Partial
  <1>5. << >> \in Seq(Tokens) /\ \A t \in Tokens : <<t>> \in Seq(Tokens)
      OBVIOUS
  <1>6. \A q : HeadersLeft(q, r) =
              (IF r.connection = q.connection THEN << >> ELSE <<c>>) \o
              (IF r.length = q.length THEN << >> ELSE <<l>>) \o <<e>> \o b
      BY <1>1, <1>2, <1>3 DEF HeadersLeft
  <1>7. PICK m \in Seq(Tokens) : m = IF r.length = p.length THEN << >> ELSE <<l>>
      BY <1>4, <1>5
  <1>8. PICK m1 \in Seq(Tokens) : m1 = m \o <<e>>
      BY <1>5, ConcatProperties
  <1>9. PICK m2 \in Seq(Tokens) : m2 = m1 \o b
      BY ConcatProperties
  <1>11. \A x \in Seq(Tokens) : << >> \o x = x
      BY ConcatEmptySeq
  <1>12. ASSUME NEW q, q.length = p.length
         PROVE  HeadersLeft(q, r) = IF r.connection = q.connection THEN m2 ELSE <<c>> \o m2
    <2>1. CASE r.connection = q.connection
      <3>1. HeadersLeft(q, r) = << >> \o m \o <<e>> \o b
          BY <1>6, <1>7, <1>12, <2>1
      <3>2. << >> \o m = m
          BY <1>11
      <3> QED BY <2>1, <3>1, <3>2, <1>8, <1>9, Zenon
    <2>2. CASE r.connection # q.connection
      <3>1. HeadersLeft(q, r) = <<c>> \o m \o <<e>> \o b
        <4>1. PICK x, y : /\ x = IF r.connection = q.connection THEN << >> ELSE <<c>>
                          /\ y = IF r.length = q.length THEN << >> ELSE <<l>>
            OBVIOUS
        <4>2. HeadersLeft(q, r) = x \o y \o <<e>> \o b
            BY <1>6, <4>1, Zenon
        <4>3. x = <<c>> /\ y = m
            BY <1>7, <1>12, <2>2, <4>1
        <4> QED BY <4>2, <4>3, Zenon
      <3>2. (<<c>> \o m) \o <<e>> = <<c>> \o m1
          BY <1>5, <1>8, <1>0
      <3>3. (<<c>> \o m1) \o b = <<c>> \o m2
          BY <1>5, <1>9, <1>0
      <3> QED BY <2>2, <3>1, <3>2, <3>3, Zenon
    <2> QED BY <2>1, <2>2
  <1>13. HeadersLeft(p, r) \in Seq(Tokens)
    <2>1. <<c>> \o m2 \in Seq(Tokens)
        BY <1>5, ConcatProperties
    <2> QED BY <1>12, <2>1
  <1>14. ASSUME r.connection # p.connection
         PROVE  HeadersLeft(p, r) = <<c>> \o HeadersLeft([p EXCEPT !.connection = r.connection], r)
    <2>1. PICK q : q = [p EXCEPT !.connection = r.connection]
        OBVIOUS
    <2>2. q.connection = r.connection /\ q.length = p.length
        BY <2>1 DEF ParsedType
    <2>3. HeadersLeft(q, r) = m2 /\ HeadersLeft(p, r) = <<c>> \o m2
        BY <1>12, <1>14, <2>2
    <2> QED BY <2>1, <2>3
  <1>15. <<e>> \o b \in Seq(Tokens)
      BY <1>5, ConcatProperties
  <1>16. ASSUME r.connection = p.connection, r.length = p.length
         PROVE  HeadersLeft(p, r) = <<e>> \o b
    <2>1. m = << >> /\ m1 = <<e>>
        BY <1>5, <1>7, <1>8, <1>11, <1>16
    <2>2. HeadersLeft(p, r) = m2
        BY <1>12, <1>16
    <2> QED BY <1>9, <2>1, <2>2
  <1>17. ASSUME r.connection = p.connection, r.length # p.length
         PROVE  HeadersLeft(p, r) = <<l>> \o HeadersLeft([p EXCEPT !.length = r.length], r)
    <2>1. PICK q : q = [p EXCEPT !.length = r.length]
        OBVIOUS
    <2>2. q.length = r.length /\ q.connection = p.connection
        BY <2>1 DEF ParsedType
    <2>3. HeadersLeft(q, r) = << >> \o << >> \o <<e>> \o b
        BY <1>6, <1>17, <2>2
    <2>4. HeadersLeft(q, r) = <<e>> \o b
        BY <1>5, <1>11, <2>3
    <2>5. m = <<l>> /\ l \in Tokens /\ HeadersLeft(p, r) = m2
        BY <1>4, <1>7, <1>12, <1>17
    <2>6. m2 = <<l>> \o (<<e>> \o b)
        BY <1>5, <1>8, <1>9, <1>0, <2>5
    <2> QED BY <2>1, <2>4, <2>5, <2>6
  <1> QED BY <1>1, <1>2, <1>3, <1>13, <1>14, <1>16, <1>17

\* A request is its line and all of its headers.
LEMMA EncodedLine ==
    ASSUME NEW r \in Requests
    PROVE  /\ HeadersLeft(NewRequest, r) \in Seq(Tokens)
           /\ Encoded(r) = <<[kind |-> "line", method |-> r.method, version |-> r.version]>> \o
                           HeadersLeft(NewRequest, r)
  <1>1. PICK b \in Seq(Tokens) : b = r.body
      BY BodyType
  <1>2. PICK c \in Tokens, e \in Tokens, f \in Tokens :
            /\ c = [kind |-> "connection", value |-> r.connection] /\ e = [kind |-> "empty"]
            /\ f = [kind |-> "line", method |-> r.method, version |-> r.version]
      BY HeaderTokens
  <1>3. PICK l : l = [kind |-> "length", value |-> r.length]
      OBVIOUS
  <1>4. r.length # NoLength => l \in Tokens
      BY <1>3, HeaderTokens
  <1>5. << >> \in Seq(Tokens) /\ \A t \in Tokens : <<t>> \in Seq(Tokens)
      OBVIOUS
  <1>6. PICK c1 \in Seq(Tokens), l1 \in Seq(Tokens), e1 \in Seq(Tokens), f1 \in Seq(Tokens) :
            /\ c1 = (IF r.connection = "" THEN << >> ELSE <<c>>)
            /\ l1 = (IF r.length = NoLength THEN << >> ELSE <<l>>)
            /\ e1 = <<e>> /\ f1 = <<f>>
      BY <1>4, <1>5
  <1>7. Encoded(r) = f1 \o c1 \o l1 \o e1 \o b
      BY <1>1, <1>2, <1>3, <1>6 DEF Encoded
  <1>8. HeadersLeft(NewRequest, r) = c1 \o l1 \o e1 \o b
      BY <1>1, <1>2, <1>3, <1>6 DEF HeadersLeft, NewRequest
  <1>9. /\ f1 \o c1 \o l1 \o e1 \o b = f1 \o (c1 \o l1 \o e1 \o b)
        /\ c1 \o l1 \o e1 \o b \in Seq(Tokens)
      BY JoinedFirst
  <1>10. Encoded(r) = f1 \o HeadersLeft(NewRequest, r) /\ HeadersLeft(NewRequest, r) \in Seq(Tokens)
      BY <1>7, <1>8, <1>9, Zenon
  <1> QED BY <1>2, <1>6, <1>10

(***************************************************************************)
(* The parser is in request r, and T is what follows r.                    *)
(***************************************************************************)
Within(r, T) ==
    \/ /\ state_ = "kExpectHeaders" /\ Partial(request_, r)
       /\ Stream = HeadersLeft(request_, r) \o T
    \/ /\ state_ = "kExpectBody" /\ request_ = [WithBody(r) EXCEPT !.body = 0]
       /\ Stream = r.body \o T
    \/ /\ state_ = "kGotAll" /\ request_ = WithBody(r)
       /\ Stream = T

(***************************************************************************)
(* At a request line the stream is the requests that were not handled, and *)
(* the method is set only if this line was found bad before.               *)
(***************************************************************************)
AtLine(k) ==
    /\ state_ = "kExpectRequestLine" /\ Flat(Stream, sent, k + 1)
    /\ request_ = NewRequest \/ request_.method # "kInvalid"

\* The parser is in the request after the k that were handled.
Inside(k) ==
    /\ k < Len(sent)
    /\ \E T \in Seq(Tokens) : Flat(T, sent, k + 2) /\ Within(sent[k + 1], T)

\* The requests handled so far are the ones sent.
Handled ==
    /\ Len(handled) <= Len(sent)
    /\ \A i \in DOMAIN handled : handled[i] = WithBody(sent[i])

\* The inductive invariant.
InPlace == ~astray => Handled /\ (AtLine(Len(handled)) \/ Inside(Len(handled)))

\* A step that leaves the parser and the stream alone.
LEMMA InPlaceSteady ==
    ASSUME InPlace, UNCHANGED <<sent, handled, state_, request_, astray>>, Stream' = Stream
    PROVE  InPlace'
  <1>1. \A r, T : Within(r, T)' <=> Within(r, T)
      BY DEF Within
  <1>2. \A k : AtLine(k)' <=> AtLine(k)
      BY DEF AtLine
  <1>3. \A k : Inside(k)' <=> Inside(k)
      BY <1>1 DEF Inside
  <1>4. Handled' <=> Handled
      BY DEF Handled
  <1> QED BY <1>2, <1>3, <1>4 DEF InPlace

\* The client begins another request behind all the others.
LEMMA InPlaceBegins ==
    ASSUME TypeOK, InPlace, NEW q \in Requests, ClientBegins(q)
    PROVE  InPlace'
  <1>1. SUFFICES ASSUME ~astray PROVE Handled' /\ (AtLine(Len(handled)) \/ Inside(Len(handled)))'
      BY DEF ClientBegins, InPlace, historyVars
  <1>2. Handled /\ (AtLine(Len(handled)) \/ Inside(Len(handled)))
      BY <1>1 DEF InPlace
  <1>3. PICK e \in Seq(Tokens) : e = Encoded(q)
      BY EncodedType
  <1>4. /\ sent' = Append(sent, q) /\ unsent = << >> /\ unsent' = e
        /\ UNCHANGED <<handled, state_, request_, network, inputBuffer_>>
      BY <1>3 DEF ClientBegins, contextVars, historyVars
  <1>5. Stream' = Stream \o e
    <2>1. inputBuffer_ \in Seq(Tokens) /\ network \in Seq(Tokens)
        BY DEF TypeOK
    <2>2. network \o << >> = network
        BY <2>1
    <2>3. (inputBuffer_ \o network) \o e = inputBuffer_ \o (network \o e)
        BY <2>1, Joined
    <2> QED BY <1>4, <2>2, <2>3 DEF Stream
  <1>6. PICK k \in Nat : k = Len(handled) /\ k <= Len(sent)
      BY <1>2 DEF TypeOK, Handled
  <1>7. /\ sent \in Seq(Requests) /\ Len(sent') = Len(sent) + 1
        /\ \A i \in 1..Len(sent) : sent'[i] = sent[i]
      BY <1>4 DEF TypeOK
  <1>8. Handled'
    <2>1. \A i \in DOMAIN handled : i \in 1..Len(sent)
        BY <1>6 DEF TypeOK
    <2> QED BY <1>2, <1>4, <1>6, <1>7, <2>1 DEF Handled
  <1>9. CASE AtLine(k)
    <2>1. Stream \in Seq(Tokens) /\ k + 1 \in 1..(Len(sent) + 1)
        BY <1>6, <1>7, StreamType
    <2>2. Flat(Stream \o Encoded(q), Append(sent, q), k + 1)
        BY <1>7, <1>9, <2>1, FlatAppend DEF AtLine
    <2>3. AtLine(k)'
        BY <1>3, <1>4, <1>5, <1>9, <2>2 DEF AtLine
    <2> QED BY <1>4, <1>6, <1>8, <2>3
  <1>10. CASE Inside(k)
    <2>1. PICK T \in Seq(Tokens) : Flat(T, sent, k + 2) /\ Within(sent[k + 1], T)
        BY <1>10 DEF Inside
    <2>2. k + 2 \in 1..(Len(sent) + 1) /\ k + 1 \in 1..Len(sent) /\ k < Len(sent')
        BY <1>6, <1>7, <1>10 DEF Inside
    <2>3. Flat(T \o Encoded(q), Append(sent, q), k + 2)
        BY <1>7, <2>1, <2>2, FlatAppend
    <2>4. PICK r \in Requests : r = sent[k + 1] /\ r = sent'[k + 1]
        BY <1>7, <2>2
    <2>5. PICK U \in Seq(Tokens) : U = T \o e
        BY Joined
    <2>6. Within(r, T)
        BY <2>1, <2>4
    <2>7. Within(r, U)'
      <3>1. CASE state_ = "kExpectHeaders"
        <4>1. Partial(request_, r) /\ Stream = HeadersLeft(request_, r) \o T
            BY <2>6, <3>1 DEF Within
        <4>2. HeadersLeft(request_, r) \in Seq(Tokens)
            BY <4>1, NextHeader DEF TypeOK
        <4>3. Stream \o e = HeadersLeft(request_, r) \o U
            BY <2>5, <4>1, <4>2, Joined
        <4> QED BY <1>4, <1>5, <3>1, <4>1, <4>3 DEF Within
      <3>2. CASE state_ = "kExpectBody"
        <4>1. r.body \in Seq(Tokens) /\ Stream = r.body \o T
            BY <2>6, <3>2, BodyType DEF Within
        <4>2. Stream \o e = r.body \o U
            BY <2>5, <4>1, Joined
        <4> QED BY <1>4, <1>5, <2>6, <3>2, <4>2 DEF Within
      <3>3. CASE state_ = "kGotAll"
          BY <1>4, <1>5, <2>5, <2>6, <3>3 DEF Within
      <3> QED BY <2>6, <3>1, <3>2, <3>3 DEF Within
    <2>8. Inside(k)'
      <3>1. Flat(U, sent', k + 2)
          BY <1>3, <1>4, <2>3, <2>5
      <3> QED BY <2>2, <2>4, <2>7, <3>1 DEF Inside
    <2> QED BY <1>4, <1>6, <1>8, <2>8
  <1> QED BY <1>2, <1>6, <1>9, <1>10

\* parseRequest at a request line has the next request before it.
LEMMA FindsRequest ==
    ASSUME TypeOK, NEW k \in Nat, k <= Len(sent), AtLine(k), HasLine
    PROVE  \E r \in Requests, T \in Seq(Tokens) :
               /\ k < Len(sent) /\ r = sent[k + 1] /\ Flat(T, sent, k + 2)
               /\ Stream = <<[kind |-> "line", method |-> r.method, version |-> r.version]>> \o
                           (HeadersLeft(NewRequest, r) \o T)
  <1>1. sent \in Seq(Requests) /\ Stream \in Seq(Tokens) /\ inputBuffer_ \in Seq(Tokens)
      BY StreamType DEF TypeOK
  <1>2. Stream # << >>
    <2>1. Len(inputBuffer_) >= 1
        BY <1>1 DEF HasLine
    <2>2. network \o unsent \in Seq(Tokens)
        BY ConcatProperties DEF TypeOK
    <2>3. Len(Stream) >= 1
        BY <1>1, <2>1, <2>2 DEF Stream
    <2> QED BY <2>3
  <1>3. k < Len(sent)
    <2>1. k + 1 # Len(sent) + 1
        BY <1>1, <1>2, FlatEnd DEF AtLine
    <2> QED BY <1>1, <2>1
  <1>4. PICK r \in Requests : r = sent[k + 1]
      BY <1>1, <1>3
  <1>5. k + 1 \in 1..Len(sent) /\ (k + 1) + 1 = k + 2
      BY <1>1, <1>3
  <1>6. PICK T \in Seq(Tokens) : Stream = Encoded(r) \o T /\ Flat(T, sent, k + 2)
      BY <1>1, <1>4, <1>5, FlatFirst DEF AtLine
  <1>7. PICK f \in Tokens : f = [kind |-> "line", method |-> r.method, version |-> r.version]
      BY HeaderTokens
  <1>8. /\ Encoded(r) = <<f>> \o HeadersLeft(NewRequest, r)
        /\ <<f>> \in Seq(Tokens) /\ HeadersLeft(NewRequest, r) \in Seq(Tokens)
      BY <1>7, EncodedLine
  <1>9. Stream = <<f>> \o (HeadersLeft(NewRequest, r) \o T)
      BY <1>6, <1>8, Joined
  <1> QED BY <1>3, <1>4, <1>6, <1>7, <1>9

\* A sequence is its first element and the rest of it.
LEMMA SameLine ==
    ASSUME NEW s \in Seq(Tokens), s # << >>
    PROVE  <<s[1]>> \o SubSeq(s, 1 + 1, Len(s)) = s
  <1>1. PICK n \in Nat : n = Len(s) /\ n >= 1
      OBVIOUS
  <1>2. SubSeq(s, 1 + 1, n) \in Seq(Tokens)
    <2>1. \A i \in (1 + 1)..n : s[i] \in Tokens
        BY <1>1
    <2> QED BY <1>1, <2>1, SubSeqProperties
  <1>3. PICK d \in Seq(Tokens) : d = SubSeq(s, 1 + 1, n)
      BY <1>2
  <1>4. Len(d) = n - 1 /\ \A i \in 1..(n - 1) : d[i] = s[1 + i]
      BY <1>1, <1>3
  <1>5. PICK t \in Seq(Tokens) : t = <<s[1]>> \o d
    <2>1. <<s[1]>> \in Seq(Tokens)
        BY <1>1
    <2> QED BY <2>1, ConcatProperties
  <1>6. Len(t) = n /\ t[1] = s[1] /\ \A i \in 2..n : t[i] = d[i - 1]
      BY <1>1, <1>4, <1>5
  <1>7. \A i \in 2..n : i - 1 \in 1..(n - 1) /\ 1 + (i - 1) = i
      BY <1>1
  <1>8. \A i \in 1..n : t[i] = s[i]
    <2>1. \A i \in 1..n : i = 1 \/ i \in 2..n
        BY <1>1
    <2> QED BY <1>4, <1>6, <1>7, <2>1
  <1>9. t = s
      BY <1>1, <1>6, <1>8, SeqEqual
  <1> QED BY <1>1, <1>3, <1>5, <1>9

\* parseRequest in state kExpectRequestLine (HttpContext.cpp:62-85).
LEMMA InPlaceRequestLine ==
    ASSUME TypeOK, InPlace, NEW l \in Lines, ParseRequestLine(l) \/ ParseBadRequestLine(l)
    PROVE  InPlace'
  <1>1. SUFFICES ASSUME ~astray PROVE Handled' /\ (AtLine(Len(handled)) \/ Inside(Len(handled)))'
      BY DEF ParseRequestLine, ParseBadRequestLine, InPlace
  <1>2. /\ HasLine /\ Reads(l) /\ state_ = "kExpectRequestLine"
        /\ callsSetMethod(l) => request_.method = "kInvalid"
        /\ UNCHANGED <<sent, unsent, network, handled>>
      BY DEF ParseRequestLine, ParseBadRequestLine, Parsing, ParseFrame, clientVars, Reads
  <1>3. Handled /\ AtLine(Len(handled))
      BY <1>1, <1>2 DEF InPlace, Inside, Within
  <1>4. Handled'
      BY <1>2, <1>3 DEF Handled
  <1>5. PICK k \in Nat : k = Len(handled) /\ k = Len(handled') /\ k <= Len(sent)
      BY <1>2, <1>3 DEF TypeOK, Handled
  <1>6. PICK r \in Requests, T \in Seq(Tokens) :
            /\ k < Len(sent) /\ r = sent[k + 1] /\ Flat(T, sent, k + 2)
            /\ Stream = <<[kind |-> "line", method |-> r.method, version |-> r.version]>> \o
                        (HeadersLeft(NewRequest, r) \o T)
      BY <1>2, <1>3, <1>5, FindsRequest
  <1>7. PICK f \in Lines : f = [kind |-> "line", method |-> r.method, version |-> r.version]
      BY HeaderTokens
  <1>8. f.kind = "line" /\ f.method = r.method /\ f.version = r.version
      BY <1>7
  <1>9. PICK h \in Seq(Tokens) : h = HeadersLeft(NewRequest, r)
      BY EncodedLine
  <1>10. h \o T \in Seq(Tokens) /\ Stream = <<f>> \o (h \o T)
      BY <1>6, <1>7, <1>9, Joined
  <1>11. /\ findCRLF = 1 /\ l = f /\ inputBuffer_ # << >> /\ inputBuffer_[1] = f
         /\ retrieveUntil(findCRLF) /\ UNCHANGED <<network, unsent>> => Stream' = h \o T
      BY <1>2, <1>10, StreamLine
  <1>12. callsSetMethod(l) /\ setMethod(l) = r.method
      BY <1>8, <1>11 DEF callsSetMethod, setMethod
  <1>13. request_ = NewRequest
      BY <1>2, <1>3, <1>12 DEF AtLine
  <1>14. CASE ParseRequestLine(l)
    <2>1. /\ request_' = [NewRequest EXCEPT !.method = r.method, !.version = r.version]
          /\ state_' = "kExpectHeaders" /\ Stream' = h \o T
        BY <1>2, <1>8, <1>11, <1>12, <1>13, <1>14 DEF ParseRequestLine
    <2>2. /\ request_'.method = r.method /\ request_'.version = r.version /\ request_'.body = 0
          /\ request_'.connection = NewRequest.connection /\ request_'.connection = ""
          /\ request_'.length = NewRequest.length /\ request_'.length = NoLength
        BY <2>1 DEF NewRequest
    <2>3. HeadersLeft(request_', r) = h
        BY <1>9, <2>2 DEF HeadersLeft
    <2>4. Partial(request_', r)
        BY <2>2 DEF Partial
    <2>5. Within(r, T)'
        BY <2>1, <2>3, <2>4 DEF Within
    <2>6. Inside(k)'
        BY <1>2, <1>6, <2>5 DEF Inside
    <2> QED BY <1>4, <1>5, <2>6
  <1>15. CASE ParseBadRequestLine(l)
    <2>0. inputBuffer_' = inputBuffer_
      <3>1. inputBuffer_' = <<inputBuffer_[1]>> \o SubSeq(inputBuffer_, 1 + 1, Len(inputBuffer_))
          BY <1>11, <1>15 DEF ParseBadRequestLine
      <3>2. inputBuffer_ \in Seq(Tokens) /\ inputBuffer_ # << >>
          BY <1>11 DEF TypeOK
      <3> QED BY <3>1, <3>2, SameLine
    <2>1. /\ request_' = [NewRequest EXCEPT !.method = r.method]
          /\ state_' = state_ /\ inputBuffer_' = inputBuffer_
        BY <1>12, <1>13, <1>15, <2>0 DEF ParseBadRequestLine
    <2>2. request_' = NewRequest \/ request_'.method # "kInvalid"
        BY <2>1 DEF NewRequest
    <2>3. Stream' = Stream
        BY <1>2, <2>1 DEF Stream
    <2>4. AtLine(k)'
        BY <1>2, <1>3, <1>5, <2>1, <2>2, <2>3 DEF AtLine
    <2> QED BY <1>4, <1>5, <2>4
  <1> QED BY <1>14, <1>15

\* parseRequest in state kExpectHeaders (HttpContext.cpp:87-114).
LEMMA InPlaceHeaders ==
    ASSUME TypeOK, InPlace, NEW l \in Lines, ParseHeader(l) \/ ParseHeadersEnd(l)
    PROVE  InPlace'
  <1>0. astray => astray'
      BY DEF ParseHeader, ParseHeadersEnd
  <1>1. SUFFICES ASSUME ~astray, ~astray'
                 PROVE  Handled' /\ (AtLine(Len(handled)) \/ Inside(Len(handled)))'
      BY <1>0 DEF InPlace
  <1>2. /\ Reads(l) /\ state_ = "kExpectHeaders" /\ retrieveUntil(findCRLF)
        /\ UNCHANGED <<sent, unsent, network, handled>>
      BY DEF ParseHeader, ParseHeadersEnd, Parsing, ParseFrame, clientVars
  <1>3. Handled /\ Inside(Len(handled))
      BY <1>1, <1>2 DEF InPlace, AtLine
  <1>4. Handled'
      BY <1>2, <1>3 DEF Handled
  <1>5. PICK k \in Nat : k = Len(handled) /\ k = Len(handled') /\ k < Len(sent)
      BY <1>2, <1>3 DEF TypeOK, Inside
  <1>6. PICK T \in Seq(Tokens) : Flat(T, sent, k + 2) /\ Within(sent[k + 1], T)
      BY <1>3, <1>5 DEF Inside
  <1>7. PICK r \in Requests : r = sent[k + 1]
      BY <1>5 DEF TypeOK
  <1>8. Partial(request_, r) /\ Stream = HeadersLeft(request_, r) \o T /\ request_ \in ParsedType
      BY <1>2, <1>6, <1>7 DEF Within, TypeOK
  <1>9. ASSUME Within(r, T)' PROVE Handled' /\ (AtLine(Len(handled)) \/ Inside(Len(handled)))'
    <2>1. Inside(k)'
        BY <1>2, <1>5, <1>6, <1>7, <1>9 DEF Inside
    <2> QED BY <1>4, <1>5, <2>1
  <1>10. ASSUME NEW h \in Tokens, NEW y \in Seq(Tokens), HeadersLeft(request_, r) = <<h>> \o y,
                h \in Lines
         PROVE  l = h /\ Stream' = y \o T
    <2>1. <<h>> \in Seq(Tokens) /\ y \o T \in Seq(Tokens)
        BY Joined
    <2>2. Stream = <<h>> \o (y \o T)
        BY <1>8, <1>10, <2>1, Joined
    <2> QED BY <1>2, <1>10, <2>1, <2>2, StreamLine
  <1>11. CASE r.connection # request_.connection
    <2>1. PICK h \in Tokens \cap Lines : h = [kind |-> "connection", value |-> r.connection]
        BY HeaderTokens
    <2>2. PICK p : p = [request_ EXCEPT !.connection = r.connection]
        OBVIOUS
    <2>3. h.kind = "connection" /\ h.value = r.connection
        BY <2>1
    <2>4. p \in ParsedType /\ Partial(p, r)
      <3>1. r.connection \in Connections
          BY RequestsAssumption DEF RequestType
      <3> QED BY <1>8, <2>2, <3>1 DEF ParsedType, Partial
    <2>5. HeadersLeft(p, r) \in Seq(Tokens) /\ HeadersLeft(request_, r) = <<h>> \o HeadersLeft(p, r)
        BY <1>8, <1>11, <2>1, <2>2, <2>4, NextHeader
    <2>6. l = h /\ Stream' = HeadersLeft(p, r) \o T
        BY <1>10, <2>5
    <2>7. request_' = p /\ state_' = state_
        BY <2>2, <2>3, <2>6 DEF ParseHeader, ParseHeadersEnd, addHeader
    <2>8. Within(r, T)'
        BY <1>2, <2>4, <2>6, <2>7 DEF Within
    <2> QED BY <1>9, <2>8
  <1>12. CASE r.connection = request_.connection /\ r.length # request_.length
    <2>2. PICK h \in Tokens \cap Lines : h = [kind |-> "length", value |-> r.length]
        BY HeaderTokens
    <2>3. PICK p : p = [request_ EXCEPT !.length = r.length]
        OBVIOUS
    <2>4. h.kind = "length" /\ h.value = r.length
        BY <2>2
    <2>5. p \in ParsedType /\ Partial(p, r)
      <3>1. r.length \in Lengths
          BY RequestsAssumption DEF RequestType
      <3> QED BY <1>8, <2>3, <3>1 DEF ParsedType, Partial
    <2>6. HeadersLeft(p, r) \in Seq(Tokens) /\ HeadersLeft(request_, r) = <<h>> \o HeadersLeft(p, r)
        BY <1>8, <1>12, <2>2, <2>3, <2>5, NextHeader
    <2>7. l = h /\ Stream' = HeadersLeft(p, r) \o T
        BY <1>10, <2>6
    <2>8. request_' = p /\ state_' = state_
        BY <2>3, <2>4, <2>7 DEF ParseHeader, ParseHeadersEnd, addHeader
    <2>9. Within(r, T)'
        BY <1>2, <2>5, <2>7, <2>8 DEF Within
    <2> QED BY <1>9, <2>9
  <1>13. CASE r.connection = request_.connection /\ r.length = request_.length
    <2>1. PICK h \in Tokens \cap Lines : h = [kind |-> "empty"]
        BY HeaderTokens
    <2>2. h.kind = "empty"
        BY <2>1
    <2>3. r.body \in Seq(Tokens) /\ HeadersLeft(request_, r) = <<h>> \o r.body
        BY <1>8, <1>13, <2>1, NextHeader, BodyType
    <2>4. l = h /\ Stream' = r.body \o T
        BY <1>10, <2>3
    <2>5. /\ request_' = request_
          /\ IF request_.method = "kPost" THEN state_' = "kExpectBody" ELSE state_' = "kGotAll"
        BY <2>2, <2>4 DEF ParseHeader, ParseHeadersEnd
    <2>6. r \in RequestType
        BY RequestsAssumption
    <2>7. request_ = [WithBody(r) EXCEPT !.body = 0]
        BY <1>8, <1>13, <2>6 DEF Partial, ParsedType, WithBody, RequestType
    <2>8. CASE request_.method = "kPost"
      <3>1. Within(r, T)'
          BY <2>4, <2>5, <2>7, <2>8 DEF Within
      <3> QED BY <1>9, <3>1
    <2>9. CASE request_.method # "kPost"
      <3>1. r.body = << >>
        <4>1. ~MissesBody(0)
            BY <1>1, <2>2, <2>4, <2>9 DEF ParseHeader, ParseHeadersEnd
        <4>2. Len(r.body) = 0
            BY <1>5, <1>7, <4>1 DEF MissesBody
        <4> QED BY <4>2, BodyType
      <3>2. Stream' = T
          BY <2>4, <3>1
      <3>3. request_ = WithBody(r)
        <4>1. WithBody(r).body = 0 /\ WithBody(r) = [WithBody(r) EXCEPT !.body = 0]
            BY <2>6, <3>1 DEF WithBody, RequestType
        <4> QED BY <2>7, <4>1
      <3>4. Within(r, T)'
          BY <2>5, <2>9, <3>2, <3>3 DEF Within
      <3> QED BY <1>9, <3>4
    <2> QED BY <2>8, <2>9
  <1> QED BY <1>11, <1>12, <1>13

\* The pieces at the front of the stream are those of the buffer.
LEMMA StreamPieces ==
    ASSUME TypeOK, NEW b \in Seq(BodyPieces), NEW y \in Seq(Tokens), Stream = b \o y,
           Len(b) <= Len(inputBuffer_)
    PROVE  \A i \in 1..Len(b) : inputBuffer_[i] \in BodyPieces
  <1> SUFFICES ASSUME NEW i \in 1..Len(b) PROVE inputBuffer_[i] \in BodyPieces
      OBVIOUS
  <1>1. PICK x \in Seq(Tokens), z \in Seq(Tokens) : x = inputBuffer_ /\ z = network \o unsent
      BY ConcatProperties DEF TypeOK
  <1>2. Stream[i] = x[i]
      BY <1>1 DEF Stream
  <1>3. (b \o y)[i] = b[i] /\ b[i] \in BodyPieces
      OBVIOUS
  <1> QED BY <1>1, <1>2, <1>3

\* parseRequest in state kExpectBody (HttpContext.cpp:116-123).
LEMMA InPlaceBody ==
    ASSUME TypeOK, InPlace, ParseBody
    PROVE  InPlace'
  <1>1. SUFFICES ASSUME ~astray'
                 PROVE  Handled' /\ (AtLine(Len(handled)) \/ Inside(Len(handled)))'
      BY DEF InPlace
  <1>2. PICK n : n = IF Len(inputBuffer_) < request_.length
                     THEN Len(inputBuffer_) ELSE request_.length
      OBVIOUS
  <1>3. /\ state_ = "kExpectBody" /\ request_.length # NoLength
        /\ request_' = [request_ EXCEPT !.body = n] /\ astray' = (astray \/ MissesBody(n))
        /\ retrieveBody(n) /\ state_' = "kGotAll"
        /\ UNCHANGED <<sent, unsent, network, handled>>
      BY <1>2 DEF ParseBody, Parsing, ParseFrame, clientVars
  <1>4. ~astray /\ ~MissesBody(n)
      BY <1>1, <1>3
  <1>5. Handled /\ Inside(Len(handled))
      BY <1>3, <1>4 DEF InPlace, AtLine
  <1>6. Handled'
      BY <1>3, <1>5 DEF Handled
  <1>7. PICK k \in Nat : k = Len(handled) /\ k = Len(handled') /\ k < Len(sent)
    <2>1. Len(handled) \in Nat
        BY DEF TypeOK
    <2>2. handled' = handled
        BY <1>3
    <2>3. Len(handled) < Len(sent)
        BY <1>5 DEF Inside
    <2> QED BY <2>1, <2>2, <2>3
  <1>8. PICK T \in Seq(Tokens) : Flat(T, sent, k + 2) /\ Within(sent[k + 1], T)
      BY <1>5, <1>7 DEF Inside
  <1>9. PICK r \in Requests : r = sent[k + 1]
      BY <1>7 DEF TypeOK
  <1>10. request_ = [WithBody(r) EXCEPT !.body = 0] /\ Stream = r.body \o T
      BY <1>3, <1>8, <1>9 DEF Within
  <1>11. r.length = request_.length /\ r.length \in Nat
    <2>1. r.length = request_.length /\ r.length \in Lengths
        BY <1>10, RequestsAssumption DEF WithBody, RequestType
    <2> QED BY <1>3, <2>1, NumbersAssumption DEF Lengths
  <1>12. n = Len(r.body) /\ Len(r.body) <= Len(inputBuffer_)
    <2>1. Len(inputBuffer_) \in Nat
        BY DEF TypeOK
    <2>2. n = Len(r.body)
        BY <1>4, <1>7, <1>9 DEF MissesBody
    <2> QED BY <1>2, <1>11, <2>1, <2>2
  <1>13. Stream' = T
    <2>1. r.body \in Seq(BodyPieces) /\ r.body \in Seq(Tokens)
        BY BodyType, RequestsAssumption DEF RequestType
    <2>2. \A i \in 1..n : inputBuffer_[i] \in BodyPieces
        BY <1>10, <1>12, <2>1, StreamPieces
    <2>3. retrieveUntil(Len(r.body))
        BY <1>3, <1>12, <2>2 DEF retrieveBody
    <2> QED BY <1>3, <1>10, <1>12, <2>1, <2>3, StreamDrop
  <1>14. request_' = WithBody(r)
    <2>1. r \in RequestType
        BY RequestsAssumption
    <2> QED BY <1>3, <1>10, <1>12, <2>1 DEF WithBody, RequestType
  <1>15. Within(r, T)'
      BY <1>3, <1>13, <1>14 DEF Within
  <1>16. Inside(k)'
      BY <1>3, <1>7, <1>8, <1>9, <1>15 DEF Inside
  <1> QED BY <1>6, <1>7, <1>16

\* onRequest hands the request over and the context is reset (HttpServer.cpp:63-67).
LEMMA InPlaceReply ==
    ASSUME TypeOK, InPlace, NEW c \in Callbacks, ReplyRequest(c)
    PROVE  InPlace'
  <1>1. /\ state_ = "kGotAll" /\ handled' = Append(handled, request_)
        /\ state_' = "kExpectRequestLine" /\ request_' = NewRequest
        /\ UNCHANGED <<sent, unsent, network, inputBuffer_, astray>>
      BY DEF ReplyRequest, ReplyFrame, reset, clientVars
  <1>2. SUFFICES ASSUME ~astray PROVE Handled' /\ AtLine(Len(handled))'
      BY <1>1 DEF InPlace
  <1>3. Handled /\ Inside(Len(handled))
      BY <1>1, <1>2 DEF InPlace, AtLine
  <1>4. PICK k \in Nat : k = Len(handled) /\ k < Len(sent)
      BY <1>3 DEF TypeOK, Inside
  <1>5. PICK T \in Seq(Tokens) : Flat(T, sent, k + 2) /\ Within(sent[k + 1], T)
      BY <1>3, <1>4 DEF Inside
  <1>6. request_ = WithBody(sent[k + 1]) /\ Stream = T
      BY <1>1, <1>5 DEF Within
  <1>7. /\ Len(handled') = k + 1 /\ handled'[k + 1] = request_
        /\ DOMAIN handled' = DOMAIN handled \cup {k + 1}
        /\ \A i \in DOMAIN handled : handled'[i] = handled[i]
      BY <1>1, <1>4 DEF TypeOK
  <1>8. Handled'
    <2>1. k + 1 <= Len(sent)
        BY <1>4 DEF TypeOK
    <2>2. \A i \in DOMAIN handled' : handled'[i] = WithBody(sent[i])
        BY <1>3, <1>6, <1>7 DEF Handled
    <2> QED BY <1>1, <1>7, <2>1, <2>2 DEF Handled
  <1>9. AtLine(k + 1)'
    <2>1. Stream' = T /\ (k + 1) + 1 = k + 2
        BY <1>1, <1>6 DEF Stream
    <2> QED BY <1>1, <1>5, <2>1 DEF AtLine
  <1> QED BY <1>7, <1>8, <1>9

\* Every step leaves the parser in place.
LEMMA InPlaceNext == TypeOK /\ InPlace /\ [Next]_vars => InPlace'
  <1> SUFFICES ASSUME TypeOK, InPlace, [Next]_vars PROVE InPlace'
      OBVIOUS
  <1>0. unsent \in Seq(Tokens) /\ network \in Seq(Tokens) /\ inputBuffer_ \in Seq(Tokens)
      BY DEF TypeOK
  <1>1. CASE ClientSends
    <2>1. /\ UNCHANGED <<sent, handled, state_, request_, astray, inputBuffer_>> /\ unsent # << >>
          /\ network' = Append(network, Head(unsent)) /\ unsent' = Tail(unsent)
        BY <1>1 DEF ClientSends, contextVars, historyVars
    <2>2. network' \o unsent' = network \o unsent
      <3>0. Head(unsent) \in Tokens /\ Tail(unsent) \in Seq(Tokens)
          BY <1>0, <2>1, HeadTailProperties
      <3>1. PICK h \in Tokens, t \in Seq(Tokens) : h = Head(unsent) /\ t = Tail(unsent)
          BY <3>0
      <3>2. unsent = <<h>> \o t
          BY <1>0, <2>1, <3>1
      <3>3. Append(network, h) = network \o <<h>>
          BY <1>0, AppendIsConcat
      <3>4. (network \o <<h>>) \o t = network \o (<<h>> \o t)
          BY <1>0, Joined
      <3> QED BY <2>1, <3>1, <3>2, <3>3, <3>4, Zenon
    <2>3. Stream' = Stream
        BY <2>1, <2>2 DEF Stream
    <2> QED BY <2>1, <2>3, InPlaceSteady
  <1>2. CASE HandleRead
    <2>1. /\ UNCHANGED <<sent, handled, state_, request_, astray, unsent>>
          /\ inputBuffer_' = inputBuffer_ \o network /\ network' = << >>
        BY <1>2 DEF HandleRead, clientVars, contextVars, historyVars
    <2>2. << >> \o unsent = unsent /\ (inputBuffer_ \o network) \o unsent = Stream
      <3>1. << >> \o unsent = unsent
          BY <1>0
      <3>2. (inputBuffer_ \o network) \o unsent = inputBuffer_ \o (network \o unsent)
          BY <1>0, Joined
      <3> QED BY <3>1, <3>2 DEF Stream
    <2>3. Stream' = Stream
        BY <2>1, <2>2 DEF Stream
    <2> QED BY <2>1, <2>3, InPlaceSteady
  <1>3. CASE UNCHANGED <<sent, unsent, network, inputBuffer_, handled, state_, request_, astray>>
    <2>1. Stream' = Stream
        BY <1>3 DEF Stream
    <2> QED BY <1>3, <2>1, InPlaceSteady
  <1>4. CASE \/ (\E l \in Lines : ParseAsserts(l)) \/ ParseWaitsForLine \/ ParseBodyThrows
             \/ ReplyBadRequest \/ ReplyNothing \/ UNCHANGED vars
    <2>1. UNCHANGED <<sent, unsent, network, inputBuffer_, handled, state_, request_, astray>>
        BY <1>4 DEF ParseAsserts, ParseWaitsForLine, ParseBodyThrows, ReplyBadRequest,
                    ReplyNothing, vars, ParseFrame, ReplyFrame, clientVars, contextVars,
                    historyVars
    <2> QED BY <1>3, <2>1
  <1> QED BY <1>1, <1>2, <1>4, InPlaceBegins, InPlaceRequestLine, InPlaceHeaders, InPlaceBody,
             InPlaceReply DEF Next, Server

(***************************************************************************)
(* For every set of requests, however many of them and wherever the stream *)
(* is cut into reads: httpCallback_ is given the requests that were sent,  *)
(* in order, each with its own line, headers and body, until the parser    *)
(* first takes something else for a body than the body that was sent       *)
(* (HttpContext.cpp:55-126, HttpServer.cpp:50-67).                         *)
(***************************************************************************)
THEOREM RequestsAlwaysAsSent == Spec => []RequestsAsSent
  <1>1. ASSUME Init PROVE InPlace
    <2>1. /\ sent = << >> /\ handled = << >> /\ unsent = << >> /\ network = << >>
          /\ inputBuffer_ = << >> /\ state_ = "kExpectRequestLine" /\ request_ = NewRequest
        BY <1>1 DEF Init
    <2>2. Stream = << >>
        BY <2>1 DEF Stream
    <2>3. << >> \in Seq(Requests) /\ Len(<< >>) = 0
        OBVIOUS
    <2>4. Flat(<< >>, << >>, 0 + 1)
        BY <2>3, FlatEmpty
    <2>5. AtLine(0)
        BY <2>1, <2>2, <2>4 DEF AtLine
    <2>6. Handled
        BY <2>1 DEF Handled
    <2> QED BY <2>1, <2>3, <2>5, <2>6 DEF InPlace
  <1>2. TypeOK /\ InPlace => RequestsAsSent
    <2> SUFFICES ASSUME TypeOK, InPlace, ~astray, NEW i \in DOMAIN handled
                 PROVE  i \in DOMAIN sent /\ handled[i] = WithBody(sent[i])
        BY DEF RequestsAsSent
    <2>1. Handled
        BY DEF InPlace
    <2> QED BY <2>1 DEF Handled, TypeOK
  <1> QED BY <1>1, <1>2, HttpTypes, InPlaceNext, PTL DEF Spec

=============================================================================
