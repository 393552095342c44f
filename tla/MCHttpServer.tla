---------------------------- MODULE MCHttpServer ----------------------------
(* Instances of HttpServer for TLC.                                        *)
EXTENDS HttpServer

Request(method, version, connection, length, body) ==
    [method |-> method, version |-> version, connection |-> connection,
     length |-> length, body |-> body]

byte == [kind |-> "byte"]
crlf == [kind |-> "crlf"]

\* Requests that keep the connection, that end it by their header and by
\* their version, with a body of the length they say, with an empty one, with
\* more and with less than they say, without the length of the body, with a
\* body and no POST, and bad ones: of an unknown version and an unknown method.
AllKinds ==
    {Request("kGet", "kHttp11", "", NoLength, << >>),
     Request("kGet", "kHttp11", "close", NoLength, << >>),
     Request("kPut", "kHttp10", "Keep-Alive", NoLength, << >>),
     Request("kGet", "kHttp10", "", NoLength, << >>),
     Request("kPost", "kHttp11", "", 2, <<byte, crlf>>),
     Request("kPost", "kHttp11", "", 0, << >>),
     Request("kPost", "kHttp11", "", 0, <<crlf>>),
     Request("kPost", "kHttp11", "", 2, << >>),
     Request("kPost", "kHttp11", "", NoLength, << >>),
     Request("kPut", "kHttp11", "", 2, <<crlf, byte>>),
     Request("kGet", "kUnknown", "", NoLength, << >>),
     Request("kInvalid", "kHttp11", "", NoLength, << >>)}

\* A POST with a body.
Posts == {Request("kPost", "kHttp11", "", 1, <<byte>>)}

=============================================================================
