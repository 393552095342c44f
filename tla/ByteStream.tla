----------------------------- MODULE ByteStream -----------------------------
(***************************************************************************)
(* What a Buffer promises its users: a queue of bytes without a size.      *)
(* Bytes go in at the end, in the order given, and leave from the front;   *)
(* looking ahead changes nothing; a line is taken up to its first CRLF.    *)
(* "io" is the call made last: its kind and the bytes it took or returned. *)
(***************************************************************************)
EXTENDS Naturals, Sequences

CONSTANTS Byte, CR, LF

VARIABLES stream, io

vars == <<stream, io>>

Init == stream = << >> /\ io = <<"new", << >>>>

CRLFAt(s, i) == s[i] = CR /\ s[i + 1] = LF

\* The first CRLF of s is at its end.
IsLine(s) ==
    /\ Len(s) >= 2
    /\ CRLFAt(s, Len(s) - 1)
    /\ \A i \in 1..(Len(s) - 2) : ~CRLFAt(s, i)

IsFront(data) ==
    /\ Len(data) <= Len(stream)
    /\ data = SubSeq(stream, 1, Len(data))

Put(data) == stream' = stream \o data

Look(data) == IsFront(data) /\ UNCHANGED stream

Take(data) == IsFront(data) /\ stream' = SubSeq(stream, Len(data) + 1, Len(stream))

Next ==
    \E kind \in {"put", "look", "take", "line"} :
        LET data == io'[2] IN
        /\ io' = <<kind, data>>
        /\ data \in Seq(Byte)
        /\ kind = "put" => Put(data)
        /\ kind = "look" => Look(data)
        /\ kind = "take" => Take(data)
        /\ kind = "line" => Take(data) /\ IsLine(data)

Spec == Init /\ [][Next]_vars

=============================================================================
