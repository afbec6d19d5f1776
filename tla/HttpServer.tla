----------------------------- MODULE HttpServer -----------------------------
(***************************************************************************)
(* How the coordinator binary reads and answers an HTTP request            *)
(* (crates/node/src/bin/coordinator.rs, read_http_body and                 *)
(* handle_request).  A request is a sequence of bytes: header bytes "h",   *)
(* the blank line as two parts "e1", "e2", and body bytes, of which "m1"   *)
(* and "m2" are the two halves of a multi-byte character.  TCP delivers it *)
(* in segments of any length; the client can close before it sent all.     *)
(* Each connection has a thread of its own and shares nothing here.        *)
(***************************************************************************)
EXTENDS Integers, Sequences, Functions

CONSTANTS
  HRequests,   \* [header, body, length]: length is the Content-Length, 0 if none
  BUF,         \* size of the header buffer
  CHUNK        \* size of the body buffer

Octet == {"h", "e1", "e2", "a", "m1", "m2"}

VARIABLES
  hreq,     \* the request of the client
  hsent,    \* how many bytes the client sends before it waits or closes
  hclosed,  \* whether it closes its side afterwards
  hpos,     \* how many bytes the handler has read
  hphase,   \* head, body, parse, or answered
  hbody,    \* the bytes read so far; from phase body on, the body
  hstatus   \* the status sent, 0 before

hvars == <<hreq, hsent, hclosed, hpos, hphase, hbody, hstatus>>

Wire(r) == r.header \o <<"e1", "e2">> \o r.body

HInit ==
  /\ hreq \in HRequests
  /\ hsent \in 0..Len(Wire(hreq))
  /\ hclosed \in BOOLEAN
  /\ hsent < Len(Wire(hreq)) => hclosed
  /\ hpos = 0 /\ hphase = "head" /\ hbody = <<>> /\ hstatus = 0

Utf8(data) ==
  \A i \in DOMAIN data :
    /\ data[i] = "m1" => i < Len(data) /\ data[i + 1] = "m2"
    /\ data[i] = "m2" => i > 1 /\ data[i - 1] = "m1"

\* The body is a JSON text, in UTF-8 and not empty; the header is in ASCII.
ASSUME HAssumption ==
  /\ BUF \in Nat \ {0} /\ CHUNK \in Nat \ {0}
  /\ \A r \in HRequests :
       /\ r.header \in Seq(Octet)
       /\ \A i \in DOMAIN r.header : r.header[i] \notin {"e1", "e2", "m1", "m2"}
       /\ r.body \in Seq(Octet) /\ Utf8(r.body) /\ r.body # <<>>
       /\ r.length \in Nat

\* The end of the header in the data read; none when it is not UTF-8.
header_end(data) ==
  IF ~Utf8(data) THEN 0
  ELSE LET at == {i \in 2..Len(data) : data[i - 1] = "e1" /\ data[i] = "e2"}
       IN IF at = {} THEN 0 ELSE CHOOSE i \in at : \A j \in at : i <= j

StopsAfterOneRead(body, content_length) == body = <<>> /\ content_length > 0

more_body(body, content_length) == Len(body) < content_length

BodyPhase(body, content_length) ==
  /\ hbody' = body
  /\ hphase' = IF more_body(body, content_length) THEN "body" ELSE "parse"

Answer(status) == hphase' = "answered" /\ hstatus' = status

\* stream.read into the header buffer returned n bytes.
ReadHead(n) ==
  /\ hphase = "head"
  /\ n <= hsent - hpos /\ n <= BUF - hpos
  /\ hpos' = hpos + n
  /\ LET data == SubSeq(Wire(hreq), 1, hpos + n)
         end == header_end(data)
     IN \/ /\ end > 0
           /\ BodyPhase(SubSeq(data, end + 1, Len(data)), hreq.length)
           /\ UNCHANGED hstatus
        \/ /\ end = 0 /\ Len(data) >= BUF
           /\ Answer(500) /\ UNCHANGED hbody
        \/ /\ end = 0 /\ Len(data) < BUF
           /\ hbody' = data /\ UNCHANGED <<hphase, hstatus>>
  /\ UNCHANGED <<hreq, hsent, hclosed>>

Eof == hclosed /\ hpos = hsent

\* No header was found: all that was read is the body.
EofInHead ==
  /\ hphase = "head" /\ Eof
  /\ hphase' = "parse"
  /\ UNCHANGED <<hreq, hsent, hclosed, hpos, hbody, hstatus>>

\* stream.read into a chunk returned n bytes.
ReadBody(n) ==
  /\ hphase = "body"
  /\ n <= hsent - hpos /\ n <= CHUNK
  /\ hpos' = hpos + n
  /\ BodyPhase(hbody \o SubSeq(Wire(hreq), hpos + 1, hpos + n), hreq.length)
  /\ UNCHANGED <<hreq, hsent, hclosed, hstatus>>

EofInBody ==
  /\ hphase = "body" /\ Eof
  /\ hphase' = "parse"
  /\ UNCHANGED <<hreq, hsent, hclosed, hpos, hbody, hstatus>>

\* No proper prefix of the JSON text of a request parses; attest succeeds or
\* fails.
handle_request ==
  /\ hphase = "parse"
  /\ IF hbody # hreq.body \/ hbody = <<>> THEN Answer(400)
     ELSE \E status \in {200, 500} : Answer(status)
  /\ UNCHANGED <<hreq, hsent, hclosed, hpos, hbody>>

HNext ==
  \/ \E n \in 1..BUF : ReadHead(n)
  \/ \E n \in 1..CHUNK : ReadBody(n)
  \/ EofInHead \/ EofInBody \/ handle_request

HSpec == HInit /\ [][HNext]_hvars

---------------------------------------------------------------------------

\* A request whose header fits the buffer, with its Content-Length, is read
\* whole however TCP cuts it into segments, unless a multi-byte character of
\* a body beyond the buffer may be cut by its end; and the handler never
\* waits for bytes beyond the end of a request with a Content-Length that
\* the client has sent in full.
ReadsWholeRequest ==
  LET wire == Wire(hreq)
      proper == /\ hreq.length = Len(hreq.body)
                /\ Len(hreq.header) + 2 <= BUF
                /\ Len(wire) <= BUF \/ "m1" \notin Range(hreq.body)
  IN proper /\ hsent = Len(wire) =>
       /\ hphase = "parse" => hbody = hreq.body
       /\ hphase = "answered" => hstatus \in {200, 500} /\ hbody = hreq.body
       /\ hpos = hsent => hphase \notin {"head", "body"}
=============================================================================
