----------------------------- MODULE Transports -----------------------------
(***************************************************************************)
(* The transports between a coordinator and the auxiliary nodes: plain     *)
(* TCP, signed envelopes over TCP and mutual TLS (crates/node transport.rs *)
(* and auth.rs, crates/network codec.rs, signed_envelope.rs and mtls.rs),  *)
(* and the in-memory queues of crates/network transport.rs.                *)
(* One connection carries one call.  The accept loop, one thread per       *)
(* connection and the calling threads run concurrently; connections are    *)
(* cut, replies are lost, calls time out while the server still works on   *)
(* them, clocks drift apart and servers shut down and are bound again.     *)
(***************************************************************************)
EXTENDS Integers, Sequences, FiniteSets

CONSTANTS
  TNone,            \* None
  TConfigs,         \* deployments: kind, keys, registries and CAs
  TRequests,        \* call -> the request: [op, body], and sizes, the lengths
                    \* its JSON may have
  TOLERANCE,        \* TIMESTAMP_TOLERANCE_SECS
  MAX_FRAME,        \* MAX_FRAME_BYTES
  U32,              \* the lengths that fit in 32 bits are 0..(U32 - 1)
  MaxTicks,         \* bound on each clock
  MaxBinds,         \* bound on the times a server is bound
  MaxCuts,          \* bound on the connections that break
  TIds, MaxSends    \* the in-memory queues, and a bound on the sends

VARIABLES
  tconf,    \* the deployment
  tsrv,     \* the server: shutdown flag, whether its accept loop runs
  tcalls,   \* call -> its two ends of the connection and its result
  tclock,   \* the clocks of the client and of the server
  queues,   \* in-memory: id -> payloads, TNone when not registered
  tlog      \* in-memory: id -> the payloads sent and the payloads received

tvars == <<tconf, tsrv, tcalls, tclock, queues, tlog>>

TCalls == DOMAIN TRequests

\* A request is one of the four rounds, never the error response.
ASSUME TAssumption ==
  /\ TOLERANCE \in Nat /\ MAX_FRAME \in Nat /\ U32 \in Nat \ {0}
  /\ \A k \in TConfigs : k.kind \in {"tcp", "auth", "mtls"}
  /\ \A c \in TCalls : TRequests[c].op # "Error" /\ TRequests[c].sizes \subseteq Nat
  /\ TNone \notin Seq({1, 2})

---------------------------------------------------------------------------
(* codec.rs.  A value is framed by its length, cut to 32 bits.             *)

write_frame(value, size) ==
  LET len == size % U32
  IN IF len > MAX_FRAME THEN TNone
     ELSE [value |-> value, size |-> size, len |-> len, cut |-> FALSE]

\* A frame cut short, or whose length does not cover the value, is an error.
read_frame(f) ==
  IF f = TNone \/ f.cut \/ f.len > MAX_FRAME \/ f.len # f.size THEN TNone ELSE f.value

---------------------------------------------------------------------------
(* auth.rs and signed_envelope.rs.                                         *)

Signature(key, bytes) == <<"sig", key, bytes>>

from_signing_key(key) == [verifier_id |-> <<"vid", key>>, signing_key |-> key]

from_identities(ids) ==
  [v \in {id.verifier_id : id \in ids} |->
     (CHOOSE id \in ids : id.verifier_id = v).signing_key]

lookup(registry, id) == IF id \in DOMAIN registry THEN registry[id] ELSE TNone

signing_bytes(sender, timestamp, payload) ==
  <<"signed-envelope/v1", sender, timestamp, payload>>

seal(identity, message, now) ==
  [sender_id |-> identity.verifier_id, timestamp |-> now, payload |-> message,
   signature |-> Signature(identity.signing_key,
                           signing_bytes(identity.verifier_id, now, message))]

OpenOfAnyAge(env, registry, now) ==
  LET key == lookup(registry, env.sender_id)
  IN IF \/ key = TNone
        \/ env.signature # Signature(key, signing_bytes(env.sender_id,
                                            env.timestamp, env.payload))
     THEN TNone ELSE env.payload

SaturatingSub(a, b) == IF a > b THEN a - b ELSE 0

open(env, registry, now) ==
  LET key == lookup(registry, env.sender_id)
  IN IF \/ key = TNone
        \/ SaturatingSub(now, env.timestamp) > TOLERANCE
        \/ SaturatingSub(env.timestamp, now) > TOLERANCE
        \/ env.signature # Signature(key, signing_bytes(env.sender_id,
                                            env.timestamp, env.payload))
     THEN TNone ELSE env.payload

---------------------------------------------------------------------------
(* mtls.rs.  A bundle has a certificate of its CA and trusts that CA; every *)
(* certificate is for the same name, localhost.                            *)

issue_node_bundle(ca, cn) ==
  [cert |-> [issuer |-> ca, cn |-> cn, san |-> "localhost"], ca_cert |-> ca]

server_config(bundle, peer) == peer.cert.issuer = bundle.ca_cert

client_config(bundle, peer) ==
  peer.cert.issuer = bundle.ca_cert /\ peer.cert.san = "localhost"

---------------------------------------------------------------------------
(* transport.rs: a call, from the request frame to the result.             *)

NodeRequest(c) == [op |-> TRequests[c].op, body |-> TRequests[c].body]

NodeResponse(op, body) == [op |-> op, body |-> body]
ErrorResponse == NodeResponse("Error", TNone)

Client == from_signing_key(tconf.client)
Server == from_signing_key(tconf.server)
ClientRegistry == from_identities({from_signing_key(k) : k \in tconf.clientKnows})
ServerRegistry == from_identities({from_signing_key(k) : k \in tconf.serverKnows})
ClientBundle == issue_node_bundle(tconf.clientCa, "coordinator")
ServerBundle == issue_node_bundle(tconf.serverCa, "aux")

\* The request as it is put on the wire.
RequestFrame(c, size) ==
  LET req == NodeRequest(c)
  IN write_frame(IF tconf.kind = "auth" THEN seal(Client, req, tclock.c) ELSE req,
                 size)

\* The four round methods: only a response of the method's own kind is Ok.
TcpNodeTransport_rounds(op, resp) ==
  IF resp # TNone /\ resp.op = op THEN resp.body ELSE TNone

\* The envelope may be of any registered sender.
AuthTcpNodeTransport_rounds(op, env) ==
  LET resp == IF env = TNone THEN TNone ELSE open(env, ClientRegistry, tclock.c)
  IN IF resp # TNone /\ resp.op = op THEN resp.body ELSE TNone

\* The handshake runs inside the first write or read.
MtlsTcpNodeTransport_rounds(op, resp) ==
  IF /\ client_config(ClientBundle, ServerBundle)
     /\ resp # TNone /\ resp.op = op
  THEN resp.body ELSE TNone

round_result(op, frame) ==
  LET value == read_frame(frame)
  IN CASE tconf.kind = "tcp" -> TcpNodeTransport_rounds(op, value)
       [] tconf.kind = "auth" -> AuthTcpNodeTransport_rounds(op, value)
       [] tconf.kind = "mtls" -> MtlsTcpNodeTransport_rounds(op, value)

\* What handle_connection hands to the node, TNone when it returns before.
TcpAuxServer_request(frame) == read_frame(frame)

AuthTcpAuxServer_request(frame) ==
  LET env == read_frame(frame)
  IN IF env = TNone THEN TNone ELSE open(env, ServerRegistry, tclock.s)

MtlsTcpAuxServer_request(frame) ==
  IF /\ server_config(ServerBundle, ClientBundle)
     /\ client_config(ClientBundle, ServerBundle)
  THEN read_frame(frame) ELSE TNone

server_request(frame) ==
  CASE tconf.kind = "tcp" -> TcpAuxServer_request(frame)
    [] tconf.kind = "auth" -> AuthTcpAuxServer_request(frame)
    [] tconf.kind = "mtls" -> MtlsTcpAuxServer_request(frame)

server_reply(resp) ==
  write_frame(IF tconf.kind = "auth" THEN seal(Server, resp, tclock.s) ELSE resp, 1)

---------------------------------------------------------------------------

IdleCall == [conn |-> "none", client |-> "idle", frame |-> TNone, reply |-> TNone,
             result |-> TNone, runs |-> 0, fresh |-> TRUE]

TInit ==
  /\ tconf \in TConfigs
  /\ tsrv = [shutdown |-> FALSE, accepting |-> TRUE, binds |-> 1]
  /\ tcalls = [c \in TCalls |-> IdleCall]
  /\ tclock = [c |-> 0, s |-> 0]
  /\ queues = [i \in TIds |-> TNone]
  /\ tlog = [i \in TIds |-> [sent |-> <<>>, got |-> <<>>]]

Set(c, r) == tcalls' = [tcalls EXCEPT ![c] = r]

\* connect, then write the request; a refused connection or a frame that is
\* too large ends the call, the latter with an empty connection.
StartCall(c, size) ==
  /\ tcalls[c].client = "idle"
  /\ LET frame == RequestFrame(c, size)
     IN Set(c, [tcalls[c] EXCEPT
                  !.conn = IF tsrv.accepting THEN "queued" ELSE "closed",
                  !.client = IF tsrv.accepting /\ frame # TNone THEN "waiting"
                             ELSE "done",
                  !.frame = frame])
  /\ UNCHANGED <<tconf, tsrv, tclock, queues, tlog>>

\* accept_loop: one thread for each connection until the flag is seen.
accept_loop(c) ==
  /\ tsrv.accepting /\ ~tsrv.shutdown /\ tcalls[c].conn = "queued"
  /\ Set(c, [tcalls[c] EXCEPT !.conn = "accepted"])
  /\ UNCHANGED <<tconf, tsrv, tclock, queues, tlog>>

\* It sees the flag after the next connection, at the latest the one that
\* shutdown makes; the listener and what it has queued are dropped.
accept_loop_ends ==
  /\ tsrv.accepting /\ tsrv.shutdown
  /\ tsrv' = [tsrv EXCEPT !.accepting = FALSE]
  /\ tcalls' = [c \in TCalls |->
                  IF tcalls[c].conn = "queued"
                  THEN [tcalls[c] EXCEPT !.conn = "closed"] ELSE tcalls[c]]
  /\ UNCHANGED <<tconf, tclock, queues, tlog>>

Within(a, b) == a - b <= TOLERANCE /\ b - a <= TOLERANCE

\* One connection: the node runs the request and answers it or refuses it.
handle_connection(c) ==
  /\ tcalls[c].conn = "accepted"
  /\ LET req == server_request(tcalls[c].frame)
     IN IF req = TNone THEN Set(c, [tcalls[c] EXCEPT !.conn = "closed"])
        ELSE \E resp \in {NodeResponse(req.op, <<req.op, req.body>>), ErrorResponse} :
               Set(c, [tcalls[c] EXCEPT
                         !.conn = "closed", !.reply = server_reply(resp),
                         !.runs = @ + 1,
                         !.fresh = tconf.kind = "auth" =>
                           Within(tclock.s, tcalls[c].frame.value.timestamp)])
  /\ UNCHANGED <<tconf, tsrv, tclock, queues, tlog>>

\* The call reads the reply, or the end of the connection.
FinishCall(c) ==
  /\ tcalls[c].client = "waiting" /\ tcalls[c].conn = "closed"
  /\ Set(c, [tcalls[c] EXCEPT
               !.client = "done",
               !.result = round_result(TRequests[c].op, tcalls[c].reply)])
  /\ UNCHANGED <<tconf, tsrv, tclock, queues, tlog>>

\* The read times out; the connection may still be served.
TimeoutCall(c) ==
  /\ tcalls[c].client = "waiting"
  /\ Set(c, [tcalls[c] EXCEPT !.client = "done"])
  /\ UNCHANGED <<tconf, tsrv, tclock, queues, tlog>>

Cut(call) == \/ call.frame # TNone /\ call.frame.cut
             \/ call.reply # TNone /\ call.reply.cut

\* The connection breaks within the request, or within the reply.
CutConnection(c) ==
  /\ Cardinality({d \in TCalls : Cut(tcalls[d])}) < MaxCuts
  /\ \/ /\ tcalls[c].conn \in {"queued", "accepted"} /\ tcalls[c].frame # TNone
        /\ ~tcalls[c].frame.cut
        /\ Set(c, [tcalls[c] EXCEPT !.frame.cut = TRUE])
     \/ /\ tcalls[c].reply # TNone /\ ~tcalls[c].reply.cut
        /\ Set(c, [tcalls[c] EXCEPT !.reply.cut = TRUE])
  /\ UNCHANGED <<tconf, tsrv, tclock, queues, tlog>>

shutdown ==
  /\ tsrv.accepting /\ ~tsrv.shutdown
  /\ tsrv' = [tsrv EXCEPT !.shutdown = TRUE]
  /\ UNCHANGED <<tconf, tcalls, tclock, queues, tlog>>

\* A new server on the same address, with a flag of its own.
bind ==
  /\ ~tsrv.accepting /\ tsrv.binds < MaxBinds
  /\ tsrv' = [shutdown |-> FALSE, accepting |-> TRUE, binds |-> tsrv.binds + 1]
  /\ UNCHANGED <<tconf, tcalls, tclock, queues, tlog>>

TTick(side) ==
  /\ tclock[side] < MaxTicks /\ tconf.kind = "auth"
  /\ tclock' = [tclock EXCEPT ![side] = @ + 1]
  /\ UNCHANGED <<tconf, tsrv, tcalls, queues, tlog>>

TNext ==
  \/ \E c \in TCalls :
       \/ \E size \in TRequests[c].sizes : StartCall(c, size)
       \/ accept_loop(c) \/ handle_connection(c)
       \/ FinishCall(c) \/ TimeoutCall(c) \/ CutConnection(c)
  \/ accept_loop_ends \/ shutdown \/ bind
  \/ TTick("c") \/ TTick("s")

---------------------------------------------------------------------------
(* InMemoryTransport.                                                      *)

\* Registering again keeps the queue.
register(id) ==
  /\ queues' = [queues EXCEPT ![id] = IF @ = TNone THEN <<>> ELSE @]
  /\ UNCHANGED <<tconf, tsrv, tcalls, tclock, tlog>>

send(to, payload) ==
  /\ queues[to] # TNone
  /\ queues' = [queues EXCEPT ![to] = Append(@, payload)]
  /\ tlog' = [tlog EXCEPT ![to].sent = Append(@, payload)]
  /\ UNCHANGED <<tconf, tsrv, tcalls, tclock>>

receive(id) ==
  /\ queues[id] # TNone
  /\ tlog' = [tlog EXCEPT ![id].got = @ \o queues[id]]
  /\ queues' = [queues EXCEPT ![id] = <<>>]
  /\ UNCHANGED <<tconf, tsrv, tcalls, tclock>>

TQueueNext ==
  \E id \in TIds :
    \/ register(id) \/ receive(id)
    \/ /\ Len(tlog[id].sent) < MaxSends
       /\ \E p \in {1, 2} : send(id, p)

TSpec == TInit /\ [][TNext \/ TQueueNext]_tvars

---------------------------------------------------------------------------

\* What a transport delivers is what was sent, once.  A call that returns Ok
\* returns the node's answer to its own request, which the node ran once; a
\* node runs no request twice, however calls time out, connections break and
\* servers are bound again.  Behind signed envelopes it runs only requests of
\* senders it knows, sealed within the tolerance of its own clock, and the
\* caller takes only answers of nodes it knows; behind mutual TLS both have
\* certificates of one CA.  In-memory queues deliver in order, each payload
\* once, also when an id registers again.
DeliveredAsSent ==
  /\ \A c \in TCalls :
       LET call == tcalls[c] IN
       /\ call.result # TNone =>
            /\ call.runs = 1
            /\ call.result = <<TRequests[c].op, TRequests[c].body>>
            /\ tconf.kind = "auth" => tconf.server \in tconf.clientKnows
       /\ call.runs <= 1
       /\ call.runs = 1 =>
            /\ call.fresh
            /\ tconf.kind = "auth" => tconf.client \in tconf.serverKnows
            /\ tconf.kind = "mtls" => tconf.clientCa = tconf.serverCa
  /\ \A i \in TIds : queues[i] # TNone => tlog[i].got \o queues[i] = tlog[i].sent
=============================================================================
