---------------------------- MODULE ServerProofs ----------------------------
(***************************************************************************)
(* Proofs about what a server process keeps and reads:                     *)
(*  - the session stores, for any sessions, verifiers and threads;         *)
(*  - every transport delivers what was sent, once, for any calls,         *)
(*    requests, registries, clocks and number of servers bound one after   *)
(*    the other;                                                           *)
(*  - the coordinator's HTTP server reads a whole request however the      *)
(*    bytes arrive.                                                        *)
(***************************************************************************)
EXTENDS SessionStore, Transports, HttpServer, SequenceTheorems, TLAPS

---------------------------------------------------------------------------
(* SessionStore.                                                           *)

\* What the two locks and the Mutex protect: only the in-memory store is left
\* in the middle of record_approval, only the SQLite store in the middle of
\* remove, and then no other thread is in it and the rows are already gone.
StoreCallsOK ==
  \A t \in Thread :
    /\ call[t].op = "record" => backend = "memory"
    /\ call[t].op = "remove" =>
         /\ backend = "sqlite"
         /\ \A u \in Thread \ {t} : call[u] = Idle
         /\ \A r \in approvals : r[1] # call[t].s

StoreInv == TypeOK /\ StoreCallsOK /\ ApprovalsHaveSession /\ NoApprovalForgotten

\* A call in the middle of record_approval or remove names its session and,
\* for record_approval, its verifier.
LEMMA CallFields ==
  ASSUME TypeOK, NEW t \in Thread
  PROVE  /\ call[t].op = "record" => call[t].s \in Session /\ call[t].v \in Verifier
         /\ call[t].op = "remove" => call[t].s \in Session
         /\ call[t] = Idle => call[t].op = "idle"
  <1>1. call[t] \in Calls
    BY Zenon DEF TypeOK
  <1> QED
    BY <1>1 DEF Calls, Idle

\* A store is opened empty.
LEMMA StoreInit == Init => StoreInv
  BY DEF Init, StoreInv, TypeOK, StoreCallsOK, ApprovalsHaveSession, NoApprovalForgotten,
         Of, Calls, Idle

\* insert and update_state change one session and, for a new session, what is
\* remembered of an earlier one with its id.
LEMMA StoreSessions ==
  ASSUME StoreInv, NEW t \in Thread, NEW s \in Session, UNCHANGED backend,
         insert(t, s) \/ \E st \in States : update_state(t, s, st)
  PROVE  StoreInv'
  <1> USE DEF StoreInv
  <1>1. CASE insert(t, s)
    <2>1. TypeOK'
      BY <1>1, Zenon DEF TypeOK, insert, Of, States
    <2>2. StoreCallsOK'
      BY <1>1, Zenon DEF StoreCallsOK, insert
    <2>3. ApprovalsHaveSession'
      BY <1>1, Zenon DEF TypeOK, ApprovalsHaveSession, insert, Absent
    <2>4. NoApprovalForgotten'
      BY <1>1, Zenon DEF TypeOK, NoApprovalForgotten, insert, Of
    <2> QED
      BY <2>1, <2>2, <2>3, <2>4, Zenon
  <1>2. ASSUME NEW st \in States, update_state(t, s, st)
        PROVE  StoreInv'
    <2>1. TypeOK'
      BY <1>2, Zenon DEF TypeOK, update_state
    <2>2. StoreCallsOK'
      BY <1>2, Zenon DEF StoreCallsOK, update_state
    <2>3. ApprovalsHaveSession'
      BY <1>2, Zenon DEF TypeOK, ApprovalsHaveSession, update_state, States, Absent
    <2>4. NoApprovalForgotten'
      BY <1>2, Zenon DEF TypeOK, NoApprovalForgotten, update_state, Of
    <2> QED
      BY <2>1, <2>2, <2>3, <2>4, Zenon
  <1> QED
    BY <1>1, <1>2, Zenon

\* record_approval of the SQLite store is one step under the Mutex.
LEMMA StoreRecordSqlite ==
  ASSUME StoreInv, NEW t \in Thread, NEW s \in Session, NEW v \in Verifier,
         UNCHANGED backend, record_approval_sqlite(t, s, v)
  PROVE  StoreInv'
  <1> USE DEF StoreInv, record_approval_sqlite
  <1>1. TypeOK'
    BY DEF TypeOK
  <1>2. StoreCallsOK'
    BY CallFields, Zenon DEF StoreCallsOK, MayEnter, Idle
  <1>3. ApprovalsHaveSession'
    BY DEF ApprovalsHaveSession
  <1>4. NoApprovalForgotten'
    BY Zenon DEF TypeOK, NoApprovalForgotten, Of
  <1> QED
    BY <1>1, <1>2, <1>3, <1>4, Zenon

\* Both blocks of record_approval of the in-memory store: another thread may
\* have removed the session in between, and the second block finds no set.
LEMMA StoreRecordMemory ==
  ASSUME StoreInv, NEW t \in Thread, UNCHANGED backend,
         \/ record_approval_insert(t)
         \/ \E s \in Session, v \in Verifier : record_approval_check(t, s, v)
  PROVE  StoreInv'
  <1> USE DEF StoreInv
  <1>1. ASSUME NEW s \in Session, NEW v \in Verifier, record_approval_check(t, s, v)
        PROVE  StoreInv'
    <2>1. TypeOK'
      BY <1>1, Zenon DEF TypeOK, record_approval_check, Calls
    <2>2. StoreCallsOK'
      BY <1>1, Zenon DEF TypeOK, StoreCallsOK, record_approval_check
    <2>3. ApprovalsHaveSession' /\ NoApprovalForgotten'
      BY <1>1, Zenon DEF ApprovalsHaveSession, NoApprovalForgotten, record_approval_check
    <2> QED
      BY <2>1, <2>2, <2>3, Zenon
  <1>2. CASE record_approval_insert(t)
    <2>1. call[t].s \in Session /\ call[t].v \in Verifier /\ backend = "memory"
      BY <1>2, CallFields, Zenon DEF record_approval_insert, StoreCallsOK
    <2>2. TypeOK'
      BY <1>2, <2>1 DEF TypeOK, record_approval_insert, Calls
    <2>3. StoreCallsOK'
      BY <1>2, <2>1, Zenon DEF TypeOK, StoreCallsOK, record_approval_insert, Idle
    <2>4. ApprovalsHaveSession'
      BY <1>2, <2>1 DEF ApprovalsHaveSession, record_approval_insert
    <2>5. NoApprovalForgotten'
      BY <1>2, <2>1, Zenon DEF NoApprovalForgotten, record_approval_insert, Of
    <2> QED
      BY <2>2, <2>3, <2>4, <2>5, Zenon
  <1> QED
    BY <1>1, <1>2, Zenon

\* remove: in one step under both locks, or as two statements of which the
\* first takes the rows that refer to the session.
LEMMA StoreRemove ==
  ASSUME StoreInv, NEW t \in Thread, UNCHANGED backend,
         \/ remove_session(t)
         \/ \E s \in Session : remove_memory(t, s) \/ remove_approvals(t, s)
  PROVE  StoreInv'
  <1> USE DEF StoreInv
  <1>1. ASSUME NEW s \in Session, remove_memory(t, s)
        PROVE  StoreInv'
    <2>1. TypeOK'
      BY <1>1, Zenon DEF TypeOK, remove_memory, Of
    <2>2. StoreCallsOK'
      BY <1>1, Zenon DEF StoreCallsOK, remove_memory, Of
    <2>3. ApprovalsHaveSession'
      BY <1>1, Zenon DEF TypeOK, ApprovalsHaveSession, remove_memory, Of
    <2>4. NoApprovalForgotten'
      BY <1>1, Zenon DEF TypeOK, NoApprovalForgotten, remove_memory, Of
    <2> QED
      BY <2>1, <2>2, <2>3, <2>4, Zenon
  <1>2. ASSUME NEW s \in Session, remove_approvals(t, s)
        PROVE  StoreInv'
    <2>1. TypeOK'
      BY <1>2, Zenon DEF TypeOK, remove_approvals, Of, Calls
    <2>2. StoreCallsOK'
      BY <1>2, CallFields, Zenon DEF TypeOK, StoreCallsOK, remove_approvals, MayEnter, Of, Idle
    <2>3. ApprovalsHaveSession'
      BY <1>2, Zenon DEF ApprovalsHaveSession, remove_approvals, Of
    <2>4. NoApprovalForgotten'
      BY <1>2, Zenon DEF NoApprovalForgotten, remove_approvals, Of
    <2> QED
      BY <2>1, <2>2, <2>3, <2>4
  <1>3. CASE remove_session(t)
    <2>1. call[t].s \in Session
      BY <1>3, CallFields, Zenon DEF remove_session
    <2>2. TypeOK'
      BY <1>3, <2>1, Zenon DEF TypeOK, remove_session, Calls
    <2>3. StoreCallsOK'
      BY <1>3, Zenon DEF TypeOK, StoreCallsOK, remove_session, Idle
    <2>4. ApprovalsHaveSession'
      BY <1>3, <2>1, Zenon DEF TypeOK, StoreCallsOK, ApprovalsHaveSession, remove_session
    <2>5. NoApprovalForgotten'
      BY <1>3, <2>1, Zenon DEF TypeOK, NoApprovalForgotten, remove_session, Of
    <2> QED
      BY <2>2, <2>3, <2>4, <2>5, Zenon
  <1> QED
    BY <1>1, <1>2, <1>3, Zenon

\* A restart loses the calls, and with the in-memory store everything.
LEMMA StoreRestart ==
  ASSUME StoreInv, UNCHANGED backend, Restart
  PROVE  StoreInv'
  <1>1. CASE backend = "memory"
    BY <1>1, Zenon DEF StoreInv, Restart, TypeOK, StoreCallsOK, ApprovalsHaveSession,
                NoApprovalForgotten, Of, Calls, Idle
  <1>2. CASE backend # "memory"
    BY <1>2, Zenon DEF StoreInv, Restart, TypeOK, StoreCallsOK, ApprovalsHaveSession,
                NoApprovalForgotten, Of, Calls, Idle
  <1> QED
    BY <1>1, <1>2, Zenon

\* StoreInv is inductive.
LEMMA StoreStep ==
  ASSUME StoreInv, [Next]_vars
  PROVE  StoreInv'
  <1>1. CASE UNCHANGED vars
    BY <1>1, Zenon DEF vars, StoreInv, TypeOK, StoreCallsOK, ApprovalsHaveSession,
                NoApprovalForgotten
  <1>2. CASE Next
    BY <1>2, StoreSessions, StoreRecordSqlite, StoreRecordMemory, StoreRemove,
       StoreRestart, Zenon DEF Next, Step
  <1> QED
    BY <1>1, <1>2, Zenon

\* Both stores keep StoreInv, whatever their threads do.
THEOREM StoreInvariant == Spec => []StoreInv
  <1> QED
    BY StoreInit, StoreStep, PTL DEF Spec

\* In both stores every approval belongs to a stored session, wherever calls
\* interleave and the process stops (record_approval, remove).
THEOREM StoreApprovalsHaveSession == Spec => []ApprovalsHaveSession
  <1>1. StoreInv => ApprovalsHaveSession
    BY Zenon DEF StoreInv
  <1> QED
    BY <1>1, StoreInvariant, PTL

\* In both stores an approval stays until a caller removes its session.
THEOREM StoreForgetsNoApproval == Spec => []NoApprovalForgotten
  <1>1. StoreInv => NoApprovalForgotten
    BY Zenon DEF StoreInv
  <1> QED
    BY <1>1, StoreInvariant, PTL

\* The variables of the stores keep their types.
THEOREM StoreTypes == Spec => []TypeOK
  <1>1. StoreInv => TypeOK
    BY Zenon DEF StoreInv
  <1> QED
    BY <1>1, StoreInvariant, PTL

\* update_state never leaves a terminal state in either store.
THEOREM StoreTerminalImmutable == Spec => TerminalImmutable
  <1> DEFINE Kept == \A s \in Session : is_terminal(sessions[s]) =>
                       sessions'[s] \in {sessions[s], Absent}
  <1>1. ASSUME StoreInv, [Next]_vars
        PROVE  [Kept]_vars
    <2> SUFFICES ASSUME Next, NEW s \in Session, is_terminal(sessions[s])
                 PROVE  sessions'[s] \in {sessions[s], Absent}
      BY <1>1, Zenon
    <2>1. TypeOK /\ StoreCallsOK
      BY <1>1, Zenon DEF StoreInv
    <2>2. ASSUME NEW t \in Thread, NEW i \in Session, insert(t, i)
          PROVE  sessions'[s] \in {sessions[s], Absent}
      BY <2>1, <2>2, Zenon DEF TypeOK, insert, is_terminal, Absent
    <2>3. ASSUME NEW t \in Thread, NEW i \in Session, NEW st \in States,
                 update_state(t, i, st)
          PROVE  sessions'[s] \in {sessions[s], Absent}
      BY <2>1, <2>3, Zenon DEF TypeOK, update_state
    <2>4. ASSUME NEW t \in Thread, NEW i \in Session,
                 remove_memory(t, i) \/ remove_approvals(t, i)
          PROVE  sessions'[s] \in {sessions[s], Absent}
      BY <2>1, <2>4, Zenon DEF TypeOK, remove_memory, remove_approvals
    <2>5. ASSUME NEW t \in Thread, remove_session(t)
          PROVE  sessions'[s] \in {sessions[s], Absent}
      BY <2>1, <2>5, Zenon DEF TypeOK, remove_session
    <2>6. ASSUME NEW t \in Thread,
                 \/ record_approval_insert(t)
                 \/ \E i \in Session, v \in Verifier :
                      \/ record_approval_sqlite(t, i, v)
                      \/ record_approval_check(t, i, v)
          PROVE  sessions'[s] \in {sessions[s], Absent}
      BY <2>6, Zenon DEF record_approval_insert, record_approval_sqlite,
                  record_approval_check
    <2>7. CASE Restart
      BY <2>7, Zenon DEF Restart
    <2> QED
      BY <2>2, <2>3, <2>4, <2>5, <2>6, <2>7, Zenon DEF Next, Step
  <1> QED
    BY <1>1, StoreInvariant, PTL DEF Spec, TerminalImmutable

\* The SQLite store takes no approval for a terminal session: only
\* record_approval_sqlite adds one, and it checks the state under the Mutex.
THEOREM StoreNoLateApprovalSqlite == Spec => NoLateApprovalSqlite
  <1> DEFINE NoneAdded ==
        \A s \in Session : backend = "sqlite" /\ is_terminal(sessions[s]) =>
          Of(approvals', s) \subseteq Of(approvals, s)
  <1>1. ASSUME StoreInv, [Next]_vars
        PROVE  [NoneAdded]_vars
    <2> SUFFICES ASSUME Next, NEW s \in Session, backend = "sqlite",
                        is_terminal(sessions[s])
                 PROVE  Of(approvals', s) \subseteq Of(approvals, s)
      BY <1>1, Zenon
    <2>1. ASSUME NEW t \in Thread, NEW i \in Session, NEW v \in Verifier,
                 record_approval_sqlite(t, i, v)
          PROVE  Of(approvals', s) \subseteq Of(approvals, s)
      BY <2>1 DEF record_approval_sqlite, Of
    <2>2. ASSUME NEW t \in Thread, record_approval_insert(t)
          PROVE  FALSE
      BY <1>1, <2>2, Zenon DEF StoreInv, StoreCallsOK, record_approval_insert
    <2>3. CASE approvals' \subseteq approvals
      BY <2>3, Zenon DEF Of
    <2>4. ASSUME NEW t \in Thread, NEW i \in Session,
                 \/ insert(t, i) \/ \E st \in States : update_state(t, i, st)
                 \/ \E v \in Verifier : record_approval_check(t, i, v)
                 \/ remove_memory(t, i) \/ remove_approvals(t, i)
          PROVE  approvals' \subseteq approvals
      BY <2>4, Zenon DEF insert, update_state, record_approval_check, remove_memory,
                  remove_approvals, Of
    <2>5. ASSUME NEW t \in Thread, remove_session(t)
          PROVE  approvals' \subseteq approvals
      BY <2>5, Zenon DEF remove_session
    <2>6. CASE Restart
      BY <2>3, <2>6, Zenon DEF Restart
    <2> QED
      BY <2>1, <2>2, <2>3, <2>4, <2>5, <2>6, Zenon DEF Next, Step
  <1> QED
    BY <1>1, StoreInvariant, PTL DEF Spec, NoLateApprovalSqlite

---------------------------------------------------------------------------
(* Transports.                                                             *)

\* What may stand in the frames of call c, by the kind of transport.
RequestValues(c) ==
  IF tconf.kind = "auth" THEN {seal(Client, NodeRequest(c), at) : at \in Nat}
  ELSE {NodeRequest(c)}

NodeAnswer(c) == <<TRequests[c].op, TRequests[c].body>>

Responses(c) == {NodeResponse(TRequests[c].op, NodeAnswer(c)), ErrorResponse}

ResponseValues(c) ==
  IF tconf.kind = "auth"
  THEN {seal(Server, resp, at) : resp \in Responses(c), at \in Nat}
  ELSE Responses(c)

Frames(values) == [value : values, size : Nat, len : Nat, cut : BOOLEAN]

CallStates(c) ==
  [conn : {"none", "queued", "accepted", "closed"},
   client : {"idle", "waiting", "done"},
   frame : Frames(RequestValues(c)) \cup {TNone},
   reply : Frames(ResponseValues(c)) \cup {TNone},
   result : {TNone, NodeAnswer(c)}, runs : {0, 1}, fresh : BOOLEAN]

\* The two ends of one call: the node runs it when it closes the connection,
\* there is no reply and no result before, and a call that has not started
\* has no connection.
CallOK(c) ==
  LET one == tcalls[c] IN
  /\ one \in CallStates(c)
  /\ one.client = "idle" => one.conn = "none"
  /\ one.runs = 1 => one.conn = "closed"
  /\ one.reply # TNone => one.runs = 1
  /\ one.result # TNone =>
       /\ one.runs = 1
       /\ tconf.kind = "auth" => tconf.server \in tconf.clientKnows
  /\ one.runs = 1 =>
       /\ one.fresh
       /\ tconf.kind = "auth" => tconf.client \in tconf.serverKnows
       /\ tconf.kind = "mtls" => tconf.clientCa = tconf.serverCa

CallsOK ==
  /\ tconf \in TConfigs
  /\ tclock \in [{"c", "s"} -> Nat]
  /\ tcalls = [c \in TCalls |-> tcalls[c]]
  /\ \A c \in TCalls : CallOK(c)

Payloads == Seq({1, 2})

\* An id that never registered has no traffic; otherwise what it received and
\* what waits in its queue make up what was sent to it.
QueuesOK ==
  /\ queues \in [TIds -> Payloads \cup {TNone}]
  /\ tlog \in [TIds -> [sent : Payloads, got : Payloads]]
  /\ \A i \in TIds :
       IF queues[i] = TNone THEN tlog[i].sent = <<>> /\ tlog[i].got = <<>>
       ELSE tlog[i].got \o queues[i] = tlog[i].sent

TInv == CallsOK /\ QueuesOK

---------------------------------------------------------------------------
(* The operators a call is made of.                                        *)

\* The registry of the identities of the signing keys in known.
RegistryOf(known) == from_identities({from_signing_key(x) : x \in known})

\* A registry holds the key of an id only if it knows the identity: the id is
\* the public key of the identity's signing key.
LEMMA LookupKnows ==
  ASSUME NEW known, NEW k,
         lookup(RegistryOf(known), from_signing_key(k).verifier_id) # TNone
  PROVE  k \in known
  <1> DEFINE ids == {from_signing_key(x) : x \in known}
  <1>1. <<"vid", k>> \in {id.verifier_id : id \in ids}
    BY Zenon DEF lookup, RegistryOf, from_identities, from_signing_key
  <1>2. PICK x \in known : <<"vid", k>> = <<"vid", x>>
    BY <1>1 DEF from_signing_key
  <1> QED
    BY <1>2, Zenon

\* open gives out the payload of an envelope, of a sender in the registry and
\* sealed within the tolerance of the clock.
LEMMA OpenOK ==
  ASSUME NEW known, NEW k, NEW message, NEW at \in Nat, NEW now \in Nat, NEW env,
         env = seal(from_signing_key(k), message, at),
         open(env, RegistryOf(known), now) # TNone
  PROVE  /\ open(env, RegistryOf(known), now) = env.payload
         /\ k \in known
         /\ Within(now, at)
  <1> DEFINE registry == RegistryOf(known)
  <1>1. /\ env.sender_id = from_signing_key(k).verifier_id
        /\ env.timestamp = at
    BY Zenon DEF seal
  <1>2. /\ lookup(registry, env.sender_id) # TNone
        /\ ~ (SaturatingSub(now, env.timestamp) > TOLERANCE)
        /\ ~ (SaturatingSub(env.timestamp, now) > TOLERANCE)
        /\ open(env, registry, now) = env.payload
    BY Zenon DEF open
  <1>3. k \in known
    BY <1>1, <1>2, LookupKnows, Zenon
  <1>4. Within(now, at)
    BY <1>1, <1>2, TAssumption DEF SaturatingSub, Within
  <1> QED
    BY <1>2, <1>3, <1>4, Zenon

\* A frame that can be written holds its value.
LEMMA WriteFrameOK ==
  ASSUME NEW values, NEW value \in values, NEW size \in Nat
  PROVE  write_frame(value, size) \in Frames(values) \cup {TNone}
  BY TAssumption DEF write_frame, Frames

\* The request of a call as it is put on the wire.
LEMMA RequestFrameOK ==
  ASSUME CallsOK, NEW c \in TCalls, NEW size \in TRequests[c].sizes
  PROVE  RequestFrame(c, size) \in Frames(RequestValues(c)) \cup {TNone}
  <1>1. size \in Nat /\ tclock.c \in Nat
    BY TAssumption, Zenon DEF CallsOK
  <1>2. (IF tconf.kind = "auth" THEN seal(Client, NodeRequest(c), tclock.c)
         ELSE NodeRequest(c)) \in RequestValues(c)
    BY <1>1, Zenon DEF RequestValues
  <1> QED
    BY <1>1, <1>2, WriteFrameOK, Zenon DEF RequestFrame

\* The answer of the node as it is put on the wire.
LEMMA ReplyFrameOK ==
  ASSUME CallsOK, NEW c \in TCalls, NEW resp \in Responses(c)
  PROVE  server_reply(resp) \in Frames(ResponseValues(c)) \cup {TNone}
  <1>1. tclock.s \in Nat
    BY Zenon DEF CallsOK
  <1>2. (IF tconf.kind = "auth" THEN seal(Server, resp, tclock.s) ELSE resp)
          \in ResponseValues(c)
    BY <1>1 DEF ResponseValues
  <1> QED
    BY <1>2, WriteFrameOK, Zenon DEF server_reply

\* What handle_connection hands to the node is the request of the call, of a
\* client the server knows, fresh, or with a certificate of its CA.
LEMMA ServerRequestOK ==
  ASSUME CallsOK, NEW c \in TCalls,
         NEW frame \in Frames(RequestValues(c)) \cup {TNone},
         server_request(frame) # TNone
  PROVE  /\ server_request(frame) = NodeRequest(c)
         /\ tconf.kind = "auth" =>
              tconf.client \in tconf.serverKnows /\ Within(tclock.s, frame.value.timestamp)
         /\ tconf.kind = "mtls" => tconf.clientCa = tconf.serverCa
  <1>1. tconf.kind \in {"tcp", "auth", "mtls"} /\ tclock.s \in Nat
    BY TAssumption, Zenon DEF CallsOK
  <1>2. CASE tconf.kind = "tcp"
    BY <1>2, Zenon DEF server_request, TcpAuxServer_request, read_frame, Frames, RequestValues
  <1>3. CASE tconf.kind = "mtls"
    <2>1. server_request(frame) = MtlsTcpAuxServer_request(frame)
      BY <1>3, Zenon DEF server_request
    <2>2. /\ server_config(ServerBundle, ClientBundle)
          /\ read_frame(frame) # TNone /\ server_request(frame) = read_frame(frame)
      BY <2>1, Zenon DEF MtlsTcpAuxServer_request
    <2>3. tconf.clientCa = tconf.serverCa
      BY <2>2, Zenon DEF server_config, ServerBundle, ClientBundle, issue_node_bundle
    <2> QED
      BY <1>3, <2>2, <2>3, Zenon DEF read_frame, Frames, RequestValues
  <1>4. CASE tconf.kind = "auth"
    <2>1. server_request(frame) = AuthTcpAuxServer_request(frame)
      BY <1>4, Zenon DEF server_request
    <2>2. /\ read_frame(frame) # TNone
          /\ server_request(frame) = open(read_frame(frame), ServerRegistry, tclock.s)
      BY <2>1, Zenon DEF AuthTcpAuxServer_request
    <2>3. frame \in Frames(RequestValues(c)) /\ read_frame(frame) = frame.value
      BY <2>2, Zenon DEF read_frame
    <2>4. PICK at \in Nat : frame.value = seal(Client, NodeRequest(c), at)
      BY <1>4, <2>3, Zenon DEF Frames, RequestValues
    <2>5. open(frame.value, ServerRegistry, tclock.s) # TNone
      BY <2>2, <2>3, Zenon
    <2>6. ServerRegistry = RegistryOf(tconf.serverKnows)
      BY Zenon DEF ServerRegistry, RegistryOf
    <2>7. /\ server_request(frame) = frame.value.payload
          /\ tconf.client \in tconf.serverKnows /\ Within(tclock.s, at)
      BY <1>1, <2>2, <2>3, <2>4, <2>5, <2>6, OpenOK DEF Client
    <2>8. frame.value.timestamp = at /\ frame.value.payload = NodeRequest(c)
      BY <2>4 DEF seal
    <2> QED
      BY <1>4, <2>7, <2>8, Zenon
  <1> QED
    BY <1>1, <1>2, <1>3, <1>4, Zenon

\* A reply the client opens is the answer the server sealed.
LEMMA ReplyOpens ==
  ASSUME NEW resp, NEW at \in Nat, NEW env, tclock.c \in Nat,
         env = seal(Server, resp, at),
         open(env, ClientRegistry, tclock.c) # TNone
  PROVE  /\ open(env, ClientRegistry, tclock.c) = env.payload
         /\ env.payload = resp
         /\ tconf.server \in tconf.clientKnows
  <1>1. ClientRegistry = RegistryOf(tconf.clientKnows)
    BY Zenon DEF ClientRegistry, RegistryOf
  <1>2. env.payload = resp
    BY Zenon DEF seal
  <1>3. env = seal(from_signing_key(tconf.server), resp, at)
    BY Zenon DEF Server
  <1>4. open(env, RegistryOf(tconf.clientKnows), tclock.c) # TNone
    BY <1>1, Zenon
  <1>5. open(env, RegistryOf(tconf.clientKnows), tclock.c) = env.payload
    BY <1>4, Zenon DEF open
  <1>6. tconf.server \in tconf.clientKnows
    BY <1>3, <1>4, OpenOK
  <1> QED
    BY <1>1, <1>2, <1>5, <1>6, Zenon

\* What a call returns is the node's answer to its request, of a node the
\* caller knows.
LEMMA RoundResultOK ==
  ASSUME CallsOK, NEW c \in TCalls,
         NEW reply \in Frames(ResponseValues(c)) \cup {TNone}
  PROVE  /\ round_result(TRequests[c].op, reply) \in {TNone, NodeAnswer(c)}
         /\ round_result(TRequests[c].op, reply) # TNone =>
              /\ reply # TNone
              /\ tconf.kind = "auth" => tconf.server \in tconf.clientKnows
  <1> DEFINE op == TRequests[c].op
             value == read_frame(reply)
  <1>1. tconf.kind \in {"tcp", "auth", "mtls"} /\ tclock.c \in Nat /\ op # "Error"
    BY TAssumption, Zenon DEF CallsOK
  <1>2. ASSUME NEW resp \in Responses(c), resp.op = op
        PROVE  resp.body = NodeAnswer(c)
    BY <1>1, <1>2 DEF Responses, NodeResponse, ErrorResponse
  <1>3. value # TNone => reply # TNone /\ value \in ResponseValues(c)
    BY Zenon DEF read_frame, Frames
  <1>4. CASE tconf.kind = "tcp"
    <2>1. round_result(op, reply) = TcpNodeTransport_rounds(op, value)
      BY <1>4, Zenon DEF round_result
    <2> QED
      BY <1>2, <1>3, <1>4, <2>1 DEF TcpNodeTransport_rounds, ResponseValues
  <1>5. CASE tconf.kind = "mtls"
    <2>1. round_result(op, reply) = MtlsTcpNodeTransport_rounds(op, value)
      BY <1>5, Zenon DEF round_result
    <2> QED
      BY <1>2, <1>3, <1>5, <2>1 DEF MtlsTcpNodeTransport_rounds, ResponseValues
  <1>6. CASE tconf.kind = "auth"
    <2>1. round_result(op, reply) = AuthTcpNodeTransport_rounds(op, value)
      BY <1>6, Zenon DEF round_result
    <2>2. CASE value = TNone
      BY <2>1, <2>2, Zenon DEF AuthTcpNodeTransport_rounds
    <2>3. CASE value # TNone
      <3>1. PICK resp \in Responses(c), at \in Nat : value = seal(Server, resp, at)
        BY <1>3, <1>6, <2>3 DEF ResponseValues
      <3> DEFINE opened == open(value, ClientRegistry, tclock.c)
      <3>2. round_result(op, reply) =
              IF opened # TNone /\ opened.op = op THEN opened.body ELSE TNone
        BY <2>1, <2>3, Zenon DEF AuthTcpNodeTransport_rounds
      <3>3. ASSUME opened # TNone
            PROVE  opened = resp /\ tconf.server \in tconf.clientKnows
        BY <1>1, <3>1, <3>3, ReplyOpens, Zenon
      <3> HIDE DEF opened
      <3> QED
        BY <1>2, <1>3, <2>3, <3>2, <3>3, Zenon
    <2> QED
      BY <2>2, <2>3, Zenon
  <1> QED
    BY <1>1, <1>4, <1>5, <1>6, Zenon

---------------------------------------------------------------------------
(* Each step keeps the invariant.                                          *)

\* A step that changes one call, and neither the deployment nor the clocks,
\* keeps CallsOK if it keeps it for that call.
LEMMA OneCall ==
  ASSUME CallsOK, NEW c \in TCalls, NEW r, Set(c, r), UNCHANGED <<tconf, tclock>>,
         CallOK(c)'
  PROVE  CallsOK'
  <1>1. tcalls' = [d \in TCalls |-> tcalls'[d]]
    BY Zenon DEF CallsOK, Set
  <1>2. ASSUME NEW d \in TCalls, d # c
        PROVE  CallOK(d)'
    <2>1. tcalls'[d] = tcalls[d]
      BY <1>2, Zenon DEF CallsOK, Set
    <2>2. CallStates(d)' = CallStates(d)
      BY DEF CallStates, RequestValues, ResponseValues, Client, Server
    <2>3. CallOK(d)
      BY Zenon DEF CallsOK
    <2> QED
      BY <2>1, <2>2, <2>3, Zenon DEF CallOK
  <1> QED
    BY <1>1, <1>2, Zenon DEF CallsOK

\* The values of frames depend on the deployment alone.
LEMMA SameStates ==
  ASSUME NEW c \in TCalls, UNCHANGED tconf
  PROVE  CallStates(c)' = CallStates(c)
  BY DEF CallStates, RequestValues, ResponseValues, Client, Server

\* A call is started: it has not run.
LEMMA StartCallOK ==
  ASSUME CallsOK, NEW c \in TCalls, NEW size \in TRequests[c].sizes,
         StartCall(c, size)
  PROVE  CallsOK'
  <1> DEFINE frame == RequestFrame(c, size)
             r == [tcalls[c] EXCEPT
                     !.conn = IF tsrv.accepting THEN "queued" ELSE "closed",
                     !.client = IF tsrv.accepting /\ frame # TNone THEN "waiting"
                                ELSE "done",
                     !.frame = frame]
  <1>1. /\ Set(c, r) /\ UNCHANGED <<tconf, tclock>> /\ tcalls[c].client = "idle"
        /\ tcalls[c] \in CallStates(c) /\ CallOK(c)
    BY Zenon DEF StartCall, CallsOK, CallOK
  <1>2. frame \in Frames(RequestValues(c)) \cup {TNone}
    BY RequestFrameOK, Zenon
  <1>3. tcalls'[c] = r
    BY <1>1, Zenon DEF CallsOK, Set
  <1> HIDE DEF frame
  <1>4. r \in CallStates(c)
    BY <1>1, <1>2, Zenon DEF CallStates
  <1>5. /\ r.client # "idle" /\ r.runs = tcalls[c].runs /\ r.reply = tcalls[c].reply
        /\ r.result = tcalls[c].result /\ r.fresh = tcalls[c].fresh
    BY <1>1, Zenon DEF CallStates
  <1>6. r.runs # 1
    BY <1>1, <1>5, Zenon DEF CallOK
  <1>7. CallOK(c)'
    BY <1>1, <1>3, <1>4, <1>5, <1>6, SameStates, Zenon DEF CallOK
  <1> QED
    BY <1>1, <1>7, OneCall, Zenon

\* The accept loop takes a connection from the queue.
LEMMA AcceptOK ==
  ASSUME CallsOK, NEW c \in TCalls, accept_loop(c)
  PROVE  CallsOK'
  <1> DEFINE r == [tcalls[c] EXCEPT !.conn = "accepted"]
  <1>1. /\ Set(c, r) /\ UNCHANGED <<tconf, tclock>> /\ tcalls[c].conn = "queued"
        /\ tcalls[c] \in CallStates(c) /\ CallOK(c)
    BY Zenon DEF accept_loop, CallsOK, CallOK
  <1>2. tcalls'[c] = r
    BY <1>1, Zenon DEF CallsOK, Set
  <1>3. /\ r \in CallStates(c)
        /\ r.client = tcalls[c].client /\ r.runs = tcalls[c].runs
        /\ r.reply = tcalls[c].reply /\ r.result = tcalls[c].result
        /\ r.fresh = tcalls[c].fresh
    BY <1>1, Zenon DEF CallStates
  <1>4. CallOK(c)'
    BY <1>1, <1>2, <1>3, SameStates, Zenon DEF CallOK
  <1> QED
    BY <1>1, <1>4, OneCall, Zenon

\* The accept loop ends and drops the connections in the queue.
LEMMA AcceptEndsOK ==
  ASSUME CallsOK, accept_loop_ends
  PROVE  CallsOK'
  <1>1. UNCHANGED <<tconf, tclock>> /\ tcalls' = [d \in TCalls |-> tcalls'[d]]
    BY Zenon DEF accept_loop_ends
  <1>2. ASSUME NEW c \in TCalls
        PROVE  CallOK(c)'
    <2>1. CallOK(c) /\ tcalls[c] \in CallStates(c)
      BY Zenon DEF CallsOK, CallOK
    <2>2. \/ tcalls'[c] = tcalls[c]
          \/ /\ tcalls[c].conn = "queued"
             /\ tcalls'[c] = [tcalls[c] EXCEPT !.conn = "closed"]
      BY Zenon DEF accept_loop_ends
    <2>3. CASE tcalls'[c] = tcalls[c]
      BY <1>1, <2>1, <2>3, SameStates DEF CallOK
    <2>4. CASE /\ tcalls[c].conn = "queued"
               /\ tcalls'[c] = [tcalls[c] EXCEPT !.conn = "closed"]
      <3> DEFINE r == [tcalls[c] EXCEPT !.conn = "closed"]
      <3>1. /\ r \in CallStates(c)
            /\ r.client = tcalls[c].client /\ r.runs = tcalls[c].runs
            /\ r.reply = tcalls[c].reply /\ r.result = tcalls[c].result
            /\ r.fresh = tcalls[c].fresh
        BY <2>1, Zenon DEF CallStates
      <3> QED
        BY <1>1, <2>1, <2>4, <3>1, SameStates, Zenon DEF CallOK
    <2> QED
      BY <2>2, <2>3, <2>4, Zenon
  <1> QED
    BY <1>1, <1>2, Zenon DEF CallsOK

\* The node serves a connection: it runs the request at most this once, since
\* a connection that is served is not closed yet.
LEMMA HandleConnectionOK ==
  ASSUME CallsOK, NEW c \in TCalls, handle_connection(c)
  PROVE  CallsOK'
  <1> DEFINE req == server_request(tcalls[c].frame)
  <1>1. /\ UNCHANGED <<tconf, tclock>> /\ tcalls[c].conn = "accepted"
        /\ tcalls[c] \in CallStates(c) /\ CallOK(c)
    BY Zenon DEF handle_connection, CallsOK, CallOK
  <1>2. /\ tcalls[c].runs = 0 /\ tcalls[c].client # "idle"
        /\ tcalls[c].reply = TNone /\ tcalls[c].result = TNone
    BY <1>1, Zenon DEF CallOK, CallStates
  <1>3. CASE req = TNone
    <2> DEFINE r == [tcalls[c] EXCEPT !.conn = "closed"]
    <2>1. Set(c, r)
      BY <1>3, Zenon DEF handle_connection
    <2>2. tcalls'[c] = r
      BY <2>1, Zenon DEF CallsOK, Set
    <2>3. /\ r \in CallStates(c)
          /\ r.client = tcalls[c].client /\ r.runs = tcalls[c].runs
          /\ r.reply = tcalls[c].reply /\ r.result = tcalls[c].result
          /\ r.fresh = tcalls[c].fresh
      BY <1>1, Zenon DEF CallStates
    <2>4. CallOK(c)'
      BY <1>1, <1>2, <2>2, <2>3, SameStates, Zenon DEF CallOK
    <2> QED
      BY <1>1, <2>1, <2>4, OneCall, Zenon
  <1>4. CASE req # TNone
    <2>1. /\ req = NodeRequest(c)
          /\ tconf.kind = "auth" =>
               /\ tconf.client \in tconf.serverKnows
               /\ Within(tclock.s, tcalls[c].frame.value.timestamp)
          /\ tconf.kind = "mtls" => tconf.clientCa = tconf.serverCa
      <3>1. tcalls[c].frame \in Frames(RequestValues(c)) \cup {TNone}
        BY <1>1, Zenon DEF CallStates
      <3> QED
        BY <1>4, <3>1, ServerRequestOK, Zenon
    <2>2. {NodeResponse(req.op, <<req.op, req.body>>), ErrorResponse} = Responses(c)
      BY <2>1 DEF NodeRequest, Responses, NodeAnswer
    <2> DEFINE fresh == tconf.kind = "auth" =>
                          Within(tclock.s, tcalls[c].frame.value.timestamp)
    <2>3. PICK resp \in Responses(c) :
            Set(c, [tcalls[c] EXCEPT
                      !.conn = "closed", !.reply = server_reply(resp),
                      !.runs = @ + 1, !.fresh = fresh])
      BY <1>4, <2>2, Zenon DEF handle_connection
    <2> DEFINE reply == server_reply(resp)
               runs == tcalls[c].runs + 1
               r == [tcalls[c] EXCEPT
                       !.conn = "closed", !.reply = reply,
                       !.runs = runs, !.fresh = fresh]
    <2>4. Set(c, r)
      BY <2>3, Zenon
    <2>5. reply \in Frames(ResponseValues(c)) \cup {TNone}
      BY ReplyFrameOK, Zenon
    <2>6. fresh = TRUE /\ runs = 1
      BY <1>2, <2>1
    <2>7. tcalls'[c] = r
      BY <2>4, Zenon DEF CallsOK, Set
    <2> HIDE DEF reply, fresh, runs
    <2>8. r \in CallStates(c)
      BY <1>1, <2>5, <2>6, Zenon DEF CallStates
    <2>9. /\ r.conn = "closed" /\ r.client = tcalls[c].client /\ r.runs = 1
          /\ r.result = TNone /\ r.fresh
      BY <1>1, <1>2, <2>6, Zenon DEF CallStates
    <2>10. CallOK(c)'
      BY <1>1, <1>2, <2>1, <2>7, <2>8, <2>9, SameStates, Zenon DEF CallOK
    <2> QED
      BY <1>1, <2>4, <2>10, OneCall, Zenon
  <1> QED
    BY <1>3, <1>4, Zenon

\* The call takes the answer from the reply.
LEMMA FinishCallOK ==
  ASSUME CallsOK, NEW c \in TCalls, FinishCall(c)
  PROVE  CallsOK'
  <1> DEFINE result == round_result(TRequests[c].op, tcalls[c].reply)
             r == [tcalls[c] EXCEPT !.client = "done", !.result = result]
  <1>1. /\ Set(c, r) /\ UNCHANGED <<tconf, tclock>>
        /\ tcalls[c] \in CallStates(c) /\ CallOK(c)
    BY Zenon DEF FinishCall, CallsOK, CallOK
  <1>2. tcalls[c].reply \in Frames(ResponseValues(c)) \cup {TNone}
    BY <1>1, Zenon DEF CallStates
  <1>3. /\ result \in {TNone, NodeAnswer(c)}
        /\ result # TNone =>
             /\ tcalls[c].reply # TNone
             /\ tconf.kind = "auth" => tconf.server \in tconf.clientKnows
    BY <1>2, RoundResultOK, Zenon
  <1>4. tcalls'[c] = r
    BY <1>1, Zenon DEF CallsOK, Set
  <1> HIDE DEF result
  <1>5. /\ r \in CallStates(c) /\ r.client = "done" /\ r.result = result
        /\ r.conn = tcalls[c].conn /\ r.runs = tcalls[c].runs
        /\ r.reply = tcalls[c].reply /\ r.fresh = tcalls[c].fresh
    BY <1>1, <1>3, Zenon DEF CallStates
  <1>6. CallOK(c)'
    BY <1>1, <1>3, <1>4, <1>5, SameStates, Zenon DEF CallOK
  <1> QED
    BY <1>1, <1>6, OneCall, Zenon

\* The call gives up; the node may still serve the connection.
LEMMA TimeoutCallOK ==
  ASSUME CallsOK, NEW c \in TCalls, TimeoutCall(c)
  PROVE  CallsOK'
  <1> DEFINE r == [tcalls[c] EXCEPT !.client = "done"]
  <1>1. /\ Set(c, r) /\ UNCHANGED <<tconf, tclock>>
        /\ tcalls[c] \in CallStates(c) /\ CallOK(c)
    BY Zenon DEF TimeoutCall, CallsOK, CallOK
  <1>2. tcalls'[c] = r
    BY <1>1, Zenon DEF CallsOK, Set
  <1>3. /\ r \in CallStates(c) /\ r.client = "done" /\ r.result = tcalls[c].result
        /\ r.conn = tcalls[c].conn /\ r.runs = tcalls[c].runs
        /\ r.reply = tcalls[c].reply /\ r.fresh = tcalls[c].fresh
    BY <1>1, Zenon DEF CallStates
  <1>4. CallOK(c)'
    BY <1>1, <1>2, <1>3, SameStates, Zenon DEF CallOK
  <1> QED
    BY <1>1, <1>4, OneCall, Zenon

\* A frame that is cut keeps its value.
LEMMA CutFrameOK ==
  ASSUME NEW values, NEW f \in Frames(values)
  PROVE  [f EXCEPT !.cut = TRUE] \in Frames(values)
  BY Zenon DEF Frames

\* The connection breaks within the request or within the reply.
LEMMA CutConnectionOK ==
  ASSUME CallsOK, NEW c \in TCalls, CutConnection(c)
  PROVE  CallsOK'
  <1>1. /\ UNCHANGED <<tconf, tclock>>
        /\ tcalls[c] \in CallStates(c) /\ CallOK(c)
    BY Zenon DEF CutConnection, CallsOK, CallOK
  <1>2. CASE /\ tcalls[c].frame # TNone
             /\ Set(c, [tcalls[c] EXCEPT !.frame.cut = TRUE])
    <2> DEFINE f == [tcalls[c].frame EXCEPT !.cut = TRUE]
               r == [tcalls[c] EXCEPT !.frame = f]
    <2>1. Set(c, r)
      BY <1>2, Zenon
    <2>2. f \in Frames(RequestValues(c))
      BY <1>1, <1>2, CutFrameOK, Zenon DEF CallStates
    <2>3. tcalls'[c] = r
      BY <2>1, Zenon DEF CallsOK, Set
    <2> HIDE DEF f
    <2>4. /\ r \in CallStates(c) /\ r.client = tcalls[c].client
          /\ r.result = tcalls[c].result
          /\ r.conn = tcalls[c].conn /\ r.runs = tcalls[c].runs
          /\ r.reply = tcalls[c].reply /\ r.fresh = tcalls[c].fresh
      BY <1>1, <2>2, Zenon DEF CallStates
    <2>5. CallOK(c)'
      BY <1>1, <2>3, <2>4, SameStates, Zenon DEF CallOK
    <2> QED
      BY <1>1, <2>1, <2>5, OneCall, Zenon
  <1>3. CASE /\ tcalls[c].reply # TNone
             /\ Set(c, [tcalls[c] EXCEPT !.reply.cut = TRUE])
    <2> DEFINE f == [tcalls[c].reply EXCEPT !.cut = TRUE]
               r == [tcalls[c] EXCEPT !.reply = f]
    <2>1. Set(c, r)
      BY <1>3, Zenon
    <2>2. f \in Frames(ResponseValues(c))
      BY <1>1, <1>3, CutFrameOK, Zenon DEF CallStates
    <2>3. tcalls'[c] = r
      BY <2>1, Zenon DEF CallsOK, Set
    <2> HIDE DEF f
    <2>4. /\ r \in CallStates(c) /\ r.client = tcalls[c].client
          /\ r.result = tcalls[c].result
          /\ r.conn = tcalls[c].conn /\ r.runs = tcalls[c].runs
          /\ r.fresh = tcalls[c].fresh
      BY <1>1, <2>2, Zenon DEF CallStates
    <2>5. CallOK(c)'
      BY <1>1, <1>3, <2>3, <2>4, SameStates, Zenon DEF CallOK
    <2> QED
      BY <1>1, <2>1, <2>5, OneCall, Zenon
  <1> QED
    BY <1>2, <1>3, Zenon DEF CutConnection

\* A step that leaves the calls and the deployment alone.
LEMMA SameCalls ==
  ASSUME CallsOK, UNCHANGED <<tconf, tcalls>>, tclock' \in [{"c", "s"} -> Nat]
  PROVE  CallsOK'
  <1>1. ASSUME NEW c \in TCalls
        PROVE  CallOK(c)'
    BY SameStates, Zenon DEF CallsOK, CallOK
  <1> QED
    BY <1>1, Zenon DEF CallsOK

\* Every step of the calls and of the server.
LEMMA CallStepOK ==
  ASSUME CallsOK, TNext
  PROVE  CallsOK' /\ UNCHANGED <<queues, tlog>>
  <1>1. ASSUME NEW c \in TCalls, NEW size \in TRequests[c].sizes, StartCall(c, size)
        PROVE  CallsOK' /\ UNCHANGED <<queues, tlog>>
    BY <1>1, StartCallOK, Zenon DEF StartCall
  <1>2. ASSUME NEW c \in TCalls, accept_loop(c)
        PROVE  CallsOK' /\ UNCHANGED <<queues, tlog>>
    BY <1>2, AcceptOK, Zenon DEF accept_loop
  <1>3. ASSUME NEW c \in TCalls, handle_connection(c)
        PROVE  CallsOK' /\ UNCHANGED <<queues, tlog>>
    BY <1>3, HandleConnectionOK, Zenon DEF handle_connection
  <1>4. ASSUME NEW c \in TCalls, FinishCall(c)
        PROVE  CallsOK' /\ UNCHANGED <<queues, tlog>>
    BY <1>4, FinishCallOK, Zenon DEF FinishCall
  <1>5. ASSUME NEW c \in TCalls, TimeoutCall(c)
        PROVE  CallsOK' /\ UNCHANGED <<queues, tlog>>
    BY <1>5, TimeoutCallOK, Zenon DEF TimeoutCall
  <1>6. ASSUME NEW c \in TCalls, CutConnection(c)
        PROVE  CallsOK' /\ UNCHANGED <<queues, tlog>>
    BY <1>6, CutConnectionOK, Zenon DEF CutConnection
  <1>7. CASE accept_loop_ends
    BY <1>7, AcceptEndsOK, Zenon DEF accept_loop_ends
  <1>8. CASE shutdown
    BY <1>8, SameCalls, Zenon DEF shutdown, CallsOK
  <1>9. CASE bind
    BY <1>9, SameCalls, Zenon DEF bind, CallsOK
  <1>10. ASSUME NEW side \in {"c", "s"}, TTick(side)
         PROVE  CallsOK' /\ UNCHANGED <<queues, tlog>>
    <2>1. tclock' \in [{"c", "s"} -> Nat]
      BY <1>10 DEF TTick, CallsOK
    <2> QED
      BY <1>10, <2>1, SameCalls, Zenon DEF TTick
  <1> QED
    BY <1>1, <1>2, <1>3, <1>4, <1>5, <1>6, <1>7, <1>8, <1>9, <1>10, Zenon DEF TNext

---------------------------------------------------------------------------
(* The in-memory queues.                                                   *)

\* One more payload at the end of the queue is one more at the end of all that
\* was sent.
LEMMA ConcatAppend ==
  \A p \in {1, 2}, s, t \in Payloads : s \o Append(t, p) = Append(s \o t, p)
  BY DEF Payloads

\* The queue of one id and the traffic of that id.
QueueOK(q, log) ==
  IF q = TNone THEN log.sent = <<>> /\ log.got = <<>> ELSE log.got \o q = log.sent

\* A step on the queue of one id keeps QueuesOK if it keeps it for that id.
LEMMA OneQueue ==
  ASSUME QueuesOK, NEW id \in TIds, NEW q \in Payloads \cup {TNone},
         NEW log \in [sent : Payloads, got : Payloads], QueueOK(q, log),
         queues' = [queues EXCEPT ![id] = q], tlog' = [tlog EXCEPT ![id] = log]
  PROVE  QueuesOK'
  <1>1. /\ queues' \in [TIds -> Payloads \cup {TNone}]
        /\ tlog' \in [TIds -> [sent : Payloads, got : Payloads]]
    BY Zenon DEF QueuesOK
  <1>2. ASSUME NEW i \in TIds
        PROVE  QueueOK(queues'[i], tlog'[i])
    <2>1. CASE i = id
      <3>1. queues'[i] = q /\ tlog'[i] = log
        BY <2>1, Zenon DEF QueuesOK
      <3> QED
        BY <3>1, Zenon
    <2>2. CASE i # id
      <3>1. queues'[i] = queues[i] /\ tlog'[i] = tlog[i]
        BY <2>2, Zenon DEF QueuesOK
      <3> QED
        BY <3>1, Zenon DEF QueuesOK, QueueOK
    <2> QED
      BY <2>1, <2>2, Zenon
  <1> QED
    BY <1>1, <1>2, Zenon DEF QueuesOK, QueueOK

\* Registering, draining and sending to one queue.
LEMMA QueueStepOK ==
  ASSUME QueuesOK, TQueueNext
  PROVE  QueuesOK' /\ UNCHANGED <<tconf, tcalls, tclock>>
  <1>1. ASSUME NEW id \in TIds
        PROVE  /\ queues[id] \in Payloads \cup {TNone} /\ QueueOK(queues[id], tlog[id])
               /\ tlog[id] \in [sent : Payloads, got : Payloads]
               /\ tlog[id].sent \in Payloads /\ tlog[id].got \in Payloads
               /\ tlog = [tlog EXCEPT ![id] = tlog[id]]
    BY Zenon DEF QueuesOK, QueueOK
  <1>2. /\ <<>> \in Payloads /\ TNone \notin Payloads
        /\ \A s \in Payloads : s \o <<>> = s
        /\ \A s, t \in Payloads : s \o t \in Payloads
    BY TAssumption, ConcatEmptySeq, ConcatProperties DEF Payloads
  <1>3. ASSUME NEW id \in TIds, register(id)
        PROVE  QueuesOK' /\ UNCHANGED <<tconf, tcalls, tclock>>
    <2> DEFINE q == IF queues[id] = TNone THEN <<>> ELSE queues[id]
               log == tlog[id]
    <2>1. /\ queues' = [queues EXCEPT ![id] = q] /\ tlog' = [tlog EXCEPT ![id] = log]
          /\ UNCHANGED <<tconf, tcalls, tclock>>
      BY <1>1, <1>3, Zenon DEF register
    <2>2. q \in Payloads /\ log \in [sent : Payloads, got : Payloads]
      BY <1>1, <1>2, Zenon
    <2>3. QueueOK(q, log)
      BY <1>1, <1>2, Zenon DEF QueueOK
    <2> HIDE DEF q, log
    <2> QED
      BY <2>1, <2>2, <2>3, OneQueue, Zenon
  <1>4. ASSUME NEW id \in TIds, receive(id)
        PROVE  QueuesOK' /\ UNCHANGED <<tconf, tcalls, tclock>>
    <2> DEFINE got == tlog[id].got \o queues[id]
               log == [tlog[id] EXCEPT !.got = got]
    <2>1. /\ queues' = [queues EXCEPT ![id] = <<>>] /\ tlog' = [tlog EXCEPT ![id] = log]
          /\ UNCHANGED <<tconf, tcalls, tclock>> /\ queues[id] # TNone
      BY <1>4, Zenon DEF receive
    <2>2. got \in Payloads /\ got = tlog[id].sent
      BY <1>1, <1>2, <2>1, Zenon DEF QueueOK
    <2> HIDE DEF got
    <2>3. /\ log \in [sent : Payloads, got : Payloads]
          /\ log.got = got /\ log.sent = tlog[id].sent
      BY <1>1, <2>2, Zenon
    <2> HIDE DEF log
    <2>4. QueueOK(<<>>, log)
      BY <1>2, <2>2, <2>3, Zenon DEF QueueOK
    <2> QED
      BY <1>2, <2>1, <2>3, <2>4, OneQueue, Zenon
  <1>5. ASSUME NEW id \in TIds, NEW p \in {1, 2}, send(id, p)
        PROVE  QueuesOK' /\ UNCHANGED <<tconf, tcalls, tclock>>
    <2> DEFINE q == Append(queues[id], p)
               sent == Append(tlog[id].sent, p)
               log == [tlog[id] EXCEPT !.sent = sent]
    <2>1. /\ queues' = [queues EXCEPT ![id] = q] /\ tlog' = [tlog EXCEPT ![id] = log]
          /\ UNCHANGED <<tconf, tcalls, tclock>> /\ queues[id] # TNone
      BY <1>5, Zenon DEF send
    <2>2. q \in Payloads /\ sent \in Payloads
      BY <1>1, <2>1 DEF Payloads
    <2>3. tlog[id].got \o q = sent
      <3> DEFINE t == queues[id]
                 g == tlog[id].got
      <3>1. t \in Payloads /\ g \in Payloads /\ g \o t = tlog[id].sent
        BY <1>1, <2>1, Zenon DEF QueueOK
      <3> HIDE DEF t, g
      <3>2. g \o Append(t, p) = Append(g \o t, p)
        BY <3>1, ConcatAppend, Zenon
      <3> QED
        BY <3>1, <3>2, Zenon DEF t, g
    <2> HIDE DEF q, sent
    <2>4. /\ log \in [sent : Payloads, got : Payloads]
          /\ log.got = tlog[id].got /\ log.sent = sent
      BY <1>1, <2>2, Zenon
    <2>5. q # TNone
      BY <1>2, <2>2, Zenon
    <2> HIDE DEF log
    <2>6. QueueOK(q, log)
      BY <2>3, <2>4, <2>5, Zenon DEF QueueOK
    <2> QED
      BY <2>1, <2>2, <2>4, <2>6, OneQueue, Zenon
  <1> QED
    BY <1>3, <1>4, <1>5, Zenon DEF TQueueNext

---------------------------------------------------------------------------
(* The theorem.                                                            *)

\* The invariant holds when no call has started and no id has registered.
LEMMA InitOK ==
  ASSUME TInit
  PROVE  TInv
  <1>1. ASSUME NEW c \in TCalls
        PROVE  CallOK(c)
    <2>1. tcalls[c] = IdleCall
      BY Zenon DEF TInit
    <2> QED
      BY <2>1 DEF CallOK, CallStates, IdleCall
  <1>2. CallsOK
    BY <1>1 DEF TInit, CallsOK
  <1>3. QueuesOK
    BY DEF TInit, QueuesOK, Payloads
  <1> QED
    BY <1>2, <1>3, Zenon DEF TInv

\* TInv is an inductive invariant of the transports: one call runs at most once
\* because the node runs it exactly when it closes the connection, and what it
\* received and what waits in a queue make up what was sent.
THEOREM TransportsInvariant == TSpec => []TInv
  <1>1. TInit => TInv
    BY InitOK, Zenon
  <1>2. TInv /\ [TNext \/ TQueueNext]_tvars => TInv'
    <2> SUFFICES ASSUME TInv, [TNext \/ TQueueNext]_tvars
                 PROVE  TInv'
      BY Zenon
    <2>1. CASE TNext
      BY <2>1, CallStepOK, Zenon DEF TInv, QueuesOK
    <2>2. CASE TQueueNext
      <3>1. QueuesOK' /\ UNCHANGED <<tconf, tcalls, tclock>>
        BY <2>2, QueueStepOK, Zenon DEF TInv
      <3>2. CallsOK'
        BY <3>1, SameCalls, Zenon DEF TInv, CallsOK
      <3> QED
        BY <3>1, <3>2, Zenon DEF TInv
    <2>3. CASE UNCHANGED tvars
      <3>1. CallsOK'
        BY <2>3, SameCalls, Zenon DEF TInv, CallsOK, tvars
      <3> QED
        BY <2>3, <3>1, Zenon DEF TInv, QueuesOK, tvars
    <2> QED
      BY <2>1, <2>2, <2>3, Zenon
  <1> QED
    BY <1>1, <1>2, PTL DEF TSpec

\* For any calls, registries, certificates, clocks and tolerances, however many
\* connections break and servers are bound again: a call that returns Ok has
\* the node's answer to its own request, a request runs at most once and only
\* for a client the node knows, and queues deliver in order, once.
THEOREM TransportsDeliverAsSent == TSpec => []DeliveredAsSent
  <1>1. TInv => DeliveredAsSent
    <2> SUFFICES ASSUME TInv
                 PROVE  DeliveredAsSent
      BY Zenon
    <2>1. ASSUME NEW c \in TCalls
          PROVE  /\ tcalls[c] \in CallStates(c) /\ CallOK(c)
                 /\ tcalls[c].runs \in {0, 1} /\ tcalls[c].result \in {TNone, NodeAnswer(c)}
      BY Zenon DEF TInv, CallsOK, CallOK, CallStates
    <2>2. \A i \in TIds : queues[i] # TNone => tlog[i].got \o queues[i] = tlog[i].sent
      BY Zenon DEF TInv, QueuesOK
    <2>3. ASSUME NEW c \in TCalls
          PROVE  /\ tcalls[c].result # TNone =>
                      /\ tcalls[c].runs = 1
                      /\ tcalls[c].result = <<TRequests[c].op, TRequests[c].body>>
                      /\ tconf.kind = "auth" => tconf.server \in tconf.clientKnows
                 /\ tcalls[c].runs <= 1
                 /\ tcalls[c].runs = 1 =>
                      /\ tcalls[c].fresh
                      /\ tconf.kind = "auth" => tconf.client \in tconf.serverKnows
                      /\ tconf.kind = "mtls" => tconf.clientCa = tconf.serverCa
      BY <2>1 DEF CallOK, NodeAnswer
    <2> QED
      BY <2>2, <2>3, Zenon DEF DeliveredAsSent
  <1> QED
    BY <1>1, TransportsInvariant, PTL

---------------------------------------------------------------------------
(* HttpServer: reading a request.                                          *)

HeadLen(r) == Len(r.header) + 2

\* Where the bytes of a request lie on the wire.
LEMMA WireLayout ==
  ASSUME NEW r \in HRequests
  PROVE  /\ HeadLen(r) \in Nat /\ HeadLen(r) >= 2
         /\ Len(r.body) \in Nat /\ Len(r.body) > 0
         /\ Wire(r) \in Seq(Octet) /\ Len(Wire(r)) = HeadLen(r) + Len(r.body)
         /\ \A i \in 1..(HeadLen(r) - 2) :
              Wire(r)[i] \notin {"e1", "e2", "m1", "m2"}
         /\ Wire(r)[HeadLen(r) - 1] = "e1" /\ Wire(r)[HeadLen(r)] = "e2"
         /\ \A j \in 1..Len(r.body) : Wire(r)[HeadLen(r) + j] = r.body[j]
<1> DEFINE h == r.header
           b == r.body
           e == <<"e1", "e2">>
<1>1. /\ h \in Seq(Octet) /\ b \in Seq(Octet) /\ b # <<>>
      /\ \A i \in 1..Len(h) : h[i] \notin {"e1", "e2", "m1", "m2"}
  BY HAssumption
<1>2. e \in Seq(Octet) /\ Len(e) = 2 /\ e[1] = "e1" /\ e[2] = "e2"
  BY DEF Octet
<1> HIDE DEF h, b, e
<1>3. /\ h \o e \in Seq(Octet) /\ Len(h \o e) = Len(h) + 2
      /\ \A i \in 1..Len(h) : (h \o e)[i] = h[i]
      /\ (h \o e)[Len(h) + 1] = "e1" /\ (h \o e)[Len(h) + 2] = "e2"
  <2>1. /\ h \o e \in Seq(Octet) /\ Len(h \o e) = Len(h) + Len(e)
        /\ \A i \in 1..Len(h) : (h \o e)[i] = h[i]
        /\ \A i \in 1..Len(e) : (h \o e)[Len(h) + i] = e[i]
    <3>1. h \in Seq(Octet) /\ e \in Seq(Octet)
      BY <1>1, <1>2, Zenon
    <3> QED BY <3>1
  <2> QED BY <1>2, <2>1, 1 \in 1..2, 2 \in 1..2, Zenon
<1> DEFINE he == h \o e
<1> HIDE DEF he
<1>4. he \in Seq(Octet) /\ Len(he) \in Nat /\ Len(b) \in Nat /\ Len(b) > 0
  BY <1>1, <1>3 DEF he
<1>5. /\ he \o b \in Seq(Octet) /\ Len(he \o b) = Len(he) + Len(b)
      /\ \A i \in 1..Len(he) : (he \o b)[i] = he[i]
      /\ \A j \in 1..Len(b) : (he \o b)[Len(he) + j] = b[j]
  BY <1>1, <1>4
<1>6. Wire(r) = he \o b /\ HeadLen(r) = Len(h) + 2 /\ Len(he) = HeadLen(r)
      /\ Len(h) \in Nat
  BY <1>1, <1>3 DEF Wire, HeadLen, he, h, b, e
<1>7. /\ \A i \in 1..(HeadLen(r) - 2) : i \in 1..Len(h) /\ i \in 1..Len(he)
      /\ HeadLen(r) - 1 = Len(h) + 1 /\ HeadLen(r) - 1 \in 1..Len(he)
      /\ HeadLen(r) = Len(h) + 2 /\ HeadLen(r) \in 1..Len(he)
  BY <1>6
<1>8. /\ \A i \in 1..(HeadLen(r) - 2) : Wire(r)[i] = h[i]
      /\ Wire(r)[HeadLen(r) - 1] = "e1" /\ Wire(r)[HeadLen(r)] = "e2"
  BY <1>3, <1>5, <1>6, <1>7 DEF he
<1>9. \A i \in 1..(HeadLen(r) - 2) : Wire(r)[i] \notin {"e1", "e2", "m1", "m2"}
  BY <1>1, <1>7, <1>8, Zenon
<1>10. HeadLen(r) \in Nat /\ HeadLen(r) >= 2
  BY <1>6
<1>11. /\ Wire(r) \in Seq(Octet) /\ Len(Wire(r)) = HeadLen(r) + Len(b)
       /\ \A j \in 1..Len(b) : Wire(r)[HeadLen(r) + j] = b[j]
  BY <1>5, <1>6, Zenon
<1> QED BY <1>4, <1>8, <1>9, <1>10, <1>11, Zenon DEF b

\* The first p bytes of a request.
LEMMA ReadSoFar ==
  ASSUME NEW r \in HRequests, NEW p \in 0..Len(Wire(r))
  PROVE  LET data == SubSeq(Wire(r), 1, p)
         IN  /\ data \in Seq(Octet) /\ Len(data) = p /\ DOMAIN data = 1..p
             /\ \A i \in 1..p : data[i] = Wire(r)[i]
<1>1. Wire(r) \in Seq(Octet) /\ Len(Wire(r)) \in Nat
  BY WireLayout
<1>2. p \in Nat /\ p <= Len(Wire(r))
  BY <1>1
<1>3. SubSeq(Wire(r), 1, p) \in Seq(Octet) /\ Len(SubSeq(Wire(r), 1, p)) = p
  BY <1>1, <1>2
<1>4. \A i \in 1..p : SubSeq(Wire(r), 1, p)[i] = Wire(r)[i]
  BY <1>1, <1>2
<1> QED BY <1>3, <1>4

\* A whole request is UTF-8, and so is every prefix of one without multi-byte
\* characters.
LEMMA ReadIsUtf8 ==
  ASSUME NEW r \in HRequests, NEW p \in 0..Len(Wire(r)),
         p = Len(Wire(r)) \/ "m1" \notin Range(r.body)
  PROVE  Utf8(SubSeq(Wire(r), 1, p))
<1> DEFINE data == SubSeq(Wire(r), 1, p)
           h == HeadLen(r)
<1>1. /\ Len(data) = p /\ DOMAIN data = 1..p
      /\ \A i \in 1..p : data[i] = Wire(r)[i]
  BY ReadSoFar, Zenon
<1> HIDE DEF data
<1>2. /\ h \in Nat /\ h >= 2 /\ Len(r.body) \in Nat /\ Len(Wire(r)) = h + Len(r.body)
      /\ \A i \in 1..(h - 2) : Wire(r)[i] \notin {"m1", "m2"}
      /\ Wire(r)[h - 1] \notin {"m1", "m2"} /\ Wire(r)[h] \notin {"m1", "m2"}
      /\ \A j \in 1..Len(r.body) : Wire(r)[h + j] = r.body[j]
  BY WireLayout, Zenon
<1>3. /\ r.body \in Seq(Octet)
      /\ \A j \in 1..Len(r.body) :
           /\ r.body[j] = "m1" => j < Len(r.body) /\ r.body[j + 1] = "m2"
           /\ r.body[j] = "m2" => j > 1 /\ r.body[j - 1] = "m1"
  <2>1. r.body \in Seq(Octet) /\ Utf8(r.body)
    BY HAssumption, Zenon
  <2>2. DOMAIN r.body = 1..Len(r.body)
    BY <2>1
  <2> QED BY <2>1, <2>2, Zenon DEF Utf8
<1> HIDE DEF h
<1>4. ASSUME NEW i \in 1..p, data[i] \in {"m1", "m2"}
      PROVE  i > h /\ i - h \in 1..Len(r.body) /\ data[i] = r.body[i - h]
  <2>1. i \in Nat /\ i >= 1 /\ i <= h + Len(r.body) /\ p \in Nat
    BY <1>2
  <2>2. i \notin 1..(h - 2) /\ i # h - 1 /\ i # h
    BY <1>1, <1>2, <1>4, Zenon
  <2>3. i > h /\ i - h \in 1..Len(r.body)
    BY <1>2, <2>1, <2>2
  <2>4. h + (i - h) = i
    BY <1>2, <2>1
  <2> QED BY <1>1, <1>2, <2>3, <2>4, Zenon
<1>5. CASE p = Len(Wire(r))
  <2>1. ASSUME NEW i \in 1..p, data[i] = "m1"
        PROVE  i < p /\ data[i + 1] = "m2"
    <3>1. i - h \in 1..Len(r.body) /\ r.body[i - h] = "m1"
      BY <1>4, <2>1, Zenon
    <3>2. i - h < Len(r.body) /\ r.body[(i - h) + 1] = "m2"
      BY <1>3, <3>1, Zenon
    <3>3. /\ i < p /\ i + 1 \in 1..p /\ (i - h) + 1 \in 1..Len(r.body)
          /\ h + ((i - h) + 1) = i + 1
      <4>1. i \in Nat /\ i >= 1 /\ p = h + Len(r.body) /\ i - h < Len(r.body)
        BY <1>2, <1>5, <3>2
      <4>2. i - h >= 1
        BY <3>1
      <4> QED BY <1>2, <4>1, <4>2
    <3> QED BY <1>1, <1>2, <3>2, <3>3, Zenon
  <2>2. ASSUME NEW i \in 1..p, data[i] = "m2"
        PROVE  i > 1 /\ data[i - 1] = "m1"
    <3>1. i - h \in 1..Len(r.body) /\ r.body[i - h] = "m2"
      BY <1>4, <2>2, Zenon
    <3>2. i - h > 1 /\ r.body[(i - h) - 1] = "m1"
      BY <1>3, <3>1, Zenon
    <3>3. /\ i > 1 /\ i - 1 \in 1..p /\ (i - h) - 1 \in 1..Len(r.body)
          /\ h + ((i - h) - 1) = i - 1
      BY <1>2, <1>5, <3>1, <3>2
    <3> QED BY <1>1, <1>2, <3>2, <3>3, Zenon
  <2> QED BY <1>1, <2>1, <2>2, Zenon DEF Utf8, data
<1>6. CASE "m1" \notin Range(r.body)
  <2>1. \A j \in 1..Len(r.body) : r.body[j] # "m1"
    BY <1>3, <1>6 DEF Range
  <2>2. \A j \in 1..Len(r.body) : r.body[j] # "m2"
    BY <1>3, <2>1
  <2>3. \A i \in 1..p : data[i] \notin {"m1", "m2"}
    BY <1>4, <2>1, <2>2, Zenon
  <2> QED BY <1>1, <2>3, Zenon DEF Utf8, data
<1> QED BY <1>5, <1>6, Zenon

\* header_end finds the blank line once it was read, and nothing before.
LEMMA HeaderEnd ==
  ASSUME NEW r \in HRequests, NEW p \in 0..Len(Wire(r))
  PROVE  LET data == SubSeq(Wire(r), 1, p)
         IN  /\ header_end(data) \in {0, HeadLen(r)}
             /\ header_end(data) = HeadLen(r) <=> p >= HeadLen(r) /\ Utf8(data)
<1> DEFINE data == SubSeq(Wire(r), 1, p)
           h == HeadLen(r)
           at == {i \in 2..Len(data) : data[i - 1] = "e1" /\ data[i] = "e2"}
<1>1. Len(data) = p /\ \A i \in 1..p : data[i] = Wire(r)[i]
  BY ReadSoFar, Zenon
<1>2. /\ h \in Nat /\ h >= 2 /\ p \in Nat
      /\ \A i \in 1..(h - 2) : Wire(r)[i] \notin {"e1", "e2"}
      /\ Wire(r)[h - 1] = "e1" /\ Wire(r)[h] = "e2"
  BY WireLayout
<1>3. header_end(data) = IF ~Utf8(data) THEN 0
                         ELSE IF at = {} THEN 0
                              ELSE CHOOSE i \in at : \A j \in at : i <= j
  BY Zenon DEF header_end
<1> HIDE DEF data, h
<1>4. ASSUME NEW i \in at PROVE i >= h /\ i \in Nat /\ p >= h
  <2>1. i \in 2..p /\ i - 1 \in 1..p /\ i \in 1..p /\ i \in Nat
    BY <1>1, <1>2
  <2>2. Wire(r)[i - 1] = "e1"
    BY <1>1, <2>1, Zenon
  <2>3. i - 1 \notin 1..(h - 2)
    BY <1>2, <2>2, Zenon
  <2> QED BY <1>2, <2>1, <2>3
<1>5. p >= h => h \in at
  BY <1>1, <1>2
<1> HIDE DEF at
<1>6. CASE p >= h /\ Utf8(data)
  <2>1. h \in at /\ \A j \in at : h <= j /\ j \in Nat
    BY <1>2, <1>4, <1>5, <1>6, Zenon
  <2>2. \A i \in at : (\A j \in at : i <= j) => i = h
    BY <1>2, <2>1
  <2>3. (CHOOSE i \in at : \A j \in at : i <= j) = h
    BY <2>1, <2>2, Zenon
  <2>4. header_end(data) = h
    BY <1>3, <1>6, <2>1, <2>3, Zenon
  <2> QED BY <1>6, <2>4, Zenon DEF data, h
<1>7. CASE ~(p >= h /\ Utf8(data))
  <2>1. ~Utf8(data) \/ at = {}
    BY <1>4, <1>7, Zenon
  <2>2. header_end(data) = 0 /\ h # 0
    BY <1>2, <1>3, <2>1
  <2> QED BY <1>7, <2>2, Zenon DEF data, h
<1> QED BY <1>6, <1>7, Zenon

\* The part of the body among the first p bytes: what the header buffer holds
\* of it, what another chunk makes of it, and when it is the whole body.
BodyRead(r, p) == SubSeq(Wire(r), HeadLen(r) + 1, p)

\* A slice of a sequence.
LEMMA Slice ==
  ASSUME NEW X, NEW s \in Seq(X), NEW m \in Nat, NEW n \in Nat, m <= n, n <= Len(s)
  PROVE  /\ SubSeq(s, m + 1, n) \in Seq(X)
         /\ Len(SubSeq(s, m + 1, n)) = n - m
         /\ \A i \in 1..(n - m) : SubSeq(s, m + 1, n)[i] = s[m + i]
<1> DEFINE k == m + 1
<1>1. k \in Nat /\ 1 <= k /\ k <= n + 1 /\ n - m = n - k + 1
      /\ \A i \in 1..(n - m) : m + i = k + i - 1
  OBVIOUS
<1> HIDE DEF k
<1>2. SubSeq(s, k, n) \in Seq(X)
  BY <1>1
<1>3. Len(SubSeq(s, k, n)) = n - k + 1
  BY <1>1
<1>4. \A i \in 1..(n - k + 1) : SubSeq(s, k, n)[i] = s[k + i - 1]
  BY <1>1
<1> QED BY <1>1, <1>2, <1>3, <1>4, Zenon DEF k

\* The part of the body among the first p bytes of a request, and how one
\* more read extends it (read_http_body).
LEMMA BodyReadParts ==
  ASSUME NEW r \in HRequests, NEW p \in 0..Len(Wire(r)), HeadLen(r) <= p
  PROVE  /\ BodyRead(r, p) \in Seq(Octet)
         /\ Len(BodyRead(r, p)) = p - HeadLen(r)
         /\ SubSeq(SubSeq(Wire(r), 1, p), HeadLen(r) + 1, p) = BodyRead(r, p)
         /\ p = Len(Wire(r)) => BodyRead(r, p) = r.body
         /\ \A n \in 0..(Len(Wire(r)) - p) :
              BodyRead(r, p) \o SubSeq(Wire(r), p + 1, p + n) = BodyRead(r, p + n)
<1> DEFINE h == HeadLen(r)
           w == Wire(r)
           data == SubSeq(w, 1, p)
<1>1. /\ h \in Nat /\ w \in Seq(Octet) /\ Len(w) = h + Len(r.body)
      /\ Len(r.body) \in Nat /\ Len(w) \in Nat
      /\ \A j \in 1..Len(r.body) : w[h + j] = r.body[j]
      /\ p \in Nat /\ h <= p /\ p <= Len(w)
  BY WireLayout
<1>2. data \in Seq(Octet) /\ Len(data) = p /\ \A i \in 1..p : data[i] = w[i]
  BY ReadSoFar, Zenon
<1>3. r.body \in Seq(Octet)
  BY HAssumption, Zenon
<1> HIDE DEF h, w, data
<1>4. /\ SubSeq(w, h + 1, p) \in Seq(Octet) /\ Len(SubSeq(w, h + 1, p)) = p - h
      /\ \A i \in 1..(p - h) : SubSeq(w, h + 1, p)[i] = w[h + i]
  <2>1. w \in Seq(Octet) /\ h \in Nat /\ p \in Nat /\ h <= p /\ p <= Len(w)
    BY <1>1, Zenon
  <2> QED BY ONLY <2>1, Slice, Zenon
<1>5. SubSeq(data, h + 1, p) = SubSeq(w, h + 1, p)
  <2>1. /\ SubSeq(data, h + 1, p) \in Seq(Octet)
        /\ Len(SubSeq(data, h + 1, p)) = p - h
        /\ \A i \in 1..(p - h) : SubSeq(data, h + 1, p)[i] = data[h + i]
    BY <1>1, <1>2, Slice
  <2>2. \A i \in 1..(p - h) : h + i \in 1..p
    BY <1>1
  <2>3. \A i \in 1..Len(SubSeq(w, h + 1, p)) :
          SubSeq(data, h + 1, p)[i] = SubSeq(w, h + 1, p)[i]
    BY <1>2, <1>4, <2>1, <2>2, Zenon
  <2> QED BY <1>4, <2>1, <2>3, SeqEqual, Zenon
<1>6. p = Len(w) => SubSeq(w, h + 1, p) = r.body
  <2> SUFFICES ASSUME p = Len(w) PROVE SubSeq(w, h + 1, p) = r.body
    BY Zenon
  <2>1. p - h = Len(r.body)
    BY <1>1
  <2>2. \A i \in 1..Len(r.body) : SubSeq(w, h + 1, p)[i] = r.body[i]
    BY <1>1, <1>4, <2>1, Zenon
  <2> QED BY <1>3, <1>4, <2>1, <2>2, SeqEqual, Zenon
<1>7. ASSUME NEW n \in 0..(Len(w) - p)
      PROVE  SubSeq(w, h + 1, p) \o SubSeq(w, p + 1, p + n) = SubSeq(w, h + 1, p + n)
  <2> DEFINE m == h + 1
             q == p + n
  <2>1. m \in 1..(Len(w) + 1) /\ p \in (m - 1)..Len(w) /\ q \in p..Len(w)
    BY <1>1
  <2> HIDE DEF m, q
  <2>2. SubSeq(w, m, p) \o SubSeq(w, p + 1, q) = SubSeq(w, m, q)
    BY <1>1, <2>1, ConcatAdjacentSubSeq, Zenon
  <2> QED BY <2>2, Zenon DEF m, q
<1> QED BY <1>4, <1>5, <1>6, <1>7, Zenon DEF BodyRead, h, w, data

\* A request with its Content-Length whose header fits the buffer and no
\* character of which the end of the buffer can cut.
Proper(r) ==
  /\ r.length = Len(r.body)
  /\ HeadLen(r) <= BUF
  /\ Len(Wire(r)) <= BUF \/ "m1" \notin Range(r.body)

\* The inductive invariant: while the handler still reads, bytes are to come,
\* and hbody is the part of the body among the bytes read.
HInv ==
  /\ hreq \in HRequests
  /\ hsent \in 0..Len(Wire(hreq)) /\ hpos \in 0..hsent
  /\ hphase \in {"head", "body", "parse", "answered"}
  /\ Proper(hreq) /\ hsent = Len(Wire(hreq)) =>
       /\ hphase \in {"head", "body"} => hpos < hsent
       /\ hphase = "body" =>
            HeadLen(hreq) <= hpos /\ hbody = BodyRead(hreq, hpos)
       /\ hphase \in {"parse", "answered"} => hbody = hreq.body
       /\ hphase = "answered" => hstatus \in {200, 500}

\* Reading on in a proper request that was sent whole: after the read to
\* position q the handler has the body, or waits for bytes that will come.
LEMMA BodyPhaseReads ==
  ASSUME NEW q, HInv, Proper(hreq), hsent = Len(Wire(hreq)),
         q \in 0..hsent, HeadLen(hreq) <= q, hpos' = q,
         BodyPhase(BodyRead(hreq, q), hreq.length),
         UNCHANGED <<hreq, hsent>>
  PROVE  HInv'
<1> DEFINE w == Wire(hreq)
<1>1. /\ hreq \in HRequests /\ q \in 0..Len(w) /\ q \in Nat
      /\ HeadLen(hreq) \in Nat /\ Len(hreq.body) \in Nat
      /\ Len(w) = HeadLen(hreq) + Len(hreq.body)
  BY WireLayout DEF HInv
<1>2. /\ Len(BodyRead(hreq, q)) = q - HeadLen(hreq)
      /\ q = Len(w) => BodyRead(hreq, q) = hreq.body
  BY <1>1, BodyReadParts, Zenon
<1>3. more_body(BodyRead(hreq, q), hreq.length) <=> q < Len(w)
  BY <1>1, <1>2 DEF more_body, Proper
<1>4. /\ hbody' = BodyRead(hreq, q)
      /\ hphase' = IF q < Len(w) THEN "body" ELSE "parse"
  BY <1>3, Zenon DEF BodyPhase
<1>5. ~(q < Len(w)) => q = Len(w)
  BY <1>1
<1> HIDE DEF w
<1>6. CASE q < Len(w)
  BY <1>1, <1>4, <1>6 DEF HInv, w
<1>7. CASE ~(q < Len(w))
  BY <1>1, <1>2, <1>4, <1>5, <1>7 DEF HInv, w
<1> QED BY <1>6, <1>7, Zenon

\* Every read, end of file and answer keeps the invariant.
LEMMA HStep ==
  ASSUME HInv, [HNext]_hvars
  PROVE  HInv'
<1> DEFINE w == Wire(hreq)
           H == HeadLen(hreq)
           whole == Proper(hreq) /\ hsent = Len(w)
<1>0. /\ hreq \in HRequests /\ H \in Nat /\ H >= 2 /\ Len(w) \in Nat
      /\ Len(w) >= H /\ w \in Seq(Octet)
      /\ hsent \in Nat /\ hsent <= Len(w) /\ hpos \in Nat /\ hpos <= hsent
      /\ BUF \in Nat /\ CHUNK \in Nat
  BY WireLayout, HAssumption DEF HInv
<1>1. CASE UNCHANGED hvars
  BY <1>1 DEF HInv, hvars
<1>2. ASSUME NEW n \in 1..BUF, ReadHead(n) PROVE HInv'
  <2> DEFINE q == hpos + n
             data == SubSeq(w, 1, q)
  <2>1. /\ hphase = "head" /\ q \in 0..hsent /\ q \in 0..Len(w) /\ q <= BUF
        /\ q \in Nat /\ hpos' = q /\ UNCHANGED <<hreq, hsent>>
    BY <1>0, <1>2 DEF ReadHead
  <2>2. Len(data) = q /\ data \in Seq(Octet)
    BY <1>0, <2>1, ReadSoFar, Zenon
  <2>3. /\ header_end(data) \in {0, H}
        /\ header_end(data) = H <=> q >= H /\ Utf8(data)
    BY <1>0, <2>1, HeaderEnd, Zenon
  <2>4. \/ /\ header_end(data) > 0
           /\ BodyPhase(SubSeq(data, header_end(data) + 1, q), hreq.length)
        \/ header_end(data) = 0 /\ q >= BUF /\ Answer(500)
        \/ header_end(data) = 0 /\ q < BUF /\ UNCHANGED hphase
    BY <1>2, <2>2 DEF ReadHead
  <2>5. q = Len(w) => header_end(data) = H
    BY <1>0, <2>1, <2>3, ReadIsUtf8, Zenon
  <2>6. whole /\ header_end(data) = 0 => q < BUF
    <3> SUFFICES ASSUME whole, header_end(data) = 0, q >= BUF PROVE FALSE
      BY <1>0, <2>1
    <3>1. q >= H /\ ~Utf8(data)
      BY <1>0, <2>1, <2>3 DEF Proper
    <3>2. "m1" \in Range(hreq.body) /\ q # Len(w)
      BY <1>0, <2>1, <3>1, ReadIsUtf8, Zenon
    <3> QED BY <1>0, <2>1, <3>2 DEF Proper
  <2> HIDE DEF data, w, H, q
  <2>7. CASE ~whole
    <3>1. hphase' \in {"head", "body", "parse", "answered"}
      BY <2>1, <2>4, Zenon DEF BodyPhase, Answer
    <3> QED BY <1>0, <2>1, <2>7, <3>1 DEF HInv, w
  <2>8. CASE whole /\ header_end(data) # 0
    <3>1. header_end(data) = H /\ H <= q
      BY <1>0, <2>1, <2>3, <2>8, Zenon
    <3>2. SubSeq(data, header_end(data) + 1, q) = BodyRead(hreq, q)
      BY <1>0, <2>1, <3>1, BodyReadParts, Zenon DEF data, w, H
    <3>3. BodyPhase(BodyRead(hreq, q), hreq.length)
      BY <2>4, <2>8, <3>2, Zenon
    <3> QED BY <2>1, <2>8, <3>1, <3>3, BodyPhaseReads, Zenon DEF w, H
  <2>9. CASE whole /\ header_end(data) = 0
    <3>1. hphase' = "head"
      BY <1>0, <2>1, <2>4, <2>6, <2>9
    <3>2. q # Len(w) /\ q < Len(w)
      BY <1>0, <2>1, <2>5, <2>9
    <3> QED BY <1>0, <2>1, <2>9, <3>1, <3>2 DEF HInv, w
  <2> QED BY <2>7, <2>8, <2>9, Zenon
<1>3. ASSUME NEW n \in 1..CHUNK, ReadBody(n) PROVE HInv'
  <2> DEFINE q == hpos + n
  <2>1. /\ hphase = "body" /\ q \in 0..hsent /\ q \in 0..Len(w) /\ q \in Nat
        /\ n \in 0..(Len(w) - hpos)
        /\ hpos' = q /\ UNCHANGED <<hreq, hsent>>
        /\ BodyPhase(hbody \o SubSeq(w, hpos + 1, q), hreq.length)
    BY <1>0, <1>3 DEF ReadBody
  <2>2. CASE ~whole
    <3>1. hphase' \in {"body", "parse"}
      BY <2>1, Zenon DEF BodyPhase
    <3> QED BY <1>0, <2>1, <2>2, <3>1 DEF HInv
  <2>3. CASE whole
    <3>1. H <= hpos /\ hbody = BodyRead(hreq, hpos) /\ hpos \in 0..Len(w)
      BY <1>0, <2>1, <2>3, Zenon DEF HInv
    <3>2. hbody \o SubSeq(w, hpos + 1, q) = BodyRead(hreq, q)
      BY <1>0, <2>1, <3>1, BodyReadParts, Zenon
    <3>3. H <= q
      BY <1>0, <2>1, <3>1
    <3> HIDE DEF q
    <3> QED BY <2>1, <2>3, <3>2, <3>3, BodyPhaseReads, Zenon
  <2> QED BY <2>2, <2>3, Zenon
<1>4. CASE EofInHead \/ EofInBody
  <2>1. /\ hphase \in {"head", "body"} /\ hpos = hsent /\ hphase' = "parse"
        /\ UNCHANGED <<hreq, hsent, hpos>>
    BY <1>4, Zenon DEF EofInHead, EofInBody, Eof
  <2>2. ~whole
    BY <1>0, <2>1 DEF HInv
  <2> QED BY <2>1, <2>2 DEF HInv
<1>5. CASE handle_request
  <2>1. hphase = "parse" /\ hphase' = "answered" /\ UNCHANGED <<hreq, hsent, hpos, hbody>>
    BY <1>5 DEF handle_request, Answer
  <2>2. whole => hbody = hreq.body
    BY <2>1, Zenon DEF HInv
  <2>3. hreq.body # <<>>
    BY <1>0, HAssumption, Zenon
  <2>4. whole => hstatus' \in {200, 500}
    BY <1>5, <2>2, <2>3 DEF handle_request, Answer
  <2> QED BY <2>1, <2>2, <2>4 DEF HInv
<1> QED BY <1>1, <1>2, <1>3, <1>4, <1>5, Zenon DEF HNext

\* read_http_body reads every proper request whole, for every size of buffer
\* and chunk, every request and every way TCP cuts it into segments; such a
\* request is never answered with 400, and the handler never waits for bytes
\* after the last one.
THEOREM WholeRequestIsRead == HSpec => []ReadsWholeRequest
<1>1. HInit => HInv
  <2> SUFFICES ASSUME HInit PROVE HInv
    OBVIOUS
  <2>1. hreq \in HRequests /\ Len(Wire(hreq)) \in Nat /\ Len(Wire(hreq)) >= 2
    BY WireLayout DEF HInit
  <2> QED BY <2>1 DEF HInit, HInv
<1>2. HInv /\ [HNext]_hvars => HInv'
  BY HStep, Zenon
<1>3. HInv => ReadsWholeRequest
  <2> SUFFICES ASSUME HInv PROVE ReadsWholeRequest
    OBVIOUS
  <2>1. Len(Wire(hreq)) \in Nat /\ hsent \in Nat /\ hpos \in Nat
    BY WireLayout DEF HInv
  <2> QED BY <2>1 DEF HInv, ReadsWholeRequest, Proper, HeadLen
<1> QED BY <1>1, <1>2, <1>3, PTL DEF HSpec

=============================================================================
