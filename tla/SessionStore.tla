---------------------------- MODULE SessionStore ----------------------------
(***************************************************************************)
(* The session stores of crates/storage, called by concurrent threads.     *)
(*                                                                         *)
(* backend = "memory" is InMemorySessionStore: two RwLock maps; insert and *)
(* remove hold both locks, record_approval holds them one after the other. *)
(* backend = "sqlite" is SqliteSessionStore: one Mutex serialises the      *)
(* calls, every statement commits by itself, the database survives a       *)
(* crash.  A call that returns an error changes nothing and is not a step. *)
(* get, has_approved and contains only read and are not steps either.      *)
(***************************************************************************)
EXTENDS SessionState

CONSTANTS Session, Verifier, Thread, Backends

ASSUME BackendAssumption == Backends \subseteq {"memory", "sqlite"}

VARIABLES
  backend,     \* the store that was opened
  sessions,    \* SessionId -> state, Absent when the id is not in the store
  approvals,   \* the <<session, verifier>> pairs recorded
  call,        \* the call each thread is in the middle of, or Idle
  granted      \* history: approvals recorded since the session was inserted
               \* and no caller has begun to remove it

vars == <<backend, sessions, approvals, call, granted>>

Idle == [op |-> "idle"]

Calls == {Idle}
         \cup [op : {"record"}, s : Session, v : Verifier]
         \cup [op : {"remove"}, s : Session]

TypeOK ==
  /\ backend \in Backends
  /\ sessions \in [Session -> States \cup {Absent}]
  /\ approvals \in SUBSET (Session \X Verifier)
  /\ call \in [Thread -> Calls]
  /\ granted \in SUBSET (Session \X Verifier)

Init ==
  /\ backend \in Backends
  /\ sessions = [s \in Session |-> Absent]
  /\ approvals = {}
  /\ call = [t \in Thread |-> Idle]
  /\ granted = {}

Of(rows, s) == {r \in rows : r[1] = s}

\* Thread t may enter the store: it is between calls and, for SQLite, the
\* connection Mutex is free.
MayEnter(t) ==
  /\ call[t] = Idle
  /\ backend = "sqlite" => \A u \in Thread : call[u] = Idle
-----------------------------------------------------------------------------
\* Mutant: INSERT OR REPLACE, a used id starts afresh.
insert_or_replace(t, s) ==
  /\ MayEnter(t)
  /\ sessions' = [sessions EXCEPT ![s] = "Pending"]
  /\ approvals' = approvals \ Of(approvals, s)
  /\ UNCHANGED <<call, granted>>

insert(t, s) ==
  /\ MayEnter(t)
  /\ sessions[s] = Absent
  /\ sessions' = [sessions EXCEPT ![s] = "Pending"]
  /\ granted' = granted \ Of(granted, s)
  /\ UNCHANGED <<approvals, call>>

\* Mutant: the terminal check is dropped.
update_state_unchecked(t, s, st) ==
  /\ MayEnter(t)
  /\ sessions[s] # Absent
  /\ sessions' = [sessions EXCEPT ![s] = st]
  /\ UNCHANGED <<approvals, call, granted>>

update_state(t, s, st) ==
  /\ MayEnter(t)
  /\ sessions[s] # Absent
  /\ ~ is_terminal(sessions[s])
  /\ sessions' = [sessions EXCEPT ![s] = st]
  /\ UNCHANGED <<approvals, call, granted>>

\* Mutant: the approval is inserted whatever the session's state is.
record_approval_unchecked(t, s, v) ==
  /\ backend = "sqlite"
  /\ MayEnter(t)
  /\ sessions[s] # Absent
  /\ approvals' = approvals \cup {<<s, v>>}
  /\ granted' = granted \cup {<<s, v>>}
  /\ UNCHANGED <<sessions, call>>

\* record_approval of the SQLite store: check and insertion under one lock.
record_approval_sqlite(t, s, v) ==
  /\ backend = "sqlite"
  /\ MayEnter(t)
  /\ sessions[s] # Absent
  /\ ~ is_terminal(sessions[s])
  /\ <<s, v>> \notin approvals
  /\ approvals' = approvals \cup {<<s, v>>}
  /\ granted' = granted \cup {<<s, v>>}
  /\ UNCHANGED <<sessions, call>>

\* record_approval of the in-memory store, first block: the terminal check
\* under the read lock on sessions, which is released at its end.
record_approval_check(t, s, v) ==
  /\ backend = "memory"
  /\ MayEnter(t)
  /\ sessions[s] # Absent
  /\ ~ is_terminal(sessions[s])
  /\ call' = [call EXCEPT ![t] = [op |-> "record", s |-> s, v |-> v]]
  /\ UNCHANGED <<sessions, approvals, granted>>

\* Mutant: key and value of the approvals map are swapped.
record_approval_insert_swapped(t) ==
  /\ call[t].op = "record"
  /\ approvals' = approvals \cup {<<call[t].v, call[t].s>>}
  /\ call' = [call EXCEPT ![t] = Idle]
  /\ UNCHANGED <<sessions, granted>>

\* Second block, under the write lock on approvals.  The map has a set for s
\* exactly when sessions has an entry, as insert and remove change both maps
\* under both locks.  A missing set or a duplicate is an error return.
record_approval_insert(t) ==
  /\ call[t].op = "record"
  /\ LET row == <<call[t].s, call[t].v>>
         fresh == sessions[call[t].s] # Absent /\ row \notin approvals
     IN  /\ approvals' = IF fresh THEN approvals \cup {row} ELSE approvals
         /\ granted' = IF fresh THEN granted \cup {row} ELSE granted
  /\ call' = [call EXCEPT ![t] = Idle]
  /\ UNCHANGED sessions

\* Mutant: remove forgets the second map.
remove_session_only(t, s) ==
  /\ backend = "memory"
  /\ MayEnter(t)
  /\ sessions' = [sessions EXCEPT ![s] = Absent]
  /\ UNCHANGED <<approvals, call, granted>>

remove_memory(t, s) ==
  /\ backend = "memory"
  /\ MayEnter(t)
  /\ sessions' = [sessions EXCEPT ![s] = Absent]
  /\ approvals' = approvals \ Of(approvals, s)
  /\ UNCHANGED <<call, granted>>

\* Mutant: the parent row is deleted before the rows that refer to it.
remove_parent_first(t, s) ==
  /\ backend = "sqlite"
  /\ MayEnter(t)
  /\ sessions' = [sessions EXCEPT ![s] = Absent]
  /\ call' = [call EXCEPT ![t] = [op |-> "remove", s |-> s]]
  /\ UNCHANGED <<approvals, granted>>

\* remove of the SQLite store, first DELETE: the approvals of s.
remove_approvals(t, s) ==
  /\ backend = "sqlite"
  /\ MayEnter(t)
  /\ approvals' = approvals \ Of(approvals, s)
  /\ granted' = granted \ Of(granted, s)
  /\ call' = [call EXCEPT ![t] = [op |-> "remove", s |-> s]]
  /\ UNCHANGED sessions

\* Second DELETE: the session row.
remove_session(t) ==
  /\ call[t].op = "remove"
  /\ sessions' = [sessions EXCEPT ![call[t].s] = Absent]
  /\ call' = [call EXCEPT ![t] = Idle]
  /\ UNCHANGED <<approvals, granted>>

\* The process stops and starts again: the calls under way are gone, and so
\* are the maps of the in-memory store.
Restart ==
  /\ call' = [t \in Thread |-> Idle]
  /\ IF backend = "memory"
       THEN /\ sessions' = [s \in Session |-> Absent]
            /\ approvals' = {}
            /\ granted' = {}
       ELSE UNCHANGED <<sessions, approvals, granted>>

Step ==
  \/ \E t \in Thread, s \in Session :
       \/ insert(t, s)
       \/ \E st \in States : update_state(t, s, st)
       \/ \E v \in Verifier : \/ record_approval_sqlite(t, s, v)
                              \/ record_approval_check(t, s, v)
       \/ remove_memory(t, s)
       \/ remove_approvals(t, s)
  \/ \E t \in Thread : record_approval_insert(t) \/ remove_session(t)
  \/ Restart

Next == Step /\ UNCHANGED backend

Spec == Init /\ [][Next]_vars
-----------------------------------------------------------------------------
\* Every recorded approval belongs to a session of the store, whatever is
\* removed, whoever is in the middle of record_approval and wherever the
\* process stops: the maps change together, and remove deletes the approvals
\* before the row they refer to.
ApprovalsHaveSession ==
  \A r \in approvals : sessions[r[1]] # Absent

\* Traits invariant 2 with the note on record_approval: once a session is
\* terminal its state stays what it is until the session is removed.
TerminalImmutable ==
  [][\A s \in Session : is_terminal(sessions[s]) =>
        sessions'[s] \in {sessions[s], Absent}]_vars

\* An approval recorded for a session is not forgotten until a caller removes
\* the session, so record_approval refuses the same verifier a second time.
NoApprovalForgotten ==
  \A s \in Session : sessions[s] # Absent => Of(granted, s) \subseteq approvals

\* "no new approvals can be recorded for a finalized session": a step from a
\* state in which s is terminal adds no approval of s.
NoLateApproval ==
  [][\A s \in Session : is_terminal(sessions[s]) =>
        Of(approvals', s) \subseteq Of(approvals, s)]_vars

\* The SQLite store keeps that promise: the check and the insertion of
\* record_approval run under one Mutex.
NoLateApprovalSqlite ==
  [][\A s \in Session : backend = "sqlite" /\ is_terminal(sessions[s]) =>
        Of(approvals', s) \subseteq Of(approvals, s)]_vars
=============================================================================
