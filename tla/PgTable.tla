------------------------------ MODULE PgTable ------------------------------
(***************************************************************************)
(* One PostgresTable, that is one connection to the database that only     *)
(* ever touches one table.  A table is a record:                           *)
(*                                                                         *)
(*   saved     the committed rows, which other connections see             *)
(*   live      the rows this connection sees                               *)
(*   lines     the rows sent since COPY was started; the server makes them *)
(*             visible all at once when COPY ends                          *)
(*   copy      m_copy_mode                                                 *)
(*   stream    the server really is in COPY; it is not any more if libpq   *)
(*             ended COPY because a statement was executed in between      *)
(*   begun     m_begin: a transaction is open                              *)
(*                                                                         *)
(* The operators are the methods, the predicates that begin with Can are   *)
(* the conditions under which they do not throw.                           *)
(***************************************************************************)
EXTENDS Naturals

TableType(Rows) ==
    [saved: SUBSET Rows, live: SUBSET Rows, lines: SUBSET Rows,
     copy: BOOLEAN, stream: BOOLEAN, begun: BOOLEAN]

\* A new connection: outside of COPY and of any transaction.
Connect(rows) ==
    [saved |-> rows, live |-> rows, lines |-> {},
     copy |-> FALSE, stream |-> FALSE, begun |-> FALSE]

\* The connection is lost, with everything that was not committed.
Disconnect(t) == Connect(t.saved)

\* The effect of a statement: committed immediately outside of a transaction.
Store(t, rows) ==
    [t EXCEPT !.live = rows, !.saved = IF t.begun THEN @ ELSE rows]

\* Faulty variant: BEGIN is not sent.
send_begin_NotSent(t) == t

send_begin(t) == [t EXCEPT !.begun = TRUE]
commit(t) == [t EXCEPT !.saved = t.live, !.begun = FALSE]

start_copy(t) == [t EXCEPT !.copy = TRUE, !.stream = TRUE, !.lines = {}]

CanSendLine(t) == t.copy /\ t.stream
send_line(t, rows) == [t EXCEPT !.lines = @ \cup rows]

\* end_copy() is allowed outside of COPY, where it does nothing.
CanEndCopy(t) == t.copy => t.stream

\* Faulty variant: m_copy_mode is not reset.
end_copy_ModeKept(t) ==
    IF t.copy
    THEN [Store(t, t.live \cup t.lines) EXCEPT !.lines = {}, !.stream = FALSE]
    ELSE t

end_copy(t) ==
    IF t.copy
    THEN [Store(t, t.live \cup t.lines)
            EXCEPT !.lines = {}, !.copy = FALSE, !.stream = FALSE]
    ELSE t

\* PQexecPrepared() of a SELECT.  On a connection that is in COPY, libpq first
\* ends COPY with an error: the lines are lost and m_copy_mode is not told.
query(t) == [t EXCEPT !.stream = FALSE, !.lines = {}]

\* The methods that delete or update assert that the table is not in COPY.
CanModify(t) == ~t.copy
delete(t, Doomed(_)) == Store(t, {r \in t.live : ~Doomed(r)})
update(t, Hit(_), New(_)) ==
    Store(t, {IF Hit(r) THEN New(r) ELSE r : r \in t.live})

\* The destructor: end COPY, then commit.
CanClose(t) == CanEndCopy(t)
close(t) == LET u == end_copy(t) IN IF u.begun THEN commit(u) ELSE u
=============================================================================
