--------------------------- MODULE DatabaseClient ---------------------------
(* DatabaseClient.cursor of services/clients.py: a generator-based context  *)
(* manager around a PyMySQL connection that is opened for this call only,   *)
(* through an SSH tunnel with a fixed local port if the database is on an   *)
(* internal network.  Nova writes to the database meanwhile.  The server    *)
(* runs transactions at REPEATABLE READ: the first read of a connection     *)
(* fixes what all its later reads see.                                      *)
EXTENDS Naturals

CONSTANTS
    MaxRows,    \* bound on the changes that Nova makes to the row
    MaxCalls    \* bound on the uses of cursor() by the tests of one process

ASSUME DatabaseAssumption == MaxRows \in Nat /\ MaxCalls \in Nat

VARIABLES
    internal,   \* [whitebox-database]/internal_ip is set
    cursor,     \* where the generator is, "idle" outside of any with
    commit,     \* the argument of cursor()
    raised,     \* an exception is on its way out of the with
    tunnel,     \* the tunnel's local port is bound
    conns,      \* connections that are open at the server
    view,       \* what the connection's transaction sees, or NoView
    row,        \* the version of the row that is committed
    answer,     \* history: what the body read last
    asked,      \* history: the version of the row when the with began
    calls,      \* history: number of cursor() calls
    lost        \* history: connections whose commit() raised

dbVars == <<internal, cursor, commit, raised, tunnel, conns, view, row,
            answer, asked, calls, lost>>

NoView == MaxRows + 1

DbInit ==
    /\ internal \in BOOLEAN
    /\ cursor = "idle"
    /\ commit = FALSE
    /\ raised = FALSE
    /\ tunnel = FALSE
    /\ conns = 0
    /\ view = NoView
    /\ row = 0
    /\ answer = 0
    /\ asked = 0
    /\ calls = 0
    /\ lost = 0

-----------------------------------------------------------------------------
(* `with db_client.cursor(db) as cursor:`                                   *)

\* The generator starts; only the branch taken differs.
Call ==
    /\ cursor = "idle"
    /\ calls < MaxCalls
    /\ calls' = calls + 1
    /\ asked' = row
    /\ raised' = FALSE
    /\ commit' \in BOOLEAN
    /\ cursor' = IF internal THEN "tunnel" ELSE "connect"
    /\ UNCHANGED <<internal, tunnel, conns, view, row, answer, lost>>

\* SSHTunnelForwarder.__enter__ raises if the gateway cannot be reached or if
\* the local port is bound already.
OpenTunnel ==
    /\ cursor = "tunnel"
    /\ \/ /\ ~tunnel
          /\ tunnel' = TRUE
          /\ cursor' = "connect"
          /\ UNCHANGED raised
       \/ /\ raised' = TRUE
          /\ cursor' = "idle"
          /\ UNCHANGED tunnel
    /\ UNCHANGED <<internal, commit, conns, view, row, answer, asked, calls,
                   lost>>

\* Leaving the with statements that are around the present one.
Unwind == IF internal THEN "untunnel" ELSE "idle"

Connect ==
    /\ cursor = "connect"
    /\ \/ /\ conns' = conns + 1
          /\ view' = NoView
          /\ cursor' = "body"
          /\ UNCHANGED raised
       \/ /\ raised' = TRUE
          /\ cursor' = Unwind
          /\ UNCHANGED <<conns, view>>
    /\ UNCHANGED <<internal, commit, tunnel, row, answer, asked, calls, lost>>

\* Mutant: a connection that the client still has is used again.
ConnectOnce ==
    \/ conns = 0 /\ Connect
    \/ /\ cursor = "connect"
       /\ conns > 0
       /\ cursor' = "body"
       /\ UNCHANGED <<internal, commit, raised, tunnel, conns, view, row,
                      answer, asked, calls, lost>>

\* Mutant: commit and close follow the yield without try and finally.
BodyNoFinally ==
    /\ cursor = "body"
    /\ view' = IF view = NoView THEN row ELSE view
    /\ \/ /\ answer' = view' /\ UNCHANGED raised
          /\ cursor' = IF commit THEN "commit" ELSE "close"
       \/ raised' = TRUE /\ cursor' = Unwind /\ UNCHANGED answer
    /\ UNCHANGED <<internal, commit, tunnel, conns, row, asked, calls, lost>>

\* The body of the with: one SELECT, whose answer it keeps.  The execution, or
\* the body's use of the answer (fetchone() may be None), may raise.
Body ==
    /\ cursor = "body"
    /\ view' = IF view = NoView THEN row ELSE view
    /\ \/ /\ answer' = view'
          /\ UNCHANGED raised
       \/ /\ raised' = TRUE
          /\ UNCHANGED answer
    /\ cursor' = IF commit THEN "commit" ELSE "close"
    /\ UNCHANGED <<internal, commit, tunnel, conns, row, asked, calls, lost>>

\* Mutant: after a commit the connection is closed twice.
CommitCloses ==
    /\ cursor = "commit"
    /\ \/ cursor' = "close" /\ conns' = conns - 1 /\ UNCHANGED <<raised, lost>>
       \/ cursor' = Unwind /\ raised' = TRUE /\ lost' = lost + 1 /\ UNCHANGED conns
    /\ UNCHANGED <<internal, commit, tunnel, view, row, answer, asked, calls>>

\* The finally clause.  If the commit raises, close() is not reached.
Commit ==
    /\ cursor = "commit"
    /\ \/ cursor' = "close" /\ UNCHANGED <<raised, lost>>
       \/ cursor' = Unwind /\ raised' = TRUE /\ lost' = lost + 1
    /\ UNCHANGED <<internal, commit, tunnel, conns, view, row, answer, asked,
                   calls>>

Close ==
    /\ cursor = "close"
    /\ conns' = conns - 1
    /\ view' = NoView
    /\ cursor' = Unwind
    /\ UNCHANGED <<internal, commit, raised, tunnel, row, answer, asked, calls,
                   lost>>

\* Mutant: the connection is kept for the next call.
CloseKeeps ==
    /\ cursor = "close"
    /\ cursor' = Unwind
    /\ UNCHANGED <<internal, commit, raised, tunnel, conns, view, row, answer,
                   asked, calls, lost>>

\* SSHTunnelForwarder.__exit__; what still goes through the tunnel is cut.
CloseTunnel ==
    /\ cursor = "untunnel"
    /\ tunnel' = FALSE
    /\ conns' = 0
    /\ view' = NoView
    /\ cursor' = "idle"
    /\ UNCHANGED <<internal, commit, raised, row, answer, asked, calls, lost>>

\* Mutant: one connection serves all calls.
DbStepShared == \/ Call \/ OpenTunnel \/ ConnectOnce \/ Body \/ Commit
                \/ CloseKeeps \/ CloseTunnel

DbStep == \/ Call \/ OpenTunnel \/ Connect \/ Body \/ Commit \/ Close
          \/ CloseTunnel

\* External: Nova commits a change of the row.
NovaWrites ==
    /\ row < MaxRows
    /\ row' = row + 1
    /\ UNCHANGED <<internal, cursor, commit, raised, tunnel, conns, view,
                   answer, asked, calls, lost>>

DbNext == DbStep \/ NovaWrites

DbSpec == DbInit /\ [][DbNext]_dbVars

-----------------------------------------------------------------------------
(* Properties                                                               *)

\* A query that returned has seen everything that was committed when its with
\* statement began, however many queries came before it
\* (DatabaseClient.cursor opens a connection for each).
FreshAnswer == cursor = "idle" /\ ~raised => answer >= asked

\* Outside of with statements the tunnel's fixed port is free for the next
\* one and no connection is open, whatever raised; except for a connection
\* without a tunnel whose commit raised (DatabaseClient.cursor).
NothingHeld ==
    cursor = "idle" => ~tunnel /\ conns <= IF internal THEN 0 ELSE lost

-----------------------------------------------------------------------------
(* The inductive invariant behind them.                                     *)

Labels == {"idle", "tunnel", "connect", "body", "commit", "close", "untunnel"}

CountsInv ==
    /\ cursor \in Labels
    /\ conns \in Nat
    /\ view \in 0..NoView
    /\ row \in 0..MaxRows
    /\ answer \in Nat
    /\ asked \in Nat
    /\ lost \in Nat

\* The tunnel is there from "connect" to "untunnel", on internal networks.
TunnelInv == tunnel <=> internal /\ cursor \notin {"idle", "tunnel"}

\* There is one connection in the body and the finally clause, and those that
\* are lost for good.
ConnsInv ==
    cursor # "untunnel" =>
        conns = (IF cursor \in {"body", "commit", "close"} THEN 1 ELSE 0)
                + (IF internal THEN 0 ELSE lost)

\* The body is the first to read in its transaction, and nothing has raised
\* before it.
AnswerInv ==
    /\ asked <= row
    /\ cursor = "body" => view = NoView
    /\ cursor \in {"tunnel", "untunnel"} => internal
    /\ cursor \in {"tunnel", "connect", "body"} => ~raised
    /\ cursor \notin {"tunnel", "connect", "body"} /\ ~raised => answer >= asked

DbInv == CountsInv /\ TunnelInv /\ ConnsInv /\ AnswerInv
=============================================================================
