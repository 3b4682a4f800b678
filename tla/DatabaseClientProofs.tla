------------------------ MODULE DatabaseClientProofs ------------------------
(* DatabaseClient.cursor for any number of calls and of changes that Nova   *)
(* makes: every query is answered from the present, and nothing is held     *)
(* when no with statement is open.                                          *)
EXTENDS DatabaseClient, TLAPS

\* The invariant holds before the first call of cursor().
LEMMA DbInvInit == DbInit => DbInv
<1> SUFFICES ASSUME DbInit PROVE DbInv
    OBVIOUS
<1>1. CountsInv
    BY DatabaseAssumption DEF DbInit, CountsInv, Labels, NoView
<1>2. TunnelInv
    BY DEF DbInit, TunnelInv
<1>3. ConnsInv
    BY DEF DbInit, ConnsInv
<1>4. AnswerInv
    BY DatabaseAssumption DEF DbInit, AnswerInv
<1> QED
    BY <1>1, <1>2, <1>3, <1>4 DEF DbInv

\* Every step of cursor(), and every change by Nova, preserves it.
LEMMA DbInvNext == DbInv /\ [DbNext]_dbVars => DbInv'
<1> SUFFICES ASSUME DbInv, [DbNext]_dbVars PROVE DbInv'
    OBVIOUS
<1> USE DatabaseAssumption DEF DbInv, CountsInv, Labels, NoView
<1>1. CASE Call
    <2>1. CountsInv'
        BY <1>1 DEF Call
    <2>2. TunnelInv'
        BY <1>1 DEF Call, TunnelInv, AnswerInv
    <2>3. ConnsInv'
        BY <1>1 DEF Call, ConnsInv, TunnelInv, AnswerInv
    <2>4. AnswerInv'
        BY <1>1 DEF Call, AnswerInv
    <2> QED
        BY <2>1, <2>2, <2>3, <2>4
<1>2. CASE OpenTunnel
    <2>1. CountsInv'
        BY <1>2 DEF OpenTunnel
    <2>2. TunnelInv'
        BY <1>2 DEF OpenTunnel, TunnelInv, AnswerInv
    <2>3. ConnsInv'
        BY <1>2 DEF OpenTunnel, ConnsInv, TunnelInv, AnswerInv
    <2>4. AnswerInv'
        BY <1>2 DEF OpenTunnel, AnswerInv
    <2> QED
        BY <2>1, <2>2, <2>3, <2>4
<1>3. CASE Connect
    <2>1. CountsInv'
        BY <1>3 DEF Connect, Unwind
    <2>2. TunnelInv'
        BY <1>3 DEF Connect, Unwind, TunnelInv, AnswerInv
    <2>3. ConnsInv'
        BY <1>3 DEF Connect, Unwind, ConnsInv, TunnelInv, AnswerInv
    <2>4. AnswerInv'
        BY <1>3 DEF Connect, Unwind, AnswerInv
    <2> QED
        BY <2>1, <2>2, <2>3, <2>4
<1>4. CASE Body
    <2>1. CountsInv'
        BY <1>4 DEF Body
    <2>2. TunnelInv'
        BY <1>4 DEF Body, TunnelInv, AnswerInv
    <2>3. ConnsInv'
        BY <1>4 DEF Body, ConnsInv, TunnelInv, AnswerInv
    <2>4. AnswerInv'
        BY <1>4 DEF Body, AnswerInv
    <2> QED
        BY <2>1, <2>2, <2>3, <2>4
<1>5. CASE Commit
    <2>1. CountsInv'
        BY <1>5 DEF Commit, Unwind
    <2>2. TunnelInv'
        BY <1>5 DEF Commit, Unwind, TunnelInv, AnswerInv
    <2>3. ConnsInv'
        <3>1. conns = 1 + (IF internal THEN 0 ELSE lost)
            BY <1>5 DEF Commit, ConnsInv
        <3>2. CASE cursor' = "close" /\ UNCHANGED <<raised, lost>>
            BY <3>1, <3>2, <1>5 DEF Commit, ConnsInv
        <3>3. CASE cursor' = Unwind /\ lost' = lost + 1
            <4>1. CASE internal
                BY <4>1, <3>3 DEF Unwind, ConnsInv
            <4>2. CASE ~internal
                <5>1. cursor' = "idle" /\ conns' = 1 + lost /\ ~internal'
                    BY <4>2, <3>1, <3>3, <1>5 DEF Commit, Unwind
                <5> QED
                    BY <5>1, <3>3 DEF ConnsInv
            <4> QED
                BY <4>1, <4>2
        <3> QED
            BY <3>2, <3>3, <1>5 DEF Commit
    <2>4. AnswerInv'
        BY <1>5 DEF Commit, Unwind, AnswerInv
    <2> QED
        BY <2>1, <2>2, <2>3, <2>4
<1>6. CASE Close
    <2>1. CountsInv'
        BY <1>6 DEF Close, Unwind, ConnsInv
    <2>2. TunnelInv'
        BY <1>6 DEF Close, Unwind, TunnelInv, AnswerInv
    <2>3. ConnsInv'
        BY <1>6 DEF Close, Unwind, ConnsInv, TunnelInv, AnswerInv
    <2>4. AnswerInv'
        BY <1>6 DEF Close, Unwind, AnswerInv
    <2> QED
        BY <2>1, <2>2, <2>3, <2>4
<1>7. CASE CloseTunnel
    <2>1. CountsInv'
        BY <1>7 DEF CloseTunnel
    <2>2. TunnelInv'
        BY <1>7 DEF CloseTunnel, TunnelInv, AnswerInv
    <2>3. ConnsInv'
        BY <1>7 DEF CloseTunnel, ConnsInv, TunnelInv, AnswerInv
    <2>4. AnswerInv'
        BY <1>7 DEF CloseTunnel, AnswerInv
    <2> QED
        BY <2>1, <2>2, <2>3, <2>4
<1>8. CASE NovaWrites
    <2>1. CountsInv'
        BY <1>8 DEF NovaWrites
    <2>2. TunnelInv'
        BY <1>8 DEF NovaWrites, TunnelInv, AnswerInv
    <2>3. ConnsInv'
        BY <1>8 DEF NovaWrites, ConnsInv, TunnelInv, AnswerInv
    <2>4. AnswerInv'
        BY <1>8 DEF NovaWrites, AnswerInv
    <2> QED
        BY <2>1, <2>2, <2>3, <2>4
<1>9. CASE UNCHANGED dbVars
    <2>1. CountsInv'
        BY <1>9 DEF dbVars
    <2>2. TunnelInv'
        BY <1>9 DEF dbVars, TunnelInv, AnswerInv
    <2>3. ConnsInv'
        BY <1>9 DEF dbVars, ConnsInv, TunnelInv, AnswerInv
    <2>4. AnswerInv'
        BY <1>9 DEF dbVars, AnswerInv
    <2> QED
        BY <2>1, <2>2, <2>3, <2>4
<1> QED
    BY <1>1, <1>2, <1>3, <1>4, <1>5, <1>6, <1>7, <1>8, <1>9 DEF DbNext, DbStep

\* The invariant always holds.
LEMMA DbInvAlways == DbSpec => []DbInv
BY DbInvInit, DbInvNext, PTL DEF DbSpec

\* However often cursor() is called and whatever Nova writes meanwhile, a query
\* that returns has seen all that was committed when its with statement began.
THEOREM QueriesAreFresh == DbSpec => []FreshAnswer
<1>1. DbInv => FreshAnswer
    BY DEF DbInv, AnswerInv, FreshAnswer
<1> QED
    BY <1>1, DbInvAlways, PTL

\* Whatever raises, in the body, in connecting or in the tunnel, cursor()
\* leaves the local port free and, unless commit() itself raised without a
\* tunnel, no connection open.
THEOREM CursorReleases == DbSpec => []NothingHeld
<1>1. DbInv => NothingHeld
    BY DEF DbInv, CountsInv, TunnelInv, ConnsInv, NothingHeld
<1> QED
    BY <1>1, DbInvAlways, PTL
=============================================================================
