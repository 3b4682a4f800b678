--------------------------- MODULE ConfigContexts ---------------------------
(***************************************************************************)
(* What `with self.config_all_computes(options):` promises, one step per   *)
(* host and half: the option files of the hosts are configured one after   *)
(* the other and put back in the reverse order, each in a single step, and *)
(* a half that fails leaves its own host between the two and no other.     *)
(* ConfigAllComputes implements this.                                      *)
(***************************************************************************)
EXTENDS Naturals

CONSTANTS
    N,          \* number of compute hosts
    Options,    \* the options of a file
    Values,     \* their values
    NoValue,    \* an option that is not in the file
    Wanted,     \* the options passed, with the values asked for
    Lossy       \* an option that is there may be taken for an absent one

VARIABLES
    ctx,        \* ctx[h]: how far the context of host h is
    file,       \* file[h]: its option file
    found       \* found[h]: the file when the test began

vars == <<ctx, file, found>>

Hosts == 1..N

Files == [Options -> Values \cup {NoValue}]

Configured(f) == [o \in Options |-> IF o \in DOMAIN Wanted THEN Wanted[o] ELSE f[o]]

\* g is the file f again; what was taken for absent is gone.
BackTo(f, g) ==
    \A o \in Options :
        \/ g[o] = f[o]
        \/ Lossy /\ o \in DOMAIN Wanted /\ g[o] = NoValue

\* g is a file f that was left half way in either direction.
HalfWay(f, g) ==
    \A o \in Options :
        \/ g[o] = f[o]
        \/ o \in DOMAIN Wanted /\ (g[o] = Wanted[o] \/ (Lossy /\ g[o] = NoValue))

Init ==
    /\ ctx = [h \in Hosts |-> "before"]
    /\ file \in [Hosts -> Files]
    /\ found = file

\* It is h's turn to be entered, or to be left.
MayEnter(h) == ctx[h] = "before" /\ \A k \in 1..(h - 1) : ctx[k] = "inside"

MayLeave(h) == ctx[h] = "inside" /\ \A k \in (h + 1)..N : ctx[k] # "inside"

Move(h, state, f) ==
    /\ ctx' = [ctx EXCEPT ![h] = state]
    /\ file' = [file EXCEPT ![h] = f]
    /\ UNCHANGED found

Enter(h) == MayEnter(h) /\ Move(h, "inside", Configured(found[h]))

Leave(h) ==
    /\ MayLeave(h)
    /\ \E f \in Files : BackTo(found[h], f) /\ Move(h, "left", f)

Fail(h) ==
    /\ MayEnter(h) \/ MayLeave(h)
    /\ \E f \in Files : HalfWay(found[h], f) /\ Move(h, "failed", f)

Next == \E h \in Hosts : Enter(h) \/ Leave(h) \/ Fail(h)

Spec == Init /\ [][Next]_vars
=============================================================================
