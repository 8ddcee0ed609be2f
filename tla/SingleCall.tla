----------------------------- MODULE SingleCall -----------------------------
(***************************************************************************)
(* What one invocation of an experiment client promises (the RPC contract  *)
(* of the client samples): exactly one logical operation, made by one     *)
(* synchronous call that blocks until the server answers or the transport *)
(* fails, and never retried.  Before the call the invocation may end on a *)
(* local error, printing at most its usage string; after the call it ends *)
(* on a failure without printing, or prints the report of the answer.     *)
(*                                                                         *)
(* ExperimentClient implements this specification with its configuration, *)
(* quote strip, open and argument check hidden in the phase "idle", and    *)
(* the reply it holds before printing hidden in "waiting".               *)
(***************************************************************************)
EXTENDS Naturals, Sequences

CONSTANTS
    Ops,            \* the operations a client invocation can perform
    Answers(_),     \* the answers the server may give to an operation
    Report(_, _),   \* the lines printed for an answer to an operation
    Usage           \* the usage line printed on a local argument error

VARIABLES
    op,     \* the operation of this invocation
    phase,  \* "idle" before the call, "waiting" for its answer, "ended"
    calls,  \* the number of calls made
    out     \* the lines printed

vars == <<op, phase, calls, out>>

Init ==
    /\ op \in Ops
    /\ phase = "idle"
    /\ calls = 0
    /\ out = << >>

(* The call: the request goes out, or its send fails and the run ends.    *)
Call ==
    /\ phase = "idle"
    /\ calls' = calls + 1
    /\ phase' \in {"waiting", "ended"}
    /\ UNCHANGED <<op, out>>

(* The server's answer arrives and its report is printed.                 *)
Answer ==
    /\ phase = "waiting"
    /\ \E r \in Answers(op) : out' = out \o Report(op, r)
    /\ phase' = "ended"
    /\ UNCHANGED <<op, calls>>

(* The run ends on an error: before the call possibly after printing its  *)
(* usage, while waiting without printing.                                  *)
Fail ==
    /\ phase \in {"idle", "waiting"}
    /\ phase' = "ended"
    /\ \/ out' = out
       \/ phase = "idle" /\ out' = Append(out, Usage)
    /\ UNCHANGED <<op, calls>>

Next == Call \/ Answer \/ Fail

Spec == Init /\ [][Next]_vars

=============================================================================
