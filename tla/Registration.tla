---------------------------- MODULE Registration ----------------------------
(***************************************************************************)
(* What the registration driver promises the Airavata catalog, with the    *)
(* driver's control state, its members and the server's id counter hidden: *)
(*                                                                         *)
(*  - requests are written in one fixed order of (kind, module) and none   *)
(*    twice: a failed registration is never retried within a run;          *)
(*  - every identifier a request carries is empty or names an entity the  *)
(*    catalog has stored, of the kind and module the field is meant for;   *)
(*  - a request makes the catalog store at most one entity, of its own     *)
(*    kind and module, under an identifier not used before.                *)
(*                                                                         *)
(* Register (the detailed model of Register.cpp) implements this           *)
(* specification under the identity mapping of sent and issued.           *)
(***************************************************************************)
EXTENDS Naturals, Sequences

CONSTANT N  \* number of application modules

VARIABLES
    sent,   \* the requests written, in order
    issued  \* the entities the catalog has stored, with their identifiers

NoId == 0

(* The order in which registerAll() registers the kinds of entity.        *)
Rank == [gateway |-> 1, gatewayProfile |-> 2, computeResource |-> 3,
         localSubmission |-> 4, appModule |-> 5, appDeployment |-> 6,
         appInterface |-> 7]

Kinds == DOMAIN Rank

(* Request a is written before request b: earlier kind, or the same kind  *)
(* for an earlier module.                                                  *)
Precedes(a, b) ==
    \/ Rank[a.kind] < Rank[b.kind]
    \/ Rank[a.kind] = Rank[b.kind] /\ a.mod < b.mod

Ids(S) == {e.id : e \in S}

(* The last request of a non-empty log.                                   *)
Latest(s) == s[Len(s)]

Init == sent = << >> /\ issued = {}

(***************************************************************************)
(* Write request req.  Its references are empty or stored; it comes after  *)
(* every request before it; the catalog stores nothing, or one new entity *)
(* of the request's kind and module with a fresh non-empty identifier.    *)
(***************************************************************************)
Send(req) ==
    /\ sent = << >> \/ Precedes(Latest(sent), req)
    /\ \A f \in req.refs : f.id = NoId \/ f \in issued
    /\ sent' = Append(sent, req)
    /\ \/ issued' = issued
       \/ \E e \in issued' \ issued :
             /\ issued' = issued \cup {e}
             /\ e.kind = req.kind /\ e.mod = req.mod
             /\ e.id \notin Ids(issued) \cup {NoId}

(* The request written is the last one of the new log.                     *)
Next == sent' # << >> /\ Send(Latest(sent'))

Spec == Init /\ [][Next]_<<sent, issued>>

=============================================================================
