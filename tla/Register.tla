------------------------------ MODULE Register ------------------------------
(***************************************************************************)
(* The catalog-registration driver of the C++ client samples               *)
(* (client_samples/util/register/Register.cpp).  main() calls init(),      *)
(* which loads the module list from menu.json into the global vector       *)
(* genapp_modules, then registerAll(), which opens one Thrift connection   *)
(* and issues, strictly in this order, the registration RPCs               *)
(*                                                                         *)
(*   addGateway, registerGatewayResourceProfile, registerComputeResource,  *)
(*   addLocalSubmissionDetails, registerApplicationModule (per module),    *)
(*   registerApplicationDeployment (per module),                           *)
(*   registerApplicationInterface (per module),                            *)
(*                                                                         *)
(* and closes the connection.  Each RPC is one step: the remote Airavata   *)
(* server is not part of this repository and is modelled only by the       *)
(* outcomes a blocking Thrift call can have (see Outcomes).                *)
(*                                                                         *)
(* Identifiers are abstracted to naturals: the server hands out nextId,    *)
(* and NoId (0) stands for the empty string "" that every id field of the  *)
(* client holds until a reply overwrites it.                               *)
(***************************************************************************)
EXTENDS Naturals, Sequences

CONSTANT
    N       \* number of {id, label} entries under "modules" in menu.json

ASSUME NAssumption == N \in Nat

VARIABLES
    pc,         \* where main() is: the function being executed
    i,          \* 1-based position of the iterator over genapp_modules
    conn,       \* state of the TBufferedTransport/TSocket pair
    gatewayId,  \* member Register::gatewayId
    localhostId,\* member Register::localhostId
    moduleId,   \* genapp_modules[k].moduleId, for k in 1..N
    nextId,     \* server: the next identifier it will generate
    issued,     \* server: every entity it has stored, with its identifier
    sent        \* every request the client has written, in order

vars == <<pc, i, conn, gatewayId, localhostId, moduleId, nextId, issued, sent>>

NoId == 0
Modules == 1..N

Kinds == {"gateway", "gatewayProfile", "computeResource", "localSubmission",
          "appModule", "appDeployment", "appInterface"}

Phases == {"init", "registerAll", "registerGateway", "registerGatewayProfile",
           "registerComputeResource", "addLocalSubmission",
           "registerApplicationModules", "registerApplicationDeployments",
           "registerApplicationInterfaces", "done", "aborted"}

(* A reference from a request to another entity: its kind, the id the     *)
(* client put in the field, and the module the client meant (0 if none).  *)
Ref(k, id, m) == [kind |-> k, id |-> id, mod |-> m]

(***************************************************************************)
(* Outcomes of one synchronous Thrift call.  "ok": the server stored the   *)
(* entity and the reply set the output parameter.  "appError": the server  *)
(* threw one of the Airavata exceptions; nothing stored, output parameter  *)
(* unchanged.  "lostRequest": the send failed (send timeout, reset); the   *)
(* server saw nothing.  "lostReply": the server stored the entity but the  *)
(* connection failed before the reply was read.  The last two raise a      *)
(* TTransportException and leave the stream unusable, so on a broken       *)
(* connection every later call fails in the send.                          *)
(***************************************************************************)
Outcomes(c) == IF c = "open" THEN {"ok", "appError", "lostRequest", "lostReply"}
                             ELSE {"lostRequest"}

Applied(o) == o \in {"ok", "lostReply"}

(* Mutant: a transport failure read as if the reply had arrived.          *)
ReplyAfterFailure(o, old) == IF o = "appError" THEN old ELSE nextId

(* The value of a Thrift output parameter after a call with outcome o.     *)
Reply(o, old) == IF o = "ok" THEN nextId ELSE old

(***************************************************************************)
(* One RPC of kind k for module m carrying the references refs: the        *)
(* request is written, the server may store a new entity, and a transport  *)
(* failure breaks the connection.  The caller sets the output parameter    *)
(* and the control flow.                                                   *)
(***************************************************************************)
Rpc(k, m, refs, o) ==
    /\ sent' = Append(sent, [kind |-> k, mod |-> m, refs |-> refs])
    /\ issued' = IF Applied(o) THEN issued \cup {Ref(k, nextId, m)} ELSE issued
    /\ nextId' = IF Applied(o) THEN nextId + 1 ELSE nextId
    /\ conn' = IF o \in {"lostRequest", "lostReply"} THEN "broken" ELSE conn

Init ==
    /\ pc = "init"
    /\ i = 1
    /\ conn = "none"
    /\ gatewayId = NoId
    /\ localhostId = NoId
    /\ moduleId = [m \in Modules |-> NoId]
    /\ nextId = 1
    /\ issued = {}
    /\ sent = << >>

(***************************************************************************)
(* init(): parse directives.json and menu.json and push one module per     *)
(* menu entry.  A missing file or key throws a jsoncons exception, which   *)
(* main() does not catch: the process terminates.                          *)
(***************************************************************************)
LoadModules ==
    /\ pc = "init"
    /\ pc' \in {"registerAll", "aborted"}
    /\ UNCHANGED <<i, conn, gatewayId, localhostId, moduleId, nextId, issued, sent>>

(***************************************************************************)
(* registerAll() up to transport->open(): read the (hard-coded) config,    *)
(* strip the quotes of the host, build socket, transport and protocol and  *)
(* open.  A failed open throws a TTransportException out of registerAll,   *)
(* caught and printed by main(), which returns.                            *)
(***************************************************************************)
OpenTransport ==
    /\ pc = "registerAll"
    /\ \/ /\ conn' = "open"
          /\ pc' = "registerGateway"
       \/ /\ pc' = "aborted"
          /\ UNCHANGED conn
    /\ UNCHANGED <<i, gatewayId, localhostId, moduleId, nextId, issued, sent>>

(* registerGateway(): addGateway(this->gatewayId, gateway), caught.        *)
RegisterGateway ==
    /\ pc = "registerGateway"
    /\ \E o \in Outcomes(conn) :
          /\ Rpc("gateway", 0, {}, o)
          /\ gatewayId' = Reply(o, gatewayId)
    /\ pc' = "registerGatewayProfile"
    /\ UNCHANGED <<i, localhostId, moduleId>>

(***************************************************************************)
(* registerGatewayProfile(): one ComputeResourcePreference whose           *)
(* computeResourceId is the member localhostId, in a profile whose         *)
(* gatewayID is the member gatewayId; the returned id is a local that is   *)
(* only printed.  Exceptions are caught.                                   *)
(***************************************************************************)
RegisterGatewayProfile ==
    /\ pc = "registerGatewayProfile"
    /\ \E o \in Outcomes(conn) :
          Rpc("gatewayProfile", 0,
              {Ref("gateway", gatewayId, 0),
               Ref("computeResource", localhostId, 0)}, o)
    /\ pc' = "registerComputeResource"
    /\ UNCHANGED <<i, gatewayId, localhostId, moduleId>>

(***************************************************************************)
(* registerLocalhost(), first call: registerComputeResource(localhostId,   *)
(* host).  Both calls of registerLocalhost share one try: if this one      *)
(* throws, addLocalSubmissionDetails is skipped.                           *)
(***************************************************************************)
RegisterComputeResource ==
    /\ pc = "registerComputeResource"
    /\ \E o \in Outcomes(conn) :
          /\ Rpc("computeResource", 0, {}, o)
          /\ localhostId' = Reply(o, localhostId)
          /\ pc' = IF o = "ok" THEN "addLocalSubmission"
                               ELSE "registerApplicationModules"
    /\ i' = 1
    /\ UNCHANGED <<gatewayId, moduleId>>

(* Mutant: the two output parameters of addLocalSubmissionDetails swapped. *)
AddLocalSubmissionSwapped ==
    /\ pc = "addLocalSubmission"
    /\ \E o \in Outcomes(conn) :
          /\ Rpc("localSubmission", 0, {Ref("computeResource", localhostId, 0)}, o)
          /\ localhostId' = Reply(o, localhostId)
    /\ pc' = "registerApplicationModules"
    /\ UNCHANGED <<i, gatewayId, moduleId>>

(* registerLocalhost(), second call: addLocalSubmissionDetails(submission, *)
(* localhostId, 1, localSubmission); submission is a local, only printed.  *)
AddLocalSubmission ==
    /\ pc = "addLocalSubmission"
    /\ \E o \in Outcomes(conn) :
          Rpc("localSubmission", 0, {Ref("computeResource", localhostId, 0)}, o)
    /\ pc' = "registerApplicationModules"
    /\ UNCHANGED <<i, gatewayId, localhostId, moduleId>>

(* Mutant: a failed module registration retried instead of ending the loop. *)
RegisterApplicationModulesRetry ==
    /\ pc = "registerApplicationModules"
    /\ \/ /\ i \in Modules
          /\ \E o \in Outcomes(conn) :
                /\ Rpc("appModule", i, {Ref("gateway", gatewayId, 0)}, o)
                /\ moduleId' = [moduleId EXCEPT ![i] = Reply(o, @)]
                /\ i' = IF o = "ok" THEN i + 1 ELSE i
                /\ UNCHANGED pc
       \/ /\ i \notin Modules
          /\ i' = 1
          /\ pc' = "registerApplicationDeployments"
          /\ UNCHANGED <<moduleId, conn, nextId, issued, sent>>
    /\ UNCHANGED <<gatewayId, localhostId>>

(***************************************************************************)
(* registerApplicationModules(): for each module, registerApplicationModule *)
(* (it->moduleId, gatewayId, appModule).  The try encloses the whole loop:  *)
(* the first exception ends the loop.                                      *)
(***************************************************************************)
RegisterApplicationModules ==
    /\ pc = "registerApplicationModules"
    /\ \/ /\ i \in Modules
          /\ \E o \in Outcomes(conn) :
                /\ Rpc("appModule", i, {Ref("gateway", gatewayId, 0)}, o)
                /\ moduleId' = [moduleId EXCEPT ![i] = Reply(o, @)]
                /\ IF o = "ok" THEN /\ i' = i + 1
                                    /\ UNCHANGED pc
                               ELSE /\ i' = 1
                                    /\ pc' = "registerApplicationDeployments"
       \/ /\ i \notin Modules
          /\ i' = 1
          /\ pc' = "registerApplicationDeployments"
          /\ UNCHANGED <<moduleId, conn, nextId, issued, sent>>
    /\ UNCHANGED <<gatewayId, localhostId>>

(***************************************************************************)
(* registerApplicationDeployments(): for each module, a deployment of      *)
(* it->moduleId on computeHostId = localhostId.  Again one try around the  *)
(* whole loop; the deployment id is a local, only printed.                 *)
(***************************************************************************)
RegisterApplicationDeployments ==
    /\ pc = "registerApplicationDeployments"
    /\ \/ /\ i \in Modules
          /\ \E o \in Outcomes(conn) :
                /\ Rpc("appDeployment", i,
                       {Ref("gateway", gatewayId, 0),
                        Ref("appModule", moduleId[i], i),
                        Ref("computeResource", localhostId, 0)}, o)
                /\ IF o = "ok" THEN /\ i' = i + 1
                                    /\ UNCHANGED pc
                               ELSE /\ i' = 1
                                    /\ pc' = "registerApplicationInterfaces"
       \/ /\ i \notin Modules
          /\ i' = 1
          /\ pc' = "registerApplicationInterfaces"
          /\ UNCHANGED <<conn, nextId, issued, sent>>
    /\ UNCHANGED <<gatewayId, localhostId, moduleId>>

(* Mutant: one try around the whole interface loop, as in the two loops    *)
(* before it; a failure ends the loop.                                     *)
RegisterApplicationInterfacesLoopTry ==
    /\ pc = "registerApplicationInterfaces"
    /\ i \in Modules
    /\ \E o \in Outcomes(conn) :
          /\ Rpc("appInterface", i,
                 {Ref("gateway", gatewayId, 0), Ref("appModule", moduleId[i], i)}, o)
          /\ i' = IF o = "ok" THEN i + 1 ELSE N + 1
    /\ UNCHANGED <<pc, gatewayId, localhostId, moduleId>>

(***************************************************************************)
(* registerApplicationInterfaces(): for each module, call                  *)
(* registerApplicationInterface(name, moduleId), whose own try catches the *)
(* exception of that module only, so the loop always goes on.              *)
(***************************************************************************)
RegisterApplicationInterfaces ==
    /\ pc = "registerApplicationInterfaces"
    /\ i \in Modules
    /\ \E o \in Outcomes(conn) :
          Rpc("appInterface", i,
              {Ref("gateway", gatewayId, 0), Ref("appModule", moduleId[i], i)}, o)
    /\ i' = i + 1
    /\ UNCHANGED <<pc, gatewayId, localhostId, moduleId>>

(* End of registerAll(): transport->close(); main() returns 0.             *)
CloseTransport ==
    /\ pc = "registerApplicationInterfaces"
    /\ i \notin Modules
    /\ conn' = "closed"
    /\ pc' = "done"
    /\ UNCHANGED <<i, gatewayId, localhostId, moduleId, nextId, issued, sent>>

Next ==
    \/ LoadModules
    \/ OpenTransport
    \/ RegisterGateway
    \/ RegisterGatewayProfile
    \/ RegisterComputeResource
    \/ AddLocalSubmission
    \/ RegisterApplicationModules
    \/ RegisterApplicationDeployments
    \/ RegisterApplicationInterfaces
    \/ CloseTransport

Spec == Init /\ [][Next]_vars

-----------------------------------------------------------------------------
(* The request log as a set, for quantifying over requests.                *)
Requests == {sent[k] : k \in 1..Len(sent)}

Request == [kind : Kinds, mod : 0..N,
            refs : SUBSET [kind : Kinds, id : Nat, mod : 0..N]]

TypeOK ==
    /\ pc \in Phases
    /\ i \in 1..N + 1
    /\ conn \in {"none", "open", "broken", "closed"}
    /\ nextId \in Nat \ {0}
    /\ gatewayId \in 0..nextId - 1
    /\ localhostId \in 0..nextId - 1
    /\ moduleId \in [Modules -> 0..nextId - 1]
    /\ issued \subseteq [kind : Kinds, id : Nat \ {0}, mod : 0..N]
    /\ sent \in Seq(Request)

(***************************************************************************)
(* Every identifier the client puts in a request is either empty or the    *)
(* identifier the server generated for exactly the entity the field names: *)
(* same kind and, for a module reference, the same genapp_modules entry.   *)
(* This is about how the output parameters of the Thrift calls             *)
(* (gatewayId, localhostId, it->moduleId) flow into later requests across  *)
(* failed calls, which leave them unchanged, and lost replies, after which *)
(* the server holds an entity the client never learns of.                  *)
(***************************************************************************)
RefsIssued ==
    \A r \in Requests : \A f \in r.refs : f.id = NoId \/ f \in issued

(* The identifiers the client keeps in Register's members and in           *)
(* genapp_modules are empty or name the entity they are meant to name.     *)
(* Together with TypeOK and RefsIssued this is the inductive invariant.    *)
ClientIdsIssued ==
    /\ gatewayId = NoId \/ Ref("gateway", gatewayId, 0) \in issued
    /\ localhostId = NoId \/ Ref("computeResource", localhostId, 0) \in issued
    /\ \A m \in Modules :
          moduleId[m] = NoId \/ Ref("appModule", moduleId[m], m) \in issued

IInv == TypeOK /\ ClientIdsIssued /\ RefsIssued

(* A request of kind k for module m has been written.                      *)
Attempted(k, m) == \E r \in Requests : r.kind = k /\ r.mod = m

(***************************************************************************)
(* When registerAll() has returned normally, an interface registration was *)
(* attempted for every module of menu.json, whatever failed before: the    *)
(* per-call try in registerApplicationInterface() isolates each module.    *)
(***************************************************************************)
InterfaceForEveryModule ==
    pc = "done" => \A m \in Modules : Attempted("appInterface", m)

(***************************************************************************)
(* Spec 4.4 and 8.6: the failure of one step is caught and the workflow    *)
(* proceeds with the next regardless, so for every module a module, a      *)
(* deployment and an interface registration are attempted.                 *)
(* registerApplicationModules/Deployments wrap the whole loop in one try.  *)
(***************************************************************************)
FailureIsolated ==
    pc = "done" =>
        \A m \in Modules, k \in {"appModule", "appDeployment", "appInterface"} :
            Attempted(k, m)

(***************************************************************************)
(* Spec 8.4: a deployment or interface registration for a module is never  *)
(* issued before that module's registration returned an identifier, i.e.  *)
(* its module reference is never empty.                                    *)
(***************************************************************************)
DeployAfterModule ==
    \A r \in Requests :
        r.kind \in {"appDeployment", "appInterface"} =>
            \A f \in r.refs : f.kind = "appModule" => f.id # NoId

(***************************************************************************)
(* Spec 4.4: resource registration precedes every registration that        *)
(* references it; the gateway resource profile references the localhost   *)
(* compute resource (ComputeResourcePreference.computeResourceId).         *)
(***************************************************************************)
ProfileAfterResource ==
    \A r \in Requests :
        r.kind = "gatewayProfile" =>
            \A f \in r.refs : f.kind = "computeResource" => f.id # NoId

(***************************************************************************)
(* The requests of one run name each entity by one identifier: two         *)
(* references to the gateway, to the localhost compute resource or to the *)
(* same genapp_modules entry carry the same id, unless one is empty.  The *)
(* members gatewayId, localhostId and it->moduleId are filled by one call *)
(* and read by every later request, so a call that refilled one would make *)
(* later requests name another entity than earlier ones did.              *)
(***************************************************************************)
ConsistentRefs ==
    \A r1, r2 \in Requests : \A f1 \in r1.refs, f2 \in r2.refs :
        (/\ f1.kind = f2.kind /\ f1.mod = f2.mod
         /\ f1.id # NoId /\ f2.id # NoId) => f1.id = f2.id

(***************************************************************************)
(* No step overwrites an identifier the driver already holds: a member or *)
(* a genapp_modules entry, once set by the reply of its own call, keeps   *)
(* its value to the end of registerAll().                                 *)
(***************************************************************************)
MembersKept ==
    [][/\ gatewayId # NoId => gatewayId' = gatewayId
       /\ localhostId # NoId => localhostId' = localhostId
       /\ \A m \in Modules : moduleId[m] # NoId => moduleId'[m] = moduleId[m]
      ]_vars

-----------------------------------------------------------------------------
(* The abstract registration protocol, over the same log and catalog.     *)
Abstract == INSTANCE Registration WITH N <- N, sent <- sent, issued <- issued

(***************************************************************************)
(* registerAll() implements the abstract protocol: its requests go out in *)
(* the fixed kind/module order with no request repeated (no retry after a *)
(* failed call), each reference is empty or names a stored entity, and    *)
(* each call stores at most one fresh entity of its own kind and module,  *)
(* across failed calls, lost requests and lost replies.                   *)
(***************************************************************************)
ImplementsRegistration == Abstract!Spec

=============================================================================
