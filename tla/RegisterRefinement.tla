------------------------- MODULE RegisterRefinement -------------------------
(***************************************************************************)
(* Proof that the registration driver (Register.tla) implements the       *)
(* abstract registration protocol (Registration.tla) under the identity   *)
(* mapping of the request log and the catalog: Spec => Abstract!Spec.     *)
(*                                                                         *)
(* IInv (RegisterProofs) gives the references.  Two more facts are needed: *)
(* every stored identifier is below the server's counter, so each new one  *)
(* is fresh; and the last request written precedes the one the current     *)
(* statement group of registerAll() sends next, so the log stays ordered.  *)
(***************************************************************************)
EXTENDS RegisterProofs

(* The kind of request each sending statement group of registerAll()      *)
(* writes.                                                                 *)
PhaseKind == [registerGateway |-> "gateway",
              registerGatewayProfile |-> "gatewayProfile",
              registerComputeResource |-> "computeResource",
              addLocalSubmission |-> "localSubmission",
              registerApplicationModules |-> "appModule",
              registerApplicationDeployments |-> "appDeployment",
              registerApplicationInterfaces |-> "appInterface"]

Sending == DOMAIN PhaseKind

Loops == {"registerApplicationModules", "registerApplicationDeployments",
          "registerApplicationInterfaces"}

(* The kind and module of the next request the driver writes.             *)
NextKey == [kind |-> PhaseKind[pc], mod |-> IF pc \in Loops THEN i ELSE 0]

(* Every stored identifier is below the server's counter.                  *)
IdsBelow == \A e \in issued : e.id < nextId

(* Nothing is written before the gateway registration.                     *)
EmptyBefore == pc \in {"init", "registerAll", "registerGateway"} => sent = << >>

(* The last request written precedes the next one.                         *)
InOrder ==
    pc \in Sending /\ sent # << >> =>
        Abstract!Precedes(Abstract!Latest(sent), NextKey)

RInv == IInv /\ IdsBelow /\ EmptyBefore /\ InOrder

(* Before main() runs the log and the catalog are empty.                   *)
LEMMA InitRInv == Init => RInv
  BY InitIInv DEF Init, RInv, IdsBelow, EmptyBefore, InOrder

(* What an RPC step appends, and that it keeps identifiers fresh.         *)
LEMMA RpcLatest ==
    ASSUME TypeOK, IdsBelow,
           NEW k, NEW m, NEW refs, NEW o,
           Rpc(k, m, refs, o)
    PROVE  /\ sent' # << >>
           /\ Abstract!Latest(sent') = [kind |-> k, mod |-> m, refs |-> refs]
           /\ sent' = Append(sent, Abstract!Latest(sent'))
           /\ IdsBelow'
  <1>1. sent' = Append(sent, [kind |-> k, mod |-> m, refs |-> refs])
    BY DEF Rpc
  <1>2. /\ sent' # << >>
        /\ Abstract!Latest(sent') = [kind |-> k, mod |-> m, refs |-> refs]
    BY <1>1 DEF TypeOK, Abstract!Latest
  <1>3. IdsBelow'
    BY DEF Rpc, IdsBelow, TypeOK, Applied, Ref
  <1>4. QED
    BY <1>1, <1>2, <1>3

(***************************************************************************)
(* An RPC step whose references are empty or stored and whose request      *)
(* follows the last one written is a step of the abstract protocol.       *)
(***************************************************************************)
LEMMA RpcRefines ==
    ASSUME TypeOK, IdsBelow,
           NEW k, NEW m, NEW refs, NEW o,
           Rpc(k, m, refs, o),
           \A f \in refs : f.id = NoId \/ f \in issued,
           sent = << >> \/ Abstract!Precedes(Abstract!Latest(sent),
                                             [kind |-> k, mod |-> m])
    PROVE  Abstract!Next
  <1> DEFINE req == [kind |-> k, mod |-> m, refs |-> refs]
  <1>1. /\ sent' # << >>
        /\ Abstract!Latest(sent') = req
        /\ sent' = Append(sent, req)
    BY RpcLatest
  <1>2. sent = << >> \/ Abstract!Precedes(Abstract!Latest(sent), req)
    BY DEF Abstract!Precedes
  <1>3. \A f \in req.refs : f.id = Abstract!NoId \/ f \in issued
    BY DEF NoId, Abstract!NoId
  <1>4. \/ issued' = issued
        \/ \E e \in issued' \ issued :
              /\ issued' = issued \cup {e}
              /\ e.kind = req.kind /\ e.mod = req.mod
              /\ e.id \notin Abstract!Ids(issued) \cup {Abstract!NoId}
    <2>1. CASE Applied(o)
      <3> DEFINE e == Ref(k, nextId, m)
      <3>1. /\ issued' = issued \cup {e}
            /\ e.kind = req.kind /\ e.mod = req.mod
        BY <2>1 DEF Rpc, Ref
      <3>2. e.id \notin Abstract!Ids(issued) \cup {Abstract!NoId}
        BY DEF IdsBelow, Abstract!Ids, Abstract!NoId, Ref, TypeOK
      <3>3. e \notin issued
        BY <3>2 DEF Abstract!Ids
      <3>4. QED
        BY <3>1, <3>2, <3>3
    <2>7. CASE ~Applied(o)
      BY <2>7 DEF Rpc
    <2>8. QED
      BY <2>1, <2>7
  <1>5. QED
    BY <1>1, <1>2, <1>3, <1>4 DEF Abstract!Next, Abstract!Send

(***************************************************************************)
(* An RPC step keeps the strengthening and is an abstract step when its    *)
(* references are empty or stored, its request follows the last one, and *)
(* it leads to a statement group whose next request follows its own.     *)
(***************************************************************************)
LEMMA RpcStep ==
    ASSUME RInv,
           NEW k, NEW m, NEW refs, NEW o,
           Rpc(k, m, refs, o),
           \A f \in refs : f.id = NoId \/ f \in issued,
           sent = << >> \/ Abstract!Precedes(Abstract!Latest(sent),
                                             [kind |-> k, mod |-> m]),
           pc' \notin {"init", "registerAll", "registerGateway"},
           pc' \in Sending => Abstract!Precedes([kind |-> k, mod |-> m], NextKey')
    PROVE  IdsBelow' /\ EmptyBefore' /\ InOrder' /\ Abstract!Next
  <1>1. /\ sent' # << >>
        /\ Abstract!Latest(sent') = [kind |-> k, mod |-> m, refs |-> refs]
        /\ IdsBelow'
    BY RpcLatest DEF RInv, IInv
  <1>2. InOrder'
    BY <1>1 DEF InOrder, Abstract!Precedes
  <1>3. Abstract!Next
    BY RpcRefines DEF RInv, IInv
  <1>4. QED
    BY <1>1, <1>2, <1>3 DEF EmptyBefore

(* A step that writes nothing and stores nothing is an abstract stutter.  *)
LEMMA QuietStep ==
    ASSUME RInv, UNCHANGED <<nextId, issued, sent>>
    PROVE  IdsBelow' /\ UNCHANGED <<sent, issued>>
  BY DEF RInv, IdsBelow

(* The statement group a step leaves and the one it enters.                *)
LEMMA PhaseFacts ==
    /\ PhaseKind["registerGatewayProfile"] = "gatewayProfile"
    /\ PhaseKind["registerComputeResource"] = "computeResource"
    /\ PhaseKind["addLocalSubmission"] = "localSubmission"
    /\ PhaseKind["registerApplicationModules"] = "appModule"
    /\ PhaseKind["registerApplicationDeployments"] = "appDeployment"
    /\ PhaseKind["registerApplicationInterfaces"] = "appInterface"
    /\ Sending = {"registerGateway", "registerGatewayProfile",
                  "registerComputeResource", "addLocalSubmission",
                  "registerApplicationModules", "registerApplicationDeployments",
                  "registerApplicationInterfaces"}
  BY DEF PhaseKind, Sending

(* What every step of the driver is shown to do.                           *)
OrderStep == IdsBelow' /\ EmptyBefore' /\ InOrder' /\ [Abstract!Next]_<<sent, issued>>

(* init() writes nothing; main() either goes on to registerAll or ends.   *)
LEMMA LoadModulesOrder ==
    ASSUME RInv, LoadModules
    PROVE  OrderStep
  <1>1. IdsBelow' /\ UNCHANGED <<sent, issued>>
    BY QuietStep DEF LoadModules
  <1>2. sent' = << >> /\ pc' \notin Sending
    BY <1>1, PhaseFacts DEF LoadModules, RInv, EmptyBefore
  <1>3. QED
    BY <1>1, <1>2 DEF OrderStep, EmptyBefore, InOrder

(* Opening the transport writes nothing.                                   *)
LEMMA OpenTransportOrder ==
    ASSUME RInv, OpenTransport
    PROVE  OrderStep
  <1>1. IdsBelow' /\ UNCHANGED <<sent, issued>>
    BY QuietStep DEF OpenTransport
  <1>2. sent' = << >>
    BY <1>1 DEF OpenTransport, RInv, EmptyBefore
  <1>3. QED
    BY <1>1, <1>2 DEF OrderStep, EmptyBefore, InOrder

(* addGateway is the first request.                                        *)
LEMMA GatewayOrder ==
    ASSUME RInv, RegisterGateway
    PROVE  OrderStep
  <1>1. PICK o \in Outcomes(conn) : Rpc("gateway", 0, {}, o)
    BY DEF RegisterGateway
  <1>2. sent = << >>
    BY DEF RegisterGateway, RInv, EmptyBefore
  <1>3. pc' = "registerGatewayProfile" /\ NextKey' = [kind |-> "gatewayProfile", mod |-> 0]
    BY PhaseFacts DEF RegisterGateway, NextKey, Loops
  <1>4. QED
    BY <1>1, <1>2, <1>3, RpcStep DEF OrderStep, Abstract!Precedes, Abstract!Rank

(* The profile follows the gateway and precedes the compute resource.     *)
LEMMA ProfileOrder ==
    ASSUME RInv, RegisterGatewayProfile
    PROVE  OrderStep
  <1> DEFINE refs == {Ref("gateway", gatewayId, 0),
                      Ref("computeResource", localhostId, 0)}
  <1>1. PICK o \in Outcomes(conn) : Rpc("gatewayProfile", 0, refs, o)
    BY DEF RegisterGatewayProfile
  <1>2. \A f \in refs : f.id = NoId \/ f \in issued
    BY DEF RInv, IInv, ClientIdsIssued, Ref
  <1>3. NextKey = [kind |-> "gatewayProfile", mod |-> 0]
    BY PhaseFacts DEF RegisterGatewayProfile, NextKey, Loops
  <1>4. sent = << >> \/ Abstract!Precedes(Abstract!Latest(sent),
                                          [kind |-> "gatewayProfile", mod |-> 0])
    BY <1>3, PhaseFacts DEF RegisterGatewayProfile, RInv, InOrder
  <1>5. pc' = "registerComputeResource"
        /\ NextKey' = [kind |-> "computeResource", mod |-> 0]
    BY PhaseFacts DEF RegisterGatewayProfile, NextKey, Loops
  <1>6. QED
    BY <1>1, <1>2, <1>4, <1>5, RpcStep DEF OrderStep, Abstract!Precedes, Abstract!Rank

(* The compute resource leads to the submission or to the module loop.    *)
LEMMA ComputeResourceOrder ==
    ASSUME RInv, RegisterComputeResource
    PROVE  OrderStep
  <1>1. PICK o \in Outcomes(conn) :
           /\ Rpc("computeResource", 0, {}, o)
           /\ pc' = IF o = "ok" THEN "addLocalSubmission"
                                ELSE "registerApplicationModules"
    BY DEF RegisterComputeResource
  <1>2. NextKey = [kind |-> "computeResource", mod |-> 0]
    BY PhaseFacts DEF RegisterComputeResource, NextKey, Loops
  <1>3. sent = << >> \/ Abstract!Precedes(Abstract!Latest(sent),
                                          [kind |-> "computeResource", mod |-> 0])
    BY <1>2, PhaseFacts DEF RegisterComputeResource, RInv, InOrder
  <1>4. \/ NextKey' = [kind |-> "localSubmission", mod |-> 0]
        \/ NextKey' = [kind |-> "appModule", mod |-> i']
    BY <1>1, PhaseFacts DEF NextKey, Loops
  <1>5. pc' \notin {"init", "registerAll", "registerGateway"}
    BY <1>1
  <1>6. QED
    BY <1>1, <1>3, <1>4, <1>5, RpcStep DEF OrderStep, Abstract!Precedes, Abstract!Rank

(* The submission leads to the module loop.                                *)
LEMMA LocalSubmissionOrder ==
    ASSUME RInv, AddLocalSubmission
    PROVE  OrderStep
  <1> DEFINE refs == {Ref("computeResource", localhostId, 0)}
  <1>1. PICK o \in Outcomes(conn) : Rpc("localSubmission", 0, refs, o)
    BY DEF AddLocalSubmission
  <1>2. \A f \in refs : f.id = NoId \/ f \in issued
    BY DEF RInv, IInv, ClientIdsIssued, Ref
  <1>3. NextKey = [kind |-> "localSubmission", mod |-> 0]
    BY PhaseFacts DEF AddLocalSubmission, NextKey, Loops
  <1>4. sent = << >> \/ Abstract!Precedes(Abstract!Latest(sent),
                                          [kind |-> "localSubmission", mod |-> 0])
    BY <1>3, PhaseFacts DEF AddLocalSubmission, RInv, InOrder
  <1>5. pc' = "registerApplicationModules"
        /\ NextKey' = [kind |-> "appModule", mod |-> i']
    BY PhaseFacts DEF AddLocalSubmission, NextKey, Loops
  <1>6. QED
    BY <1>1, <1>2, <1>4, <1>5, RpcStep DEF OrderStep, Abstract!Precedes, Abstract!Rank

(***************************************************************************)
(* A loop that sends for module i goes on with module i + 1 of the same    *)
(* kind, or leaves for the loop of the next kind starting at module 1;    *)
(* leaving when i is past the last module writes nothing.                  *)
(***************************************************************************)
LEMMA ModulesOrder ==
    ASSUME RInv, RegisterApplicationModules
    PROVE  OrderStep
  <1>1. NextKey = [kind |-> "appModule", mod |-> i]
    BY PhaseFacts DEF RegisterApplicationModules, NextKey, Loops
  <1>2. sent = << >> \/ Abstract!Precedes(Abstract!Latest(sent),
                                          [kind |-> "appModule", mod |-> i])
    BY <1>1, PhaseFacts DEF RegisterApplicationModules, RInv, InOrder
  <1>3. CASE /\ i \in Modules
             /\ \E o \in Outcomes(conn) :
                   /\ Rpc("appModule", i, {Ref("gateway", gatewayId, 0)}, o)
                   /\ IF o = "ok" THEN /\ i' = i + 1
                                       /\ UNCHANGED pc
                                  ELSE /\ i' = 1
                                       /\ pc' = "registerApplicationDeployments"
    <2>1. PICK o \in Outcomes(conn) :
                   /\ Rpc("appModule", i, {Ref("gateway", gatewayId, 0)}, o)
                   /\ IF o = "ok" THEN /\ i' = i + 1
                                       /\ UNCHANGED pc
                                  ELSE /\ i' = 1
                                       /\ pc' = "registerApplicationDeployments"
      BY <1>3
    <2>2. \A f \in {Ref("gateway", gatewayId, 0)} : f.id = NoId \/ f \in issued
      BY DEF RInv, IInv, ClientIdsIssued, Ref
    <2>3. \/ NextKey' = [kind |-> "appModule", mod |-> i + 1]
          \/ NextKey' = [kind |-> "appDeployment", mod |-> 1]
      BY <2>1, PhaseFacts DEF RegisterApplicationModules, NextKey, Loops
    <2>4. pc' \notin {"init", "registerAll", "registerGateway"}
      BY <2>1 DEF RegisterApplicationModules
    <2>5. i \in Nat
      BY <1>3 DEF Modules
    <2>6. QED
      BY <1>2, <2>1, <2>2, <2>3, <2>4, <2>5, RpcStep
         DEF OrderStep, Abstract!Precedes, Abstract!Rank
  <1>4. CASE /\ i \notin Modules
             /\ i' = 1
             /\ pc' = "registerApplicationDeployments"
             /\ UNCHANGED <<moduleId, conn, nextId, issued, sent>>
    <2>1. IdsBelow' /\ UNCHANGED <<sent, issued>>
      BY <1>4, QuietStep
    <2>2. NextKey' = [kind |-> "appDeployment", mod |-> 1]
      BY <1>4, PhaseFacts DEF NextKey, Loops
    <2>3. sent # << >> => Abstract!Latest(sent) \in Request
      BY DEF RInv, IInv, TypeOK, Abstract!Latest
    <2>4. QED
      BY <1>2, <1>4, <2>1, <2>2, <2>3, PhaseFacts
         DEF OrderStep, EmptyBefore, InOrder, Abstract!Precedes, Abstract!Rank,
             Request, Kinds
  <1>5. QED
    BY <1>3, <1>4 DEF RegisterApplicationModules

(* The deployment loop, like the module loop, then the interface loop.     *)
LEMMA DeploymentsOrder ==
    ASSUME RInv, RegisterApplicationDeployments
    PROVE  OrderStep
  <1>1. NextKey = [kind |-> "appDeployment", mod |-> i]
    BY PhaseFacts DEF RegisterApplicationDeployments, NextKey, Loops
  <1>2. sent = << >> \/ Abstract!Precedes(Abstract!Latest(sent),
                                          [kind |-> "appDeployment", mod |-> i])
    BY <1>1, PhaseFacts DEF RegisterApplicationDeployments, RInv, InOrder
  <1>3. CASE /\ i \in Modules
             /\ \E o \in Outcomes(conn) :
                   /\ Rpc("appDeployment", i,
                          {Ref("gateway", gatewayId, 0),
                           Ref("appModule", moduleId[i], i),
                           Ref("computeResource", localhostId, 0)}, o)
                   /\ IF o = "ok" THEN /\ i' = i + 1
                                       /\ UNCHANGED pc
                                  ELSE /\ i' = 1
                                       /\ pc' = "registerApplicationInterfaces"
    <2> DEFINE refs == {Ref("gateway", gatewayId, 0),
                        Ref("appModule", moduleId[i], i),
                        Ref("computeResource", localhostId, 0)}
    <2>1. PICK o \in Outcomes(conn) :
                   /\ Rpc("appDeployment", i, refs, o)
                   /\ IF o = "ok" THEN /\ i' = i + 1
                                       /\ UNCHANGED pc
                                  ELSE /\ i' = 1
                                       /\ pc' = "registerApplicationInterfaces"
      BY <1>3
    <2>2. \A f \in refs : f.id = NoId \/ f \in issued
      BY <1>3 DEF RInv, IInv, ClientIdsIssued, Ref
    <2>3. \/ NextKey' = [kind |-> "appDeployment", mod |-> i + 1]
          \/ NextKey' = [kind |-> "appInterface", mod |-> 1]
      BY <2>1, PhaseFacts DEF RegisterApplicationDeployments, NextKey, Loops
    <2>4. pc' \notin {"init", "registerAll", "registerGateway"}
      BY <2>1 DEF RegisterApplicationDeployments
    <2>5. i \in Nat
      BY <1>3 DEF Modules
    <2>6. QED
      BY <1>2, <2>1, <2>2, <2>3, <2>4, <2>5, RpcStep
         DEF OrderStep, Abstract!Precedes, Abstract!Rank
  <1>4. CASE /\ i \notin Modules
             /\ i' = 1
             /\ pc' = "registerApplicationInterfaces"
             /\ UNCHANGED <<conn, nextId, issued, sent>>
    <2>1. IdsBelow' /\ UNCHANGED <<sent, issued>>
      BY <1>4, QuietStep
    <2>2. NextKey' = [kind |-> "appInterface", mod |-> 1]
      BY <1>4, PhaseFacts DEF NextKey, Loops
    <2>3. sent # << >> => Abstract!Latest(sent) \in Request
      BY DEF RInv, IInv, TypeOK, Abstract!Latest
    <2>4. QED
      BY <1>2, <1>4, <2>1, <2>2, <2>3, PhaseFacts
         DEF OrderStep, EmptyBefore, InOrder, Abstract!Precedes, Abstract!Rank,
             Request, Kinds
  <1>5. QED
    BY <1>3, <1>4 DEF RegisterApplicationDeployments

(* Each interface request is for the module after the previous one.       *)
LEMMA InterfacesOrder ==
    ASSUME RInv, RegisterApplicationInterfaces
    PROVE  OrderStep
  <1> DEFINE refs == {Ref("gateway", gatewayId, 0), Ref("appModule", moduleId[i], i)}
  <1>1. i \in Modules
    BY DEF RegisterApplicationInterfaces
  <1>2. PICK o \in Outcomes(conn) : Rpc("appInterface", i, refs, o)
    BY DEF RegisterApplicationInterfaces
  <1>3. \A f \in refs : f.id = NoId \/ f \in issued
    BY <1>1 DEF RInv, IInv, ClientIdsIssued, Ref
  <1>4. NextKey = [kind |-> "appInterface", mod |-> i]
    BY PhaseFacts DEF RegisterApplicationInterfaces, NextKey, Loops
  <1>5. sent = << >> \/ Abstract!Precedes(Abstract!Latest(sent),
                                          [kind |-> "appInterface", mod |-> i])
    BY <1>4, PhaseFacts DEF RegisterApplicationInterfaces, RInv, InOrder
  <1>6. pc' = "registerApplicationInterfaces"
        /\ NextKey' = [kind |-> "appInterface", mod |-> i + 1]
    BY PhaseFacts DEF RegisterApplicationInterfaces, NextKey, Loops
  <1>7. i \in Nat
    BY <1>1 DEF Modules
  <1>8. QED
    BY <1>2, <1>3, <1>5, <1>6, <1>7, RpcStep
       DEF OrderStep, Abstract!Precedes, Abstract!Rank

(* transport->close() writes nothing and ends the sending.                 *)
LEMMA CloseOrder ==
    ASSUME RInv, CloseTransport
    PROVE  OrderStep
  <1>1. IdsBelow' /\ UNCHANGED <<sent, issued>>
    BY QuietStep DEF CloseTransport
  <1>2. pc' = "done" /\ pc' \notin Sending
    BY PhaseFacts DEF CloseTransport
  <1>3. QED
    BY <1>1, <1>2 DEF OrderStep, EmptyBefore, InOrder

(* Every step keeps RInv and is a step or a stutter of the abstraction.   *)
LEMMA NextRInv == RInv /\ [Next]_vars => RInv' /\ [Abstract!Next]_<<sent, issued>>
  <1> SUFFICES ASSUME RInv, [Next]_vars
               PROVE  RInv' /\ [Abstract!Next]_<<sent, issued>>
    OBVIOUS
  <1>1. IInv'
    BY NextIInv DEF RInv
  <1>2. CASE Next
    <2>1. OrderStep
      BY <1>2, LoadModulesOrder, OpenTransportOrder, GatewayOrder, ProfileOrder,
         ComputeResourceOrder, LocalSubmissionOrder, ModulesOrder,
         DeploymentsOrder, InterfacesOrder, CloseOrder DEF Next
    <2>2. QED
      BY <1>1, <2>1 DEF OrderStep, RInv
  <1>3. CASE UNCHANGED vars
    BY <1>1, <1>3 DEF vars, RInv, IdsBelow, EmptyBefore, InOrder, NextKey
  <1>4. QED
    BY <1>2, <1>3

(***************************************************************************)
(* Register.cpp's registerAll() implements the abstract registration       *)
(* protocol: its requests follow the fixed kind/module order with none    *)
(* repeated, carry only empty or stored identifiers, and each stores at   *)
(* most one fresh entity of its own kind and module, for every number of  *)
(* menu modules and every pattern of failed and half-delivered calls.     *)
(***************************************************************************)
THEOREM Refinement == Spec => Abstract!Spec
  <1>1. Init => Abstract!Init
    BY DEF Init, Abstract!Init
  <1>2. QED
    BY <1>1, InitRInv, NextRInv, PTL DEF Spec, Abstract!Spec

(* The property the register run checks, for every N.                      *)
THEOREM RegistrationImplemented == Spec => ImplementsRegistration
  BY Refinement DEF ImplementsRegistration

=============================================================================
