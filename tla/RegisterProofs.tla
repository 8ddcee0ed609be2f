--------------------------- MODULE RegisterProofs ---------------------------
(***************************************************************************)
(* Proofs about the registration driver (Register.tla): IInv, the          *)
(* conjunction of the type invariant, ClientIdsIssued and RefsIssued, is   *)
(* inductive, so every identifier Register.cpp sends names the entity the  *)
(* server generated it for, for every number N of menu modules.            *)
(***************************************************************************)
EXTENDS Register, TLAPS

(* What one Rpc step does to the request log and to the server's store.    *)
LEMMA RpcEffect ==
    ASSUME TypeOK,
           NEW k, NEW m, NEW refs, NEW o,
           Rpc(k, m, refs, o)
    PROVE  /\ Requests' = Requests \cup {[kind |-> k, mod |-> m, refs |-> refs]}
           /\ issued \subseteq issued'
           /\ Applied(o) => Ref(k, nextId, m) \in issued'
           /\ nextId' = IF Applied(o) THEN nextId + 1 ELSE nextId
  <1>1. sent' = Append(sent, [kind |-> k, mod |-> m, refs |-> refs])
    BY DEF Rpc
  <1>2. Requests' = Requests \cup {[kind |-> k, mod |-> m, refs |-> refs]}
    BY <1>1 DEF TypeOK, Requests
  <1>3. QED
    BY <1>2 DEF Rpc

(* A call's effect on an output parameter keeps it below the server's      *)
(* counter and naming the entity stored by that call.                      *)
LEMMA ReplyEffect ==
    ASSUME TypeOK,
           NEW k, NEW m, NEW refs, NEW o, NEW old \in 0..nextId - 1,
           Rpc(k, m, refs, o)
    PROVE  /\ Reply(o, old) \in 0..nextId' - 1
           /\ Reply(o, old) = old \/ Ref(k, Reply(o, old), m) \in issued'
  BY DEF Rpc, Reply, Applied, TypeOK

(* The request every Rpc step appends is well typed when its parts are.    *)
LEMMA RequestType ==
    ASSUME NEW k \in Kinds, NEW m \in 0..N,
           NEW refs \in SUBSET [kind : Kinds, id : Nat, mod : 0..N]
    PROVE  [kind |-> k, mod |-> m, refs |-> refs] \in Request
  BY DEF Request

(* Before main() runs nothing is stored and no id is held: IInv holds.     *)
LEMMA InitIInv == Init => IInv
  BY NAssumption DEF Init, IInv, TypeOK, ClientIdsIssued, RefsIssued,
                     Requests, Phases, Modules, NoId, Request

(* Steps that move only the control: pc, the iterator and the transport.  *)
LEMMA ControlStep ==
    ASSUME IInv,
           UNCHANGED <<gatewayId, localhostId, moduleId, nextId, issued, sent>>,
           pc' \in Phases, i' \in 1..N + 1,
           conn' \in {"none", "open", "broken", "closed"}
    PROVE  IInv'
  <1>1. TypeOK'
    BY DEF IInv, TypeOK
  <1>2. ClientIdsIssued'
    BY DEF IInv, ClientIdsIssued
  <1>3. RefsIssued'
    BY DEF IInv, RefsIssued, Requests
  <1>4. QED
    BY <1>1, <1>2, <1>3 DEF IInv

(***************************************************************************)
(* The step of an RPC preserves RefsIssued when the references it sends    *)
(* are empty or issued: the log grows by that request, the store only      *)
(* grows.                                                                  *)
(***************************************************************************)
LEMMA RefsStep ==
    ASSUME TypeOK, RefsIssued,
           NEW k, NEW m, NEW refs, NEW o,
           Rpc(k, m, refs, o),
           \A f \in refs : f.id = NoId \/ f \in issued
    PROVE  RefsIssued'
  <1>1. /\ Requests' = Requests \cup {[kind |-> k, mod |-> m, refs |-> refs]}
        /\ issued \subseteq issued'
    BY RpcEffect
  <1>2. QED
    BY <1>1 DEF RefsIssued

(* The type of everything an RPC step changes.                             *)
LEMMA RpcType ==
    ASSUME TypeOK,
           NEW k \in Kinds, NEW m \in 0..N,
           NEW refs \in SUBSET [kind : Kinds, id : Nat, mod : 0..N],
           NEW o \in Outcomes(conn),
           Rpc(k, m, refs, o)
    PROVE  /\ conn' \in {"none", "open", "broken", "closed"}
           /\ nextId' \in Nat \ {0}
           /\ nextId <= nextId'
           /\ issued' \subseteq [kind : Kinds, id : Nat \ {0}, mod : 0..N]
           /\ sent' \in Seq(Request)
  <1>1. [kind |-> k, mod |-> m, refs |-> refs] \in Request
    BY RequestType
  <1>2. sent' \in Seq(Request)
    BY <1>1 DEF Rpc, TypeOK
  <1>3. QED
    BY <1>2 DEF Rpc, TypeOK, Ref, Applied

(* Identifiers an RPC step does not touch stay in range and issued.        *)
LEMMA KeptIdIssued ==
    ASSUME TypeOK,
           NEW k, NEW m, NEW refs, NEW o,
           Rpc(k, m, refs, o),
           NEW kk, NEW mm, NEW id \in 0..nextId - 1,
           id = NoId \/ Ref(kk, id, mm) \in issued
    PROVE  /\ id \in 0..nextId' - 1
           /\ id = NoId \/ Ref(kk, id, mm) \in issued'
  BY RpcEffect DEF TypeOK

(***************************************************************************)
(* Any RPC step of the driver preserves IInv when the references it sends  *)
(* are empty or issued and each client identifier is either left alone or  *)
(* is the output parameter of this very call, of the matching kind.        *)
(***************************************************************************)
LEMMA ClientStep ==
    ASSUME IInv,
           NEW k \in Kinds, NEW m \in 0..N,
           NEW refs \in SUBSET [kind : Kinds, id : Nat, mod : 0..N],
           NEW o \in Outcomes(conn),
           Rpc(k, m, refs, o),
           \A f \in refs : f.id = NoId \/ f \in issued,
           pc' \in Phases, i' \in 1..N + 1,
           \/ gatewayId' = gatewayId
           \/ k = "gateway" /\ m = 0 /\ gatewayId' = Reply(o, gatewayId),
           \/ localhostId' = localhostId
           \/ k = "computeResource" /\ m = 0 /\ localhostId' = Reply(o, localhostId),
           \/ moduleId' = moduleId
           \/ /\ k = "appModule" /\ m \in Modules
              /\ moduleId' = [moduleId EXCEPT ![m] = Reply(o, moduleId[m])]
    PROVE  IInv'
  <1> USE DEF IInv
  <1>1. /\ conn' \in {"none", "open", "broken", "closed"}
        /\ nextId' \in Nat \ {0}
        /\ issued' \subseteq [kind : Kinds, id : Nat \ {0}, mod : 0..N]
        /\ sent' \in Seq(Request)
    BY RpcType
  <1>2. /\ gatewayId' \in 0..nextId' - 1
        /\ gatewayId' = NoId \/ Ref("gateway", gatewayId', 0) \in issued'
    <2>1. /\ gatewayId \in 0..nextId' - 1
          /\ gatewayId = NoId \/ Ref("gateway", gatewayId, 0) \in issued'
      BY KeptIdIssued DEF TypeOK, ClientIdsIssued
    <2>2. CASE gatewayId' = gatewayId
      BY <2>1, <2>2
    <2>3. CASE k = "gateway" /\ m = 0 /\ gatewayId' = Reply(o, gatewayId)
      <3>1. /\ Reply(o, gatewayId) \in 0..nextId' - 1
            /\ Reply(o, gatewayId) = gatewayId
               \/ Ref(k, Reply(o, gatewayId), m) \in issued'
        BY ReplyEffect DEF TypeOK
      <3>2. QED
        BY <2>1, <2>3, <3>1
    <2>4. QED
      BY <2>2, <2>3
  <1>3. /\ localhostId' \in 0..nextId' - 1
        /\ localhostId' = NoId \/ Ref("computeResource", localhostId', 0) \in issued'
    <2>1. /\ localhostId \in 0..nextId' - 1
          /\ localhostId = NoId \/ Ref("computeResource", localhostId, 0) \in issued'
      BY KeptIdIssued DEF TypeOK, ClientIdsIssued
    <2>2. CASE localhostId' = localhostId
      BY <2>1, <2>2
    <2>3. CASE k = "computeResource" /\ m = 0 /\ localhostId' = Reply(o, localhostId)
      <3>1. /\ Reply(o, localhostId) \in 0..nextId' - 1
            /\ Reply(o, localhostId) = localhostId
               \/ Ref(k, Reply(o, localhostId), m) \in issued'
        BY ReplyEffect DEF TypeOK
      <3>2. QED
        BY <2>1, <2>3, <3>1
    <2>4. QED
      BY <2>2, <2>3
  <1>4. ASSUME NEW mm \in Modules
        PROVE  /\ moduleId'[mm] \in 0..nextId' - 1
               /\ moduleId'[mm] = NoId \/ Ref("appModule", moduleId'[mm], mm) \in issued'
    <2>1. /\ moduleId[mm] \in 0..nextId' - 1
          /\ moduleId[mm] = NoId \/ Ref("appModule", moduleId[mm], mm) \in issued'
      BY KeptIdIssued DEF TypeOK, ClientIdsIssued
    <2>2. CASE moduleId' = moduleId
      BY <2>1, <2>2
    <2>3. CASE /\ k = "appModule" /\ m \in Modules
               /\ moduleId' = [moduleId EXCEPT ![m] = Reply(o, moduleId[m])]
      <3>1. CASE mm = m
        <4>1. /\ Reply(o, moduleId[m]) \in 0..nextId' - 1
              /\ Reply(o, moduleId[m]) = moduleId[m]
                 \/ Ref(k, Reply(o, moduleId[m]), m) \in issued'
          BY <2>3, ReplyEffect DEF TypeOK, Modules
        <4>2. moduleId'[mm] = Reply(o, moduleId[m])
          BY <2>3, <3>1 DEF TypeOK
        <4>3. QED
          BY <2>1, <2>3, <3>1, <4>1, <4>2
      <3>2. CASE mm # m
        BY <2>1, <2>3, <3>2 DEF TypeOK
      <3>3. QED
        BY <3>1, <3>2
    <2>4. QED
      BY <2>2, <2>3
  <1>5. moduleId' \in [Modules -> 0..nextId' - 1]
    <2>1. CASE moduleId' = moduleId
      BY <1>4, <2>1 DEF TypeOK
    <2>2. CASE /\ k = "appModule" /\ m \in Modules
               /\ moduleId' = [moduleId EXCEPT ![m] = Reply(o, moduleId[m])]
      <3>1. DOMAIN moduleId' = Modules
        BY <2>2 DEF TypeOK
      <3>2. QED
        BY <1>4, <3>1, <2>2
    <2>3. QED
      BY <2>1, <2>2
  <1>6. TypeOK'
    BY <1>1, <1>2, <1>3, <1>5 DEF TypeOK
  <1>7. ClientIdsIssued'
    BY <1>2, <1>3, <1>4 DEF ClientIdsIssued
  <1>8. RefsIssued'
    BY RefsStep
  <1>9. QED
    BY <1>6, <1>7, <1>8

(* registerGateway(): output parameter this->gatewayId.                    *)
LEMMA GatewayStep ==
    ASSUME IInv, RegisterGateway
    PROVE  IInv'
  <1>1. PICK o \in Outcomes(conn) : /\ Rpc("gateway", 0, {}, o)
                                    /\ gatewayId' = Reply(o, gatewayId)
    BY DEF RegisterGateway
  <1>2. QED
    BY <1>1, ClientStep, NAssumption
       DEF RegisterGateway, Kinds, Phases, IInv, TypeOK

(* registerGatewayProfile(): sends gatewayId and localhostId.              *)
LEMMA ProfileStep ==
    ASSUME IInv, RegisterGatewayProfile
    PROVE  IInv'
  <1> DEFINE refs == {Ref("gateway", gatewayId, 0),
                      Ref("computeResource", localhostId, 0)}
  <1>1. PICK o \in Outcomes(conn) : Rpc("gatewayProfile", 0, refs, o)
    BY DEF RegisterGatewayProfile
  <1>2. /\ refs \in SUBSET [kind : Kinds, id : Nat, mod : 0..N]
        /\ \A f \in refs : f.id = NoId \/ f \in issued
    BY NAssumption DEF IInv, TypeOK, ClientIdsIssued, Ref, Kinds
  <1>3. /\ pc' \in Phases /\ i' \in 1..N + 1
        /\ UNCHANGED <<gatewayId, localhostId, moduleId>>
    BY DEF RegisterGatewayProfile, Phases, IInv, TypeOK
  <1>4. "gatewayProfile" \in Kinds /\ 0 \in 0..N
    BY NAssumption DEF Kinds
  <1>5. QED
    BY <1>1, <1>2, <1>3, <1>4, ClientStep

(* registerLocalhost(), first call: output parameter localhostId.          *)
LEMMA ComputeResourceStep ==
    ASSUME IInv, RegisterComputeResource
    PROVE  IInv'
  <1>1. PICK o \in Outcomes(conn) :
           /\ Rpc("computeResource", 0, {}, o)
           /\ localhostId' = Reply(o, localhostId)
           /\ pc' = IF o = "ok" THEN "addLocalSubmission"
                                ELSE "registerApplicationModules"
    BY DEF RegisterComputeResource
  <1>2. QED
    BY <1>1, ClientStep, NAssumption
       DEF RegisterComputeResource, Kinds, Phases, IInv, TypeOK

(* registerLocalhost(), second call: sends localhostId.                    *)
LEMMA LocalSubmissionStep ==
    ASSUME IInv, AddLocalSubmission
    PROVE  IInv'
  <1> DEFINE refs == {Ref("computeResource", localhostId, 0)}
  <1>1. PICK o \in Outcomes(conn) : Rpc("localSubmission", 0, refs, o)
    BY DEF AddLocalSubmission
  <1>2. /\ refs \in SUBSET [kind : Kinds, id : Nat, mod : 0..N]
        /\ \A f \in refs : f.id = NoId \/ f \in issued
    BY NAssumption DEF IInv, TypeOK, ClientIdsIssued, Ref, Kinds
  <1>3. /\ pc' \in Phases /\ i' \in 1..N + 1
        /\ UNCHANGED <<gatewayId, localhostId, moduleId>>
    BY DEF AddLocalSubmission, Phases, IInv, TypeOK
  <1>4. "localSubmission" \in Kinds /\ 0 \in 0..N
    BY NAssumption DEF Kinds
  <1>5. QED
    BY <1>1, <1>2, <1>3, <1>4, ClientStep

(* registerApplicationModules(): output parameter it->moduleId.            *)
LEMMA ModulesStep ==
    ASSUME IInv, RegisterApplicationModules
    PROVE  IInv'
  <1>1. CASE /\ i \in Modules
             /\ \E o \in Outcomes(conn) :
                   /\ Rpc("appModule", i, {Ref("gateway", gatewayId, 0)}, o)
                   /\ moduleId' = [moduleId EXCEPT ![i] = Reply(o, @)]
                   /\ IF o = "ok" THEN /\ i' = i + 1
                                       /\ UNCHANGED pc
                                  ELSE /\ i' = 1
                                       /\ pc' = "registerApplicationDeployments"
    <2>1. PICK o \in Outcomes(conn) :
                   /\ Rpc("appModule", i, {Ref("gateway", gatewayId, 0)}, o)
                   /\ moduleId' = [moduleId EXCEPT ![i] = Reply(o, @)]
                   /\ IF o = "ok" THEN /\ i' = i + 1
                                       /\ UNCHANGED pc
                                  ELSE /\ i' = 1
                                       /\ pc' = "registerApplicationDeployments"
      BY <1>1
    <2>2. moduleId' = [moduleId EXCEPT ![i] = Reply(o, moduleId[i])]
      BY <2>1
    <2>3. /\ {Ref("gateway", gatewayId, 0)} \in SUBSET [kind : Kinds, id : Nat, mod : 0..N]
          /\ \A f \in {Ref("gateway", gatewayId, 0)} : f.id = NoId \/ f \in issued
      BY NAssumption DEF IInv, TypeOK, ClientIdsIssued, Ref, Kinds
    <2>4. /\ pc' \in Phases /\ i' \in 1..N + 1
          /\ UNCHANGED <<gatewayId, localhostId>>
      BY <1>1, <2>1, NAssumption DEF RegisterApplicationModules, Phases, IInv,
                                     TypeOK, Modules
    <2>5. "appModule" \in Kinds /\ i \in 0..N /\ i \in Modules
      BY <1>1, NAssumption DEF Kinds, Modules
    <2>6. QED
      BY <2>1, <2>2, <2>3, <2>4, <2>5, ClientStep
  <1>2. CASE /\ i \notin Modules
             /\ i' = 1
             /\ pc' = "registerApplicationDeployments"
             /\ UNCHANGED <<moduleId, conn, nextId, issued, sent>>
    BY <1>2, ControlStep, NAssumption
       DEF RegisterApplicationModules, Phases, IInv, TypeOK
  <1>3. QED
    BY <1>1, <1>2 DEF RegisterApplicationModules

(* registerApplicationDeployments(): sends gatewayId, it->moduleId and     *)
(* localhostId.                                                            *)
LEMMA DeploymentsStep ==
    ASSUME IInv, RegisterApplicationDeployments
    PROVE  IInv'
  <1>1. CASE /\ i \in Modules
             /\ \E o \in Outcomes(conn) :
                   /\ Rpc("appDeployment", i,
                          {Ref("gateway", gatewayId, 0),
                           Ref("appModule", moduleId[i], i),
                           Ref("computeResource", localhostId, 0)}, o)
                   /\ IF o = "ok" THEN /\ i' = i + 1
                                       /\ UNCHANGED pc
                                  ELSE /\ i' = 1
                                       /\ pc' = "registerApplicationInterfaces"
    <2> DEFINE refs == {Ref("gateway", gatewayId, 0),
                        Ref("appModule", moduleId[i], i),
                        Ref("computeResource", localhostId, 0)}
    <2>1. PICK o \in Outcomes(conn) :
                   /\ Rpc("appDeployment", i, refs, o)
                   /\ IF o = "ok" THEN /\ i' = i + 1
                                       /\ UNCHANGED pc
                                  ELSE /\ i' = 1
                                       /\ pc' = "registerApplicationInterfaces"
      BY <1>1
    <2>2. /\ refs \in SUBSET [kind : Kinds, id : Nat, mod : 0..N]
          /\ \A f \in refs : f.id = NoId \/ f \in issued
      BY <1>1, NAssumption DEF IInv, TypeOK, ClientIdsIssued, Ref, Kinds, Modules
    <2>3. /\ pc' \in Phases /\ i' \in 1..N + 1
          /\ UNCHANGED <<gatewayId, localhostId, moduleId>>
      BY <1>1, <2>1, NAssumption DEF RegisterApplicationDeployments, Phases,
                                     IInv, TypeOK, Modules
    <2>4. "appDeployment" \in Kinds /\ i \in 0..N
      BY <1>1, NAssumption DEF Kinds, Modules
    <2>5. QED
      BY <2>1, <2>2, <2>3, <2>4, ClientStep
  <1>2. CASE /\ i \notin Modules
             /\ i' = 1
             /\ pc' = "registerApplicationInterfaces"
             /\ UNCHANGED <<conn, nextId, issued, sent>>
    BY <1>2, ControlStep, NAssumption
       DEF RegisterApplicationDeployments, Phases, IInv, TypeOK
  <1>3. QED
    BY <1>1, <1>2 DEF RegisterApplicationDeployments

(* registerApplicationInterfaces(): sends gatewayId and it->moduleId.      *)
LEMMA InterfacesStep ==
    ASSUME IInv, RegisterApplicationInterfaces
    PROVE  IInv'
  <1> DEFINE refs == {Ref("gateway", gatewayId, 0), Ref("appModule", moduleId[i], i)}
  <1>1. i \in Modules
    BY DEF RegisterApplicationInterfaces
  <1>2. PICK o \in Outcomes(conn) : Rpc("appInterface", i, refs, o)
    BY DEF RegisterApplicationInterfaces
  <1>3. /\ refs \in SUBSET [kind : Kinds, id : Nat, mod : 0..N]
        /\ \A f \in refs : f.id = NoId \/ f \in issued
    BY <1>1, NAssumption DEF IInv, TypeOK, ClientIdsIssued, Ref, Kinds, Modules
  <1>4. /\ pc' \in Phases /\ i' \in 1..N + 1
        /\ UNCHANGED <<gatewayId, localhostId, moduleId>>
    BY <1>1, NAssumption DEF RegisterApplicationInterfaces, Phases, IInv,
                             TypeOK, Modules
  <1>5. "appInterface" \in Kinds /\ i \in 0..N
    BY <1>1, NAssumption DEF Kinds, Modules
  <1>6. QED
    BY <1>2, <1>3, <1>4, <1>5, ClientStep

(* Every statement group of the driver, and a stutter, preserves IInv.    *)
LEMMA NextIInv == IInv /\ [Next]_vars => IInv'
  <1> SUFFICES ASSUME IInv, [Next]_vars
               PROVE  IInv'
    OBVIOUS
  <1>1. CASE LoadModules
    BY <1>1, ControlStep DEF LoadModules, Phases, IInv, TypeOK
  <1>2. CASE OpenTransport
    BY <1>2, ControlStep DEF OpenTransport, Phases, IInv, TypeOK
  <1>3. CASE RegisterGateway
    BY <1>3, GatewayStep
  <1>4. CASE RegisterGatewayProfile
    BY <1>4, ProfileStep
  <1>5. CASE RegisterComputeResource
    BY <1>5, ComputeResourceStep
  <1>6. CASE AddLocalSubmission
    BY <1>6, LocalSubmissionStep
  <1>7. CASE RegisterApplicationModules
    BY <1>7, ModulesStep
  <1>8. CASE RegisterApplicationDeployments
    BY <1>8, DeploymentsStep
  <1>9. CASE RegisterApplicationInterfaces
    BY <1>9, InterfacesStep
  <1>10. CASE CloseTransport
    BY <1>10, ControlStep DEF CloseTransport, Phases, IInv, TypeOK
  <1>11. CASE UNCHANGED vars
    BY <1>11 DEF vars, IInv, TypeOK, ClientIdsIssued, RefsIssued, Requests
  <1>12. QED
    BY <1>1, <1>2, <1>3, <1>4, <1>5, <1>6, <1>7, <1>8, <1>9, <1>10, <1>11
       DEF Next

(* IInv holds in every state of every behaviour of the driver.             *)
THEOREM IInvariant == Spec => []IInv
  BY InitIInv, NextIInv, PTL DEF Spec

(***************************************************************************)
(* Type correctness of Register.cpp's state: the identifiers it holds are  *)
(* empty or below the server's counter, the iterator stays within          *)
(* genapp_modules, and every logged request is well formed.                *)
(***************************************************************************)
THEOREM TypeCorrect == Spec => []TypeOK
  BY IInvariant, PTL DEF IInv

(***************************************************************************)
(* No request of Register.cpp carries an identifier other than the empty   *)
(* one or the one the server generated for the entity the field names, for *)
(* every number of menu modules and every pattern of failed, rejected and  *)
(* half-delivered calls.                                                   *)
(***************************************************************************)
THEOREM RefsSafe == Spec => []RefsIssued
  BY IInvariant, PTL DEF IInv

-----------------------------------------------------------------------------
(* The modules for which an interface request has been written.           *)
InterfacesSent == {r.mod : r \in {q \in Requests : q.kind = "appInterface"}}

(***************************************************************************)
(* The strengthening of InterfaceForEveryModule: inside the interface      *)
(* loop an interface request has been written for every module before the  *)
(* iterator; after the loop, for every module.                             *)
(***************************************************************************)
LoopInv ==
    /\ pc = "registerApplicationInterfaces" => 1..i - 1 \subseteq InterfacesSent
    /\ pc = "done" => Modules \subseteq InterfacesSent

(* Before main() runs no loop has been entered.                            *)
LEMMA InitLoopInv == Init => LoopInv
  BY DEF Init, LoopInv

(* Every step keeps LoopInv.                                               *)
LEMMA NextLoopInv == IInv /\ LoopInv /\ [Next]_vars => LoopInv'
  <1> SUFFICES ASSUME IInv, LoopInv, [Next]_vars
               PROVE  LoopInv'
    OBVIOUS
  <1>1. CASE RegisterApplicationInterfaces
    <2> DEFINE refs == {Ref("gateway", gatewayId, 0),
                        Ref("appModule", moduleId[i], i)}
    <2>1. PICK o \in Outcomes(conn) : Rpc("appInterface", i, refs, o)
      BY <1>1 DEF RegisterApplicationInterfaces
    <2>2. TypeOK
      BY DEF IInv
    <2>3. Requests' = Requests \cup {[kind |-> "appInterface", mod |-> i, refs |-> refs]}
      BY <2>1, <2>2, RpcEffect
    <2>4. InterfacesSent \cup {i} \subseteq InterfacesSent'
      <3>1. i \in InterfacesSent'
        <4>1. [kind |-> "appInterface", mod |-> i, refs |-> refs]
                \in {q \in Requests' : q.kind = "appInterface"}
          BY <2>3
        <4>2. QED
          BY <4>1 DEF InterfacesSent
      <3>2. InterfacesSent \subseteq InterfacesSent'
        BY <2>3 DEF InterfacesSent
      <3>3. QED
        BY <3>1, <3>2
    <2>5. pc' = "registerApplicationInterfaces" /\ i' = i + 1 /\ i \in Nat
      BY <1>1 DEF RegisterApplicationInterfaces, Modules
    <2>6. 1..i - 1 \subseteq InterfacesSent
      BY <1>1 DEF LoopInv, RegisterApplicationInterfaces
    <2>7. QED
      BY <2>4, <2>5, <2>6 DEF LoopInv
  <1>2. CASE CloseTransport
    <2>1. i = N + 1
      BY <1>2, NAssumption DEF CloseTransport, IInv, TypeOK, Modules
    <2>2. UNCHANGED sent /\ pc' = "done"
      BY <1>2 DEF CloseTransport
    <2>3. InterfacesSent' = InterfacesSent
      BY <2>2 DEF InterfacesSent, Requests
    <2>4. Modules \subseteq InterfacesSent
      <3>1. 1..i - 1 \subseteq InterfacesSent
        BY <1>2 DEF LoopInv, CloseTransport
      <3>2. 1..i - 1 = Modules
        BY <2>1, NAssumption DEF Modules
      <3>3. QED
        BY <3>1, <3>2
    <2>5. QED
      BY <2>2, <2>3, <2>4 DEF LoopInv
  <1>3. CASE RegisterApplicationDeployments
    BY <1>3 DEF RegisterApplicationDeployments, LoopInv
  <1>4. CASE \/ LoadModules \/ OpenTransport \/ RegisterGateway
             \/ RegisterGatewayProfile \/ RegisterComputeResource
             \/ AddLocalSubmission \/ RegisterApplicationModules
    BY <1>4 DEF LoadModules, OpenTransport, RegisterGateway,
                RegisterGatewayProfile, RegisterComputeResource,
                AddLocalSubmission, RegisterApplicationModules, LoopInv
  <1>5. CASE UNCHANGED vars
    BY <1>5 DEF vars, LoopInv, InterfacesSent, Requests
  <1>6. QED
    BY <1>1, <1>2, <1>3, <1>4, <1>5 DEF Next

(* Within a run, an attempted interface is one whose module is in the set. *)
LEMMA AttemptedInterface ==
    ASSUME NEW m, m \in InterfacesSent
    PROVE  Attempted("appInterface", m)
  BY DEF InterfacesSent, Attempted

(***************************************************************************)
(* Whenever registerAll() returns normally, an interface registration has  *)
(* been attempted for every module of menu.json, whatever failed before:  *)
(* the try inside registerApplicationInterface() isolates each module.    *)
(***************************************************************************)
THEOREM InterfacesAttempted == Spec => []InterfaceForEveryModule
  <1>1. Init => IInv /\ LoopInv
    BY InitIInv, InitLoopInv
  <1>2. IInv /\ LoopInv /\ [Next]_vars => (IInv /\ LoopInv)'
    BY NextIInv, NextLoopInv
  <1>3. IInv /\ LoopInv => InterfaceForEveryModule
    BY AttemptedInterface DEF LoopInv, InterfaceForEveryModule
  <1>4. QED
    BY <1>1, <1>2, <1>3, PTL DEF Spec

=============================================================================
