-------------------------- MODULE RegisterMembers --------------------------
(***************************************************************************)
(* Proofs that the registration driver (Register.tla) names each entity by *)
(* one identifier across all its requests (ConsistentRefs), and never      *)
(* overwrites an identifier it holds (MembersKept), for every number N of  *)
(* menu modules.                                                           *)
(*                                                                         *)
(* The argument: every non-empty reference a request carries equals the   *)
(* member it was read from, as that member is now (RefsAreMembers); this   *)
(* stays true because a member is filled only while it is still empty      *)
(* (Unfilled), by the one call of its phase.                               *)
(***************************************************************************)
EXTENDS RegisterProofs

(* The member a reference of the driver is read from.                      *)
Member(f) == [gateway         |-> gatewayId,
              computeResource |-> localhostId,
              appModule       |-> moduleId[f.mod]][f.kind]

(* The driver's references name a gateway, the compute resource or a       *)
(* module entry, and a non-empty one holds the current value of its member. *)
RefsAreMembers ==
    \A r \in Requests : \A f \in r.refs :
        /\ f.kind \in {"gateway", "computeResource", "appModule"}
        /\ f.kind = "appModule" => f.mod \in Modules
        /\ f.id # NoId => f.id = Member(f)

(* The phases before the call that fills each member.                      *)
BeforeGateway == {"init", "registerAll", "registerGateway"}
BeforeResource == BeforeGateway \cup {"registerGatewayProfile",
                                      "registerComputeResource"}
BeforeModules == BeforeResource \cup {"addLocalSubmission"}

(* A member is empty until the phase of its call, and the module loop      *)
(* has not yet reached the entries from i on.                              *)
Unfilled ==
    /\ pc \in BeforeGateway => gatewayId = NoId
    /\ pc \in BeforeResource => localhostId = NoId
    /\ \A m \in Modules :
          (pc \in BeforeModules \/ (pc = "registerApplicationModules" /\ m >= i))
              => moduleId[m] = NoId

MInv == IInv /\ RefsAreMembers /\ Unfilled

(* The step form of MembersKept.                                           *)
KeptStep ==
    /\ gatewayId # NoId => gatewayId' = gatewayId
    /\ localhostId # NoId => localhostId' = localhostId
    /\ \A m \in Modules : moduleId[m] # NoId => moduleId'[m] = moduleId[m]

-----------------------------------------------------------------------------
(* A step that moves neither a member nor the log keeps RefsAreMembers.    *)
LEMMA QuietMembers ==
    ASSUME RefsAreMembers, UNCHANGED <<gatewayId, localhostId, moduleId, sent>>
    PROVE  RefsAreMembers' /\ KeptStep
  BY DEF RefsAreMembers, Requests, Member, KeptStep

(***************************************************************************)
(* An RPC step keeps RefsAreMembers when it refills no member that holds   *)
(* an id and each reference it sends is read from a member that the step  *)
(* leaves with that value.                                                 *)
(***************************************************************************)
LEMMA RefsKept ==
    ASSUME TypeOK, RefsAreMembers, KeptStep,
           NEW k, NEW m, NEW refs, NEW o, Rpc(k, m, refs, o),
           \A f \in refs :
              /\ f.kind \in {"gateway", "computeResource", "appModule"}
              /\ f.kind = "appModule" => f.mod \in Modules
              /\ f.id # NoId => f.id = Member(f)'
    PROVE  RefsAreMembers'
  <1>1. Requests' = Requests \cup {[kind |-> k, mod |-> m, refs |-> refs]}
    BY RpcEffect
  <1>2. ASSUME NEW r \in Requests, NEW f \in r.refs
        PROVE  /\ f.kind \in {"gateway", "computeResource", "appModule"}
               /\ f.kind = "appModule" => f.mod \in Modules
               /\ f.id # NoId => f.id = Member(f)'
    <2>1. /\ f.kind \in {"gateway", "computeResource", "appModule"}
          /\ f.kind = "appModule" => f.mod \in Modules
          /\ f.id # NoId => f.id = Member(f)
      BY DEF RefsAreMembers
    <2>2. f.id # NoId => Member(f)' = Member(f)
      BY <2>1 DEF KeptStep, Member
    <2>3. QED
      BY <2>1, <2>2
  <1>3. QED
    BY <1>1, <1>2 DEF RefsAreMembers

(* What every step of the driver must establish, besides IInv'.            *)
StepGoal == RefsAreMembers' /\ Unfilled' /\ KeptStep

(* init(), transport->open() and transport->close() touch no member.      *)
LEMMA ControlMembers ==
    ASSUME MInv, LoadModules \/ OpenTransport \/ CloseTransport
    PROVE  StepGoal
  <1>1. /\ UNCHANGED <<gatewayId, localhostId, moduleId, sent, i>>
        /\ pc' \in {"registerAll", "registerGateway", "aborted", "done"}
        /\ pc' \in BeforeGateway => pc \in BeforeGateway
    BY DEF LoadModules, OpenTransport, CloseTransport, BeforeGateway
  <1>2. RefsAreMembers' /\ KeptStep
    BY <1>1, QuietMembers DEF MInv
  <1>3. Unfilled'
    BY <1>1 DEF MInv, Unfilled, BeforeGateway, BeforeResource, BeforeModules
  <1>4. QED
    BY <1>2, <1>3 DEF StepGoal

(* registerGateway() fills gatewayId, which is still empty.               *)
LEMMA GatewayMembers ==
    ASSUME MInv, RegisterGateway
    PROVE  StepGoal
  <1>1. PICK o \in Outcomes(conn) :
             /\ Rpc("gateway", 0, {}, o)
             /\ gatewayId' = Reply(o, gatewayId)
    BY DEF RegisterGateway
  <1>2. /\ gatewayId = NoId /\ localhostId = NoId
        /\ \A m \in Modules : moduleId[m] = NoId
    BY DEF MInv, Unfilled, RegisterGateway, BeforeGateway, BeforeResource,
           BeforeModules
  <1>3. KeptStep
    BY <1>2 DEF RegisterGateway, KeptStep
  <1>4. RefsAreMembers'
    BY <1>1, <1>3, RefsKept DEF MInv, IInv
  <1>5. Unfilled'
    BY <1>2 DEF RegisterGateway, Unfilled, BeforeGateway, BeforeResource,
                BeforeModules
  <1>6. QED
    BY <1>3, <1>4, <1>5 DEF StepGoal

(* registerGatewayProfile() reads gatewayId and localhostId.              *)
LEMMA ProfileMembers ==
    ASSUME MInv, RegisterGatewayProfile
    PROVE  StepGoal
  <1> DEFINE refs == {Ref("gateway", gatewayId, 0),
                      Ref("computeResource", localhostId, 0)}
  <1>1. PICK o \in Outcomes(conn) : Rpc("gatewayProfile", 0, refs, o)
    BY DEF RegisterGatewayProfile
  <1>2. UNCHANGED <<gatewayId, localhostId, moduleId, i>>
        /\ pc' = "registerComputeResource"
    BY DEF RegisterGatewayProfile
  <1>3. KeptStep
    BY <1>2 DEF KeptStep
  <1>4. \A f \in refs :
           /\ f.kind \in {"gateway", "computeResource", "appModule"}
           /\ f.kind = "appModule" => f.mod \in Modules
           /\ f.id # NoId => f.id = Member(f)'
    BY <1>2 DEF Ref, Member
  <1>5. RefsAreMembers'
    BY <1>1, <1>3, <1>4, RefsKept DEF MInv, IInv
  <1>6. Unfilled'
    BY <1>2 DEF MInv, Unfilled, RegisterGatewayProfile, BeforeGateway,
                BeforeResource, BeforeModules
  <1>7. QED
    BY <1>3, <1>5, <1>6 DEF StepGoal

(* registerComputeResource() fills localhostId, which is still empty.     *)
LEMMA ComputeResourceMembers ==
    ASSUME MInv, RegisterComputeResource
    PROVE  StepGoal
  <1>1. PICK o \in Outcomes(conn) :
             /\ Rpc("computeResource", 0, {}, o)
             /\ localhostId' = Reply(o, localhostId)
             /\ pc' = IF o = "ok" THEN "addLocalSubmission"
                                  ELSE "registerApplicationModules"
    BY DEF RegisterComputeResource
  <1>2. /\ localhostId = NoId
        /\ \A m \in Modules : moduleId[m] = NoId
        /\ UNCHANGED <<gatewayId, moduleId>> /\ i' = 1
    BY DEF MInv, Unfilled, RegisterComputeResource, BeforeResource,
           BeforeModules
  <1>3. KeptStep
    BY <1>2 DEF KeptStep
  <1>4. RefsAreMembers'
    BY <1>1, <1>3, RefsKept DEF MInv, IInv
  <1>5. Unfilled'
    BY <1>1, <1>2 DEF Unfilled, BeforeGateway, BeforeResource, BeforeModules
  <1>6. QED
    BY <1>3, <1>4, <1>5 DEF StepGoal

(* addLocalSubmissionDetails() reads localhostId and fills no member.      *)
LEMMA LocalSubmissionMembers ==
    ASSUME MInv, AddLocalSubmission
    PROVE  StepGoal
  <1> DEFINE refs == {Ref("computeResource", localhostId, 0)}
  <1>1. PICK o \in Outcomes(conn) : Rpc("localSubmission", 0, refs, o)
    BY DEF AddLocalSubmission
  <1>2. /\ UNCHANGED <<gatewayId, localhostId, moduleId, i>>
        /\ pc' = "registerApplicationModules"
        /\ \A m \in Modules : moduleId[m] = NoId
    BY DEF MInv, Unfilled, AddLocalSubmission, BeforeModules, BeforeResource,
           BeforeGateway
  <1>3. KeptStep
    BY <1>2 DEF KeptStep
  <1>4. \A f \in refs :
           /\ f.kind \in {"gateway", "computeResource", "appModule"}
           /\ f.kind = "appModule" => f.mod \in Modules
           /\ f.id # NoId => f.id = Member(f)'
    BY <1>2 DEF Ref, Member
  <1>5. RefsAreMembers'
    BY <1>1, <1>3, <1>4, RefsKept DEF MInv, IInv
  <1>6. Unfilled'
    BY <1>2 DEF Unfilled, BeforeGateway, BeforeResource, BeforeModules
  <1>7. QED
    BY <1>3, <1>5, <1>6 DEF StepGoal

(***************************************************************************)
(* registerApplicationModules() fills it->moduleId for the entry i, which *)
(* the loop has not reached before, and moves on to i + 1.                *)
(***************************************************************************)
LEMMA ModulesMembers ==
    ASSUME MInv, RegisterApplicationModules
    PROVE  StepGoal
  <1>1. CASE /\ i \in Modules
             /\ \E o \in Outcomes(conn) :
                   /\ Rpc("appModule", i, {Ref("gateway", gatewayId, 0)}, o)
                   /\ moduleId' = [moduleId EXCEPT ![i] = Reply(o, @)]
                   /\ IF o = "ok" THEN /\ i' = i + 1
                                       /\ UNCHANGED pc
                                  ELSE /\ i' = 1
                                       /\ pc' = "registerApplicationDeployments"
    <2> DEFINE refs == {Ref("gateway", gatewayId, 0)}
    <2>1. PICK o \in Outcomes(conn) :
                   /\ Rpc("appModule", i, refs, o)
                   /\ moduleId' = [moduleId EXCEPT ![i] = Reply(o, @)]
                   /\ IF o = "ok" THEN /\ i' = i + 1
                                       /\ UNCHANGED pc
                                  ELSE /\ i' = 1
                                       /\ pc' = "registerApplicationDeployments"
      BY <1>1
    <2>2. /\ moduleId \in [Modules -> Nat]
          /\ i \in Nat
          /\ moduleId[i] = NoId
          /\ UNCHANGED <<gatewayId, localhostId>>
      BY <1>1 DEF MInv, IInv, TypeOK, Unfilled, RegisterApplicationModules,
                  Modules
    <2>3. \A m \in Modules : moduleId'[m] = IF m = i THEN Reply(o, NoId)
                                                    ELSE moduleId[m]
      BY <1>1, <2>1, <2>2
    <2>4. KeptStep
      BY <2>2, <2>3 DEF KeptStep
    <2>5. \A f \in refs :
             /\ f.kind \in {"gateway", "computeResource", "appModule"}
             /\ f.kind = "appModule" => f.mod \in Modules
             /\ f.id # NoId => f.id = Member(f)'
      BY <2>2 DEF Ref, Member
    <2>6. RefsAreMembers'
      BY <2>1, <2>4, <2>5, RefsKept DEF MInv, IInv
    <2>7. Unfilled'
      <3>1. CASE o = "ok"
        <4>1. pc' = "registerApplicationModules" /\ i' = i + 1
          BY <2>1, <3>1 DEF RegisterApplicationModules
        <4>2. \A m \in Modules : m >= i + 1 => moduleId'[m] = NoId
          BY <2>2, <2>3 DEF MInv, Unfilled, RegisterApplicationModules, Modules
        <4>3. QED
          BY <4>1, <4>2 DEF Unfilled, BeforeGateway, BeforeResource,
                            BeforeModules
      <3>2. CASE o # "ok"
        BY <2>1, <3>2 DEF Unfilled, BeforeGateway, BeforeResource,
                          BeforeModules
      <3>3. QED
        BY <3>1, <3>2
    <2>8. QED
      BY <2>4, <2>6, <2>7 DEF StepGoal
  <1>2. CASE /\ i \notin Modules
             /\ i' = 1
             /\ pc' = "registerApplicationDeployments"
             /\ UNCHANGED <<moduleId, conn, nextId, issued, sent>>
    <2>1. UNCHANGED <<gatewayId, localhostId>>
      BY DEF RegisterApplicationModules
    <2>2. RefsAreMembers' /\ KeptStep
      BY <1>2, <2>1, QuietMembers DEF MInv
    <2>3. Unfilled'
      BY <1>2 DEF Unfilled, BeforeGateway, BeforeResource, BeforeModules
    <2>4. QED
      BY <2>2, <2>3 DEF StepGoal
  <1>3. QED
    BY <1>1, <1>2 DEF RegisterApplicationModules

(* registerApplicationDeployments() reads all three kinds of member.       *)
LEMMA DeploymentsMembers ==
    ASSUME MInv, RegisterApplicationDeployments
    PROVE  StepGoal
  <1>1. /\ UNCHANGED <<gatewayId, localhostId, moduleId>>
        /\ pc' \in {"registerApplicationDeployments",
                    "registerApplicationInterfaces"}
    BY DEF RegisterApplicationDeployments
  <1>2. KeptStep
    BY <1>1 DEF KeptStep
  <1>3. Unfilled'
    BY <1>1 DEF Unfilled, BeforeGateway, BeforeResource, BeforeModules
  <1>4. RefsAreMembers'
    <2>1. CASE /\ i \in Modules
               /\ \E o \in Outcomes(conn) :
                    Rpc("appDeployment", i,
                        {Ref("gateway", gatewayId, 0),
                         Ref("appModule", moduleId[i], i),
                         Ref("computeResource", localhostId, 0)}, o)
      <3> DEFINE refs == {Ref("gateway", gatewayId, 0),
                          Ref("appModule", moduleId[i], i),
                          Ref("computeResource", localhostId, 0)}
      <3>1. PICK o \in Outcomes(conn) : Rpc("appDeployment", i, refs, o)
        BY <2>1
      <3>2. \A f \in refs :
               /\ f.kind \in {"gateway", "computeResource", "appModule"}
               /\ f.kind = "appModule" => f.mod \in Modules
               /\ f.id # NoId => f.id = Member(f)'
        BY <1>1, <2>1 DEF Ref, Member
      <3>3. QED
        BY <1>2, <3>1, <3>2, RefsKept DEF MInv, IInv
    <2>2. CASE /\ i \notin Modules
               /\ UNCHANGED sent
      BY <1>1, <2>2, QuietMembers DEF MInv
    <2>3. QED
      BY <2>1, <2>2 DEF RegisterApplicationDeployments
  <1>5. QED
    BY <1>2, <1>3, <1>4 DEF StepGoal

(* registerApplicationInterfaces() reads gatewayId and it->moduleId.        *)
LEMMA InterfacesMembers ==
    ASSUME MInv, RegisterApplicationInterfaces
    PROVE  StepGoal
  <1> DEFINE refs == {Ref("gateway", gatewayId, 0),
                      Ref("appModule", moduleId[i], i)}
  <1>1. /\ UNCHANGED <<gatewayId, localhostId, moduleId, pc>>
        /\ pc = "registerApplicationInterfaces"
        /\ i \in Modules
    BY DEF RegisterApplicationInterfaces
  <1>2. PICK o \in Outcomes(conn) : Rpc("appInterface", i, refs, o)
    BY DEF RegisterApplicationInterfaces
  <1>3. KeptStep
    BY <1>1 DEF KeptStep
  <1>4. \A f \in refs :
           /\ f.kind \in {"gateway", "computeResource", "appModule"}
           /\ f.kind = "appModule" => f.mod \in Modules
           /\ f.id # NoId => f.id = Member(f)'
    BY <1>1 DEF Ref, Member
  <1>5. RefsAreMembers'
    BY <1>2, <1>3, <1>4, RefsKept DEF MInv, IInv
  <1>6. Unfilled'
    BY <1>1 DEF Unfilled, BeforeGateway, BeforeResource, BeforeModules
  <1>7. QED
    BY <1>3, <1>5, <1>6 DEF StepGoal

(* Every step, and a stutter, keeps MInv and refills no held identifier.  *)
LEMMA NextMInv == MInv /\ [Next]_vars => MInv' /\ KeptStep
  <1> SUFFICES ASSUME MInv, [Next]_vars
               PROVE  MInv' /\ KeptStep
    OBVIOUS
  <1>1. IInv'
    BY NextIInv DEF MInv
  <1>2. StepGoal
    <2>1. CASE UNCHANGED vars
      <3>1. RefsAreMembers' /\ KeptStep
        BY <2>1, QuietMembers DEF vars, MInv
      <3>2. Unfilled'
        BY <2>1 DEF vars, MInv, Unfilled
      <3>3. QED
        BY <3>1, <3>2 DEF StepGoal
    <2>2. QED
      BY <2>1, ControlMembers, GatewayMembers, ProfileMembers,
         ComputeResourceMembers, LocalSubmissionMembers, ModulesMembers,
         DeploymentsMembers, InterfacesMembers DEF Next
  <1>3. QED
    BY <1>1, <1>2 DEF MInv, StepGoal

LEMMA InitMInv == Init => MInv
  BY InitIInv DEF Init, MInv, RefsAreMembers, Requests, Unfilled

(* MInv holds in every state of every run, for every number of modules.   *)
THEOREM MembersInvariant == Spec => []MInv
  BY InitMInv, NextMInv, PTL DEF Spec

(***************************************************************************)
(* ConsistentRefs: over a whole run of registerAll(), every reference to  *)
(* the gateway, the localhost resource or a module entry carries one and  *)
(* the same identifier whenever it is not empty.                          *)
(***************************************************************************)
THEOREM RefsConsistent == Spec => []ConsistentRefs
  <1>1. RefsAreMembers => ConsistentRefs
    BY DEF RefsAreMembers, ConsistentRefs, Member
  <1>2. QED
    BY <1>1, MembersInvariant, PTL DEF MInv

(***************************************************************************)
(* MembersKept: no step of the driver overwrites an identifier held in     *)
(* gatewayId, localhostId or an it->moduleId.                              *)
(***************************************************************************)
THEOREM IdsKept == Spec => MembersKept
  <1>1. MInv /\ [Next]_vars => [KeptStep]_vars
    BY NextMInv
  <1>2. QED
    BY <1>1, MembersInvariant, PTL DEF Spec, MembersKept, KeptStep

=============================================================================
