----------------------- MODULE ExperimentClientProofs -----------------------
(***************************************************************************)
(* Proofs about one invocation of an experiment client                    *)
(* (ExperimentClient.tla): type correctness, at most one RPC, the quote   *)
(* strip of the host (from StripQuotesCorrect of HostStringProofs), and   *)
(* the order of the printed outputs, for every bound on the host length   *)
(* and the output list and every set of output values.                    *)
(***************************************************************************)
EXTENDS ExperimentClient, HostStringProofs

(***************************************************************************)
(* The inductive invariant.  Besides the two properties: a process that *)
(* is still running has printed nothing and has issued no RPC before the   *)
(* call, and holds a reply its signature allows when it prints.            *)
(***************************************************************************)
CInv ==
    /\ TypeOK
    /\ StripCorrect
    /\ status = "running" => printed = << >>
    /\ pc \in {"readConfig", "strip", "open", "checkArgs", "build"} => rpcs = 0
    /\ pc = "call" /\ status = "running" => rpcs = 0
    /\ pc = "print" => reply \in Replies(prog)

(* A configured host is a string of quotes and letters within the bound.  *)
LEMMA HostValuesSeq ==
    ASSUME NEW c \in HostValues
    PROVE  c \in Seq({Quote, Letter}) /\ Len(c) <= MaxHostLen
  <1>1. PICK n \in 0..MaxHostLen : c \in [1..n -> {Quote, Letter}]
    BY DEF HostValues
  <1>2. c \in Seq({Quote, Letter}) /\ Len(c) = n
    BY <1>1, ClientAssumption
  <1>3. QED
    BY <1>1, <1>2

(* A string of quotes and letters within the bound is a configured host.  *)
LEMMA SeqHostValues ==
    ASSUME NEW t \in Seq({Quote, Letter}), Len(t) <= MaxHostLen
    PROVE  t \in HostValues
  <1>1. t \in [1..Len(t) -> {Quote, Letter}] /\ Len(t) \in 0..MaxHostLen
    BY LenProperties
  <1>2. QED
    BY <1>1 DEF HostValues

(* The helpers' hard-coded host is within the bound.                       *)
LEMMA HelperHostValue == HelperHost \in HostValues
  <1>1. HelperHost \in Seq({Quote, Letter}) /\ Len(HelperHost) = 3
    BY DEF HelperHost
  <1>2. QED
    BY <1>1, SeqHostValues, ClientAssumption

(***************************************************************************)
(* The two erase calls on a configured host: they succeed exactly when it *)
(* has two characters or more, leaving the inner substring, which is a    *)
(* configured host again.                                                  *)
(***************************************************************************)
LEMMA StripHost ==
    ASSUME NEW c \in HostValues
    PROVE  /\ StripQuotes(c).ok <=> Len(c) >= 2
           /\ StripQuotes(c).ok =>
                 /\ StripQuotes(c).val = SubSeq(c, 2, Len(c) - 1)
                 /\ StripQuotes(c).val \in HostValues
  <1>1. c \in Seq({Quote, Letter}) /\ Len(c) <= MaxHostLen
    BY HostValuesSeq
  <1>2. Len(c) <= SizeT
    BY <1>1, ClientAssumption, SizeTAssumption
  <1>3. StripQuotes(c) = IF Len(c) >= 2 THEN Ok(SubSeq(c, 2, Len(c) - 1))
                                         ELSE OutOfRange
    BY <1>1, <1>2, StripQuotesCorrect
  <1>4. CASE Len(c) >= 2
    <2>0. /\ Len(c) \in Nat
          /\ \A j \in 2..Len(c) - 1 : c[j] \in {Quote, Letter}
      BY <1>1
    <2>1. SubSeq(c, 2, Len(c) - 1) \in Seq({Quote, Letter})
          /\ Len(SubSeq(c, 2, Len(c) - 1)) <= MaxHostLen
      <3>0. 2 \in Int /\ Len(c) - 1 \in Int
        BY <2>0
      <3>1. /\ SubSeq(c, 2, Len(c) - 1) \in Seq({Quote, Letter})
            /\ Len(SubSeq(c, 2, Len(c) - 1)) = IF 2 <= Len(c) - 1
                                                THEN (Len(c) - 1) - 2 + 1 ELSE 0
        BY <2>0, <3>0, SubSeqProperties
      <3>2. QED
        BY <1>1, <1>4, <2>0, <3>1, ClientAssumption
    <2>2. SubSeq(c, 2, Len(c) - 1) \in HostValues
      BY <2>1, SeqHostValues
    <2>3. QED
      BY <1>3, <1>4, <2>2 DEF Ok
  <1>5. CASE ~(Len(c) >= 2)
    BY <1>3, <1>5 DEF OutOfRange
  <1>6. QED
    BY <1>4, <1>5

(* Before the process starts nothing is read, printed or sent.             *)
LEMMA InitCInv == Init => CInv
  <1> SUFFICES ASSUME Init PROVE CInv
    OBVIOUS
  <1>1. << >> \in HostValues
    BY ClientAssumption DEF HostValues
  <1>2. << >> \in Seq(PrintItems)
    OBVIOUS
  <1>3. QED
    BY <1>1, <1>2 DEF Init, CInv, TypeOK, StripCorrect

(* readConfigFile: the host as read is a configured host, or the process  *)
(* ends at the load.                                                       *)
LEMMA ReadConfigStep ==
    ASSUME CInv, ReadConfig
    PROVE  CInv'
  BY HelperHostValue
     DEF ReadConfig, Running, Terminate, CInv, TypeOK, StripCorrect

(* The two erase calls.                                                    *)
LEMMA StripStep ==
    ASSUME CInv, Strip
    PROVE  CInv'
  <1>1. cfg \in HostValues
    BY DEF CInv, TypeOK
  <1>2. /\ StripQuotes(cfg).ok <=> Len(cfg) >= 2
        /\ StripQuotes(cfg).ok =>
              /\ StripQuotes(cfg).val = SubSeq(cfg, 2, Len(cfg) - 1)
              /\ StripQuotes(cfg).val \in HostValues
    BY <1>1, StripHost
  <1>3. CASE StripQuotes(cfg).ok
    BY <1>2, <1>3 DEF Strip, Running, CInv, TypeOK, StripCorrect
  <1>4. CASE ~StripQuotes(cfg).ok
    BY <1>2, <1>4 DEF Strip, Running, Terminate, CInv, TypeOK, StripCorrect
  <1>5. QED
    BY <1>3, <1>4

(* transport->open() and the argument check.                               *)
LEMMA OpenStep ==
    ASSUME CInv, Open
    PROVE  CInv'
  BY DEF Open, Running, Terminate, CInv, TypeOK, StripCorrect

LEMMA CheckArgsStep ==
    ASSUME CInv, CheckArgs
    PROVE  CInv'
  <1>1. CASE args # "bad"
    BY <1>1 DEF CheckArgs, Running, CInv, TypeOK, StripCorrect
  <1>2. CASE args = "bad"
    <2>1. printed' \in {<< >>, <<"usage">>} /\ status' # "running"
      BY <1>2 DEF CheckArgs, Running, CInv
    <2>2. <<"usage">> \in Seq(PrintItems)
      BY DEF PrintItems
    <2>3. pc' = "checkArgs"
      BY <1>2 DEF CheckArgs, Running
    <2>4. QED
      BY <2>1, <2>2, <2>3 DEF CheckArgs, Running, CInv, TypeOK, StripCorrect
  <1>3. QED
    BY <1>1, <1>2

(* The createExperiment helper's request build.                          *)
LEMMA BuildExperimentStep ==
    ASSUME CInv, BuildExperiment
    PROVE  CInv'
  BY DEF BuildExperiment, Running, Terminate, CInv, TypeOK, StripCorrect

(* The two halves of the RPC.                                              *)
LEMMA SendStep ==
    ASSUME CInv, Send
    PROVE  CInv'
  BY DEF Send, Running, Terminate, CInv, TypeOK, StripCorrect

LEMMA ReceiveStep ==
    ASSUME CInv, Receive
    PROVE  CInv'
  BY DEF Receive, Running, Terminate, CInv, TypeOK, StripCorrect

(* The entry points that print a list of outputs.                         *)
OutputProgs == {"getExperimentOutputsMain", "getExperimentOutput"}

(* An output list the server returns is a sequence of output values.      *)
LEMMA OutputReply ==
    ASSUME NEW p \in OutputProgs, NEW r \in Replies(p)
    PROVE  r \in Seq(Values)
  <1>1. r \in UNION {[1..n -> Values] : n \in 0..MaxOutputs}
    BY DEF Replies, OutputProgs
  <1>2. QED
    BY <1>1, ClientAssumption

(***************************************************************************)
(* Printing the result: a running process has printed nothing, so an      *)
(* outputs client prints exactly its reply; every other client prints one *)
(* line.  The process then returns or, on the undefined read of           *)
(* _return[0], may terminate.                                             *)
(***************************************************************************)
LEMMA PrintResultStep ==
    ASSUME CInv, PrintResult
    PROVE  CInv'
  <1>1. /\ printed = << >>
        /\ reply \in Replies(prog)
        /\ prog \in Programs
        /\ pc' = "exit" /\ status' \in {"returned", "terminated"}
        /\ UNCHANGED <<prog, args, cfg, host, reply, rpcs>>
    BY DEF CInv, PrintResult, Running, TypeOK
  <1>2. Report(prog, reply) \in Seq(PrintItems)
        /\ (prog \in OutputProgs => Report(prog, reply) = reply)
    <2>1. CASE prog \in {"createExperimentMain", "createExperiment"}
      <3>1. Report(prog, reply) = <<CreatedReport(reply)>>
        BY <2>1 DEF Report
      <3>2. CreatedReport(reply) \in PrintItems
        BY DEF CreatedReport, PrintItems
      <3>3. QED
        BY <2>1, <3>1, <3>2 DEF OutputProgs
    <2>2. CASE prog \in OutputProgs
      <3>1. reply \in Seq(Values)
        BY <1>1, <2>2, OutputReply
      <3>2. Report(prog, reply) = reply
        BY <2>2 DEF Report, OutputLines, OutputProgs
      <3>3. Seq(Values) \subseteq Seq(PrintItems)
        BY DEF PrintItems
      <3>4. QED
        BY <3>1, <3>2, <3>3
    <2>3. CASE prog \in {"launchExperimentMain", "launchExperiment"}
      BY <2>3 DEF Report, PrintItems, OutputProgs
    <2>4. CASE prog \in {"createProject", "getExperimentStatus"}
      <3>1. reply \in PrintItems
        BY <1>1, <2>4 DEF Replies, PrintItems
      <3>2. QED
        BY <2>4, <3>1 DEF Report, OutputProgs
    <2>5. QED
      BY <1>1, <2>1, <2>2, <2>3, <2>4 DEF Programs, Mains, Helpers, OutputProgs
  <1>7. printed' = Report(prog, reply)
    <2>1. printed' = << >> \o Report(prog, reply)
      BY <1>1 DEF PrintResult
    <2>2. QED
      BY <1>2, <2>1, ConcatEmptySeq
  <1>3. TypeOK'
    BY <1>1, <1>2, <1>7 DEF CInv, TypeOK
  <1>4. StripCorrect'
    BY <1>1 DEF CInv, StripCorrect, PrintResult, Running
  <1>6. QED
    BY <1>1, <1>3, <1>4 DEF CInv

(* Every step of the client, and a stutter, keeps CInv.                   *)
LEMMA NextCInv == CInv /\ [Next]_vars => CInv'
  <1> SUFFICES ASSUME CInv, [Next]_vars
               PROVE  CInv'
    OBVIOUS
  <1>1. CASE UNCHANGED vars
    BY <1>1 DEF vars, CInv, TypeOK, StripCorrect
  <1>2. QED
    BY <1>1, ReadConfigStep, StripStep, OpenStep, CheckArgsStep,
       BuildExperimentStep, SendStep,
       ReceiveStep, PrintResultStep DEF Next, ClientStep

(* CInv holds in every state of every run of every client.                *)
THEOREM ClientInvariant == Spec => []CInv
  BY InitCInv, NextCInv, PTL DEF Spec

(***************************************************************************)
(* Type correctness, with at most one RPC per process: no client of the   *)
(* samples ever issues a second call.                                      *)
(***************************************************************************)
THEOREM ClientTypeCorrect == Spec => []TypeOK
  BY ClientInvariant, PTL DEF CInv

(***************************************************************************)
(* The two erase calls of every client: a process gets past them exactly  *)
(* when the configured host has at least two characters, and then uses    *)
(* its inner substring, for every host length the bound allows.           *)
(***************************************************************************)
THEOREM StripSafe == Spec => []StripCorrect
  BY ClientInvariant, PTL DEF CInv


-----------------------------------------------------------------------------
(***************************************************************************)
(* The refinement of SingleCall.  Under the mapping, the local steps       *)
(* before the call are stutters or a Fail from "idle", the argument check *)
(* a Fail that may print the usage, Send the Call, Receive a stutter or a *)
(* Fail from "waiting", and PrintResult the Answer of the reply held.     *)
(***************************************************************************)
CVars == <<prog, Phase, rpcs, printed>>

(* The control points before the call.                                     *)
IdlePcs == {"readConfig", "strip", "open", "checkArgs", "build", "call"}

(* A local step before the call: it goes on, or the process dies.          *)
LEMMA LocalRefines ==
    ASSUME status = "running", pc \in IdlePcs,
           UNCHANGED <<prog, printed, rpcs>>,
           \/ status' = "running" /\ pc' \in IdlePcs
           \/ status' = "terminated"
    PROVE  [Contract!Next]_CVars
  <1>1. CASE status' = "running" /\ pc' \in IdlePcs
    BY <1>1 DEF CVars, Phase, IdlePcs
  <1>2. CASE status' = "terminated"
    <2>1. Phase = "idle" /\ Phase' = "ended"
      BY <1>2 DEF Phase, IdlePcs
    <2>2. QED
      BY <2>1 DEF Contract!Next, Contract!Fail
  <1>3. QED
    BY <1>1, <1>2

LEMMA CheckArgsRefines ==
    ASSUME CInv, CheckArgs
    PROVE  [Contract!Next]_CVars
  <1>1. CASE args # "bad"
    BY <1>1, LocalRefines DEF CheckArgs, Running, IdlePcs
  <1>2. CASE args = "bad"
    <2>1. /\ Phase = "idle" /\ Phase' = "ended"
          /\ UNCHANGED <<prog, rpcs>>
          /\ printed' \in {printed, Append(printed, "usage")}
      BY <1>2 DEF CheckArgs, Running, Phase
    <2>2. QED
      BY <2>1 DEF Contract!Next, Contract!Fail
  <1>3. QED
    BY <1>1, <1>2

(* The request of the one call.                                            *)
LEMMA SendRefines ==
    ASSUME CInv, Send
    PROVE  [Contract!Next]_CVars
  <1>1. /\ Phase = "idle" /\ Phase' \in {"waiting", "ended"}
        /\ rpcs' = rpcs + 1
        /\ UNCHANGED <<prog, printed>>
    BY DEF Send, Running, Terminate, Phase
  <1>2. QED
    BY <1>1 DEF Contract!Next, Contract!Call

(* The wait for the answer: the reply is held, or the process dies.        *)
LEMMA ReceiveRefines ==
    ASSUME CInv, Receive
    PROVE  [Contract!Next]_CVars
  <1>1. UNCHANGED <<prog, printed, rpcs>> /\ Phase = "waiting"
    BY DEF Receive, Running, Phase
  <1>2. Phase' \in {"waiting", "ended"}
    BY DEF Receive, Running, Terminate, Phase
  <1>3. QED
    BY <1>1, <1>2 DEF CVars, Contract!Next, Contract!Fail

(* Printing the result is the abstract Answer, with the reply as answer.  *)
LEMMA PrintResultRefines ==
    ASSUME CInv, PrintResult
    PROVE  [Contract!Next]_CVars
  <1>1. /\ reply \in Replies(prog)
        /\ printed' = printed \o Report(prog, reply)
        /\ Phase = "waiting" /\ Phase' = "ended"
        /\ UNCHANGED <<prog, rpcs>>
    BY DEF CInv, PrintResult, Running, Phase
  <1>2. QED
    BY <1>1 DEF Contract!Next, Contract!Answer

(* Every step of the client is a step or a stutter of SingleCall.         *)
LEMMA NextRefines == CInv /\ [Next]_vars => [Contract!Next]_CVars
  <1> SUFFICES ASSUME CInv, [Next]_vars
               PROVE  [Contract!Next]_CVars
    OBVIOUS
  <1>1. CASE ReadConfig
    BY <1>1, LocalRefines DEF ReadConfig, Running, Terminate, IdlePcs
  <1>2. CASE Strip
    BY <1>2, LocalRefines DEF Strip, Running, Terminate, IdlePcs
  <1>3. CASE Open
    BY <1>3, LocalRefines DEF Open, Running, Terminate, IdlePcs
  <1>4. CASE BuildExperiment
    BY <1>4, LocalRefines DEF BuildExperiment, Running, Terminate, IdlePcs
  <1>5. CASE UNCHANGED vars
    BY <1>5 DEF vars, CVars, Phase
  <1>6. QED
    BY <1>1, <1>2, <1>3, <1>4, <1>5, CheckArgsRefines, SendRefines,
       ReceiveRefines, PrintResultRefines DEF Next, ClientStep

(* A client starts where SingleCall starts.                                *)
LEMMA InitRefines == Init => Contract!Init
  BY DEF Init, Contract!Init, Phase

(***************************************************************************)
(* Every experiment client implements the RPC contract SingleCall: one    *)
(* call, never retried, the usage only before it, and after an answer the *)
(* report of that answer, for every bound on hosts and output lists.      *)
(***************************************************************************)
THEOREM ContractImplemented == Spec => ImplementsSingleCall
  <1>1. Spec => []CInv /\ [][Next]_vars
    BY ClientInvariant, PTL DEF Spec
  <1>2. QED
    BY <1>1, InitRefines, NextRefines, PTL
       DEF Spec, ImplementsSingleCall, Contract!Spec, CVars, Contract!vars

=============================================================================
