-------------------------- MODULE ExperimentClient --------------------------
(***************************************************************************)
(* One invocation of a single-shot experiment client: either the main() of *)
(* createExperiment.cpp, getExperimentOutputs.cpp or launchExperiment.cpp, *)
(* or one of the helper functions of util/register/airavata.cpp            *)
(* (createProject, createExperiment, getExperimentStatus,                  *)
(* getExperimentOutput, launchExperiment).  All share one shape:           *)
(*                                                                         *)
(*   readConfigFile; strip the host's quotes; open the transport;          *)
(*   check the arguments; one RPC; print; transport->close()               *)
(*                                                                         *)
(* None of them catches an exception: a failed load of the ini file        *)
(* (g_error), a thrown std::out_of_range, TTransportException or Airavata  *)
(* exception ends the process ("terminated").  The server is external; a   *)
(* call either returns one of the replies its signature allows or throws.  *)
(***************************************************************************)
EXTENDS Naturals, Sequences, HostString

CONSTANTS
    MaxHostLen, \* longest AIRAVATA_SERVER value tried from the ini file
    Values,     \* values an ExperimentOutput entry can carry
    MaxOutputs, \* longest output list the server returns
    NoReply     \* _return before the call (a model value)

(* The bound covers the helpers' hard-coded "'localhost'" (3 characters   *)
(* here) and stays below the size_t range.                                 *)
ASSUME ClientAssumption ==
    /\ MaxHostLen \in Nat /\ 3 <= MaxHostLen /\ MaxHostLen < SizeT
    /\ MaxOutputs \in Nat
    /\ Values # {}

VARIABLES
    prog,     \* the entry point being run
    args,     \* "ok", or "bad": wrong argc (main) or a NULL char* (helper)
    pc,       \* next statement group
    cfg,      \* AIRAVATA_SERVER as read, quotes included
    host,     \* airavata_server after the two erase calls
    reply,    \* the RPC's _return
    printed,  \* what has been written to stdout, in order
    status,   \* "running", "returned" or "terminated"
    rpcs      \* number of RPCs issued

vars == <<prog, args, pc, cfg, host, reply, printed, status, rpcs>>

Mains == {"createExperimentMain", "getExperimentOutputsMain",
          "launchExperimentMain"}
Helpers == {"createProject", "createExperiment", "getExperimentStatus",
            "getExperimentOutput", "launchExperiment"}
Programs == Mains \cup Helpers

Quote == "'"
Letter == "h"
HostValues == UNION {[1..n -> {Quote, Letter}] : n \in 0..MaxHostLen}

(* readConfigFile of airavata.cpp ignores the file: "'localhost'".         *)
HelperHost == <<Quote, Letter, Quote>>
(* The name the server is reachable under.                                 *)
ServerHost == <<Letter>>

(* Identifiers are strings; the server's generated one is abstracted to   *)
(* a single value.                                                          *)
NoId == ""
NewId == "id"
ExperimentStates == {"CREATED", "LAUNCHED", "EXECUTING", "COMPLETED", "FAILED"}

(* What the server may answer to the RPC each entry point makes.           *)
Replies(p) ==
    CASE p = "createProject" -> {NewId}
      [] p \in {"createExperimentMain", "createExperiment"} -> {NoId, NewId}
      [] p \in {"getExperimentOutputsMain", "getExperimentOutput"} ->
            UNION {[1..n -> Values] : n \in 0..MaxOutputs}
      [] p = "getExperimentStatus" -> ExperimentStates
      [] p \in {"launchExperimentMain", "launchExperiment"} -> {NoReply}

(***************************************************************************)
(* How an entry point is invoked: with the arguments it needs ("ok") or   *)
(* not ("bad": a wrong argc for a main, a NULL pointer among the ones a   *)
(* helper uses).  The createExperiment helper checks only three of its    *)
(* five pointers: "noInput" is a call with those three set and inp NULL.  *)
(***************************************************************************)
ArgCases(p) == IF p = "createExperiment" THEN {"ok", "bad", "noInput"}
                                         ELSE {"ok", "bad"}

Init ==
    /\ prog \in Programs
    /\ args \in ArgCases(prog)
    /\ pc = "readConfig"
    /\ cfg = << >>
    /\ host = << >>
    /\ reply = NoReply
    /\ printed = << >>
    /\ status = "running"
    /\ rpcs = 0

Running(l) == status = "running" /\ pc = l

Terminate == status' = "terminated"

(***************************************************************************)
(* readConfigFile.  The mains use GKeyFile: a missing or unparseable file  *)
(* makes g_error abort the process, a missing AIRAVATA_SERVER key yields   *)
(* NULL, assigned to a std::string (a crash); otherwise the value is read  *)
(* as written, quotes included.  The helpers hard-code "'localhost'".      *)
(***************************************************************************)
ReadConfig ==
    /\ Running("readConfig")
    /\ IF prog \in Mains
          THEN \/ /\ Terminate
                  /\ UNCHANGED <<cfg, pc>>
               \/ /\ cfg' \in HostValues
                  /\ pc' = "strip"
                  /\ UNCHANGED status
          ELSE /\ cfg' = HelperHost
               /\ pc' = "strip"
               /\ UNCHANGED status
    /\ UNCHANGED <<prog, args, host, reply, printed, rpcs>>

(* The two erase calls; an out_of_range is not caught.                      *)
Strip ==
    /\ Running("strip")
    /\ LET r == StripQuotes(cfg)
       IN  IF r.ok THEN /\ host' = r.val
                        /\ pc' = "open"
                        /\ UNCHANGED status
                   ELSE /\ Terminate
                        /\ UNCHANGED <<host, pc>>
    /\ UNCHANGED <<prog, args, cfg, reply, printed, rpcs>>

(***************************************************************************)
(* TSocket(host, port), setSendTimeout, TBufferedTransport,                *)
(* TBinaryProtocol, transport->open().  It can only succeed when the       *)
(* stripped host names the server; it may always fail (server down).       *)
(***************************************************************************)
(* Mutant: a failed transport->open() retried until it succeeds.          *)
OpenRetried ==
    /\ Running("open")
    /\ \/ /\ host = ServerHost
          /\ pc' = "checkArgs"
       \/ UNCHANGED pc
    /\ UNCHANGED <<prog, args, cfg, host, reply, printed, status, rpcs>>

Open ==
    /\ Running("open")
    /\ \/ /\ host = ServerHost
          /\ pc' = "checkArgs"
          /\ UNCHANGED status
       \/ /\ Terminate
          /\ UNCHANGED pc
    /\ UNCHANGED <<prog, args, cfg, host, reply, printed, rpcs>>

(***************************************************************************)
(* The argument check, after the transport is open.  A main with the wrong *)
(* argc prints its usage string and returns 0.  The helper createExperiment *)
(* prints "not enough parameters" and executes `return 0;`, building its   *)
(* std::string result from a null pointer, which does not return normally. *)
(* The other helpers hand the NULL char* to a std::string parameter, which *)
(* does not return normally either.                                        *)
(***************************************************************************)
CheckArgs ==
    /\ Running("checkArgs")
    /\ IF args # "bad"
          THEN /\ pc' = IF prog = "createExperiment" THEN "build" ELSE "call"
               /\ UNCHANGED <<printed, status>>
          ELSE /\ printed' = IF prog \in Mains \cup {"createExperiment"}
                                THEN Append(printed, "usage") ELSE printed
               /\ status' = IF prog \in Mains THEN "returned" ELSE "terminated"
               /\ UNCHANGED pc
    /\ UNCHANGED <<prog, args, cfg, host, reply, rpcs>>

(***************************************************************************)
(* The createExperiment helper builds its Experiment: the scheduling and  *)
(* user configuration, the application id (execId, or "SimpleEcho2" when  *)
(* NULL), the input value inp and a one-element output list.  A NULL inp  *)
(* becomes a std::string in input.__set_value(inp): the process dies      *)
(* there, with the transport open and nothing sent or printed.            *)
(***************************************************************************)
BuildExperiment ==
    /\ Running("build")
    /\ IF args = "noInput"
          THEN /\ Terminate
               /\ UNCHANGED pc
          ELSE /\ pc' = "call"
               /\ UNCHANGED status
    /\ UNCHANGED <<prog, args, cfg, host, reply, printed, rpcs>>

(* Mutant: a call whose send failed is issued again.                     *)
SendRetried ==
    /\ Running("call")
    /\ rpcs' = rpcs + 1
    /\ \/ pc' = "await"
       \/ UNCHANGED pc
    /\ UNCHANGED <<prog, args, cfg, host, reply, printed, status>>

(***************************************************************************)
(* The one RPC, first half: the generated stub writes the request and     *)
(* flushes it.  The socket's send timeout (setSendTimeout) bounds this    *)
(* step: it completes, or throws a TTransportException that ends the       *)
(* process.                                                                *)
(***************************************************************************)
Send ==
    /\ Running("call")
    /\ rpcs' = rpcs + 1
    /\ \/ /\ pc' = "await"
          /\ UNCHANGED status
       \/ /\ Terminate
          /\ UNCHANGED pc
    /\ UNCHANGED <<prog, args, cfg, host, reply, printed>>

(***************************************************************************)
(* The second half: the stub blocks in recv until the server answers or   *)
(* the connection fails.  No receive timeout is set, so nothing bounds     *)
(* this wait.  An answer is a reply its signature allows, or an Airavata   *)
(* exception that ends the process like a transport failure.              *)
(***************************************************************************)
Receive ==
    /\ Running("await")
    /\ \/ /\ reply' \in Replies(prog)
          /\ pc' = "print"
          /\ UNCHANGED status
       \/ /\ Terminate
          /\ UNCHANGED <<reply, pc>>
    /\ UNCHANGED <<prog, args, cfg, host, printed, rpcs>>

(* The createExperiment helper's report: a non-empty id is "created".    *)
CreatedReport(r) == IF r # NoId THEN "created" ELSE "failed"

(* for(i=0; i<_return.size(); i++) cout << _return[i].value               *)
OutputLines(r) == r

(***************************************************************************)
(* Print the result, transport->close(), return.  getExperimentOutput then *)
(* returns _return[0].value without checking the vector is non-empty: on   *)
(* an empty reply that read is undefined and may crash or return garbage.  *)
(***************************************************************************)
(* return _return[0].value of getExperimentOutput on an empty vector.     *)
FirstOfEmpty == prog = "getExperimentOutput" /\ reply = << >>

(* The lines entry point p prints for the reply r.                        *)
Report(p, r) ==
    CASE p \in {"createExperimentMain", "createExperiment"} ->
            <<CreatedReport(r)>>
      [] p \in {"getExperimentOutputsMain", "getExperimentOutput"} ->
            OutputLines(r)
      [] p \in {"launchExperimentMain", "launchExperiment"} -> <<"launched">>
      [] OTHER -> <<r>>

PrintResult ==
    /\ Running("print")
    /\ printed' = printed \o Report(prog, reply)
    /\ IF FirstOfEmpty
          THEN status' \in {"returned", "terminated"}
          ELSE status' = "returned"
    /\ pc' = "exit"
    /\ UNCHANGED <<prog, args, cfg, host, reply, rpcs>>

(* The steps the client process takes by itself.                          *)
ClientStep == \/ ReadConfig \/ Strip \/ Open \/ CheckArgs \/ BuildExperiment
              \/ Send \/ PrintResult

Next == ClientStep \/ Receive

(***************************************************************************)
(* The process is single-threaded and each of its own steps ends: a local *)
(* file read, two erase calls, a connect that the kernel gives up on, a    *)
(* send bounded by the send timeout, and a print.  Nothing makes the       *)
(* server answer, so Receive has no fairness.                              *)
(***************************************************************************)
Fairness == WF_vars(ClientStep)

Spec == Init /\ [][Next]_vars /\ Fairness

-----------------------------------------------------------------------------

PrintItems == {"usage", "created", "failed", "launched", NewId} \cup Values
              \cup ExperimentStates

TypeOK ==
    /\ prog \in Programs
    /\ args \in ArgCases(prog)
    /\ pc \in {"readConfig", "strip", "open", "checkArgs", "build", "call",
              "await", "print", "exit"}
    /\ cfg \in HostValues
    /\ host \in HostValues
    /\ reply \in {NoReply} \cup Replies(prog)
    /\ printed \in Seq(PrintItems)
    /\ status \in {"running", "returned", "terminated"}
    /\ rpcs \in 0..1

(***************************************************************************)
(* Spec 8.1 for the two erase calls: a process gets past them exactly when *)
(* the configured host has at least two characters, and then uses the     *)
(* inner substring, first and last character removed.  A one-character or *)
(* empty value makes the second erase start at npos (length() - 1 wrapped  *)
(* in size_t) and throw.                                                   *)
(***************************************************************************)
StripCorrect ==
    /\ pc \notin {"readConfig", "strip"} =>
          /\ Len(cfg) >= 2
          /\ host = SubSeq(cfg, 2, Len(cfg) - 1)
    /\ (pc = "strip" /\ status = "terminated") => Len(cfg) < 2

(***************************************************************************)
(* Spec 8.5: a main run with the wrong number of arguments prints its      *)
(* usage string and performs no RPC.  The check runs only after the config *)
(* has been loaded and the transport opened.                               *)
(***************************************************************************)
UsageWithoutRpc ==
    (prog \in Mains /\ args = "bad" /\ status # "running") =>
        /\ rpcs = 0
        /\ printed = <<"usage">>

(***************************************************************************)
(* Spec 9: getExperimentOutput never reads the first element of an empty   *)
(* output list.                                                            *)
(***************************************************************************)
FirstOutputPresent ==
    (prog = "getExperimentOutput" /\ pc = "exit") => reply # << >>

(***************************************************************************)
(* Every run of a client ends (returns or terminates) unless it stays     *)
(* blocked forever in the receive of its one RPC: the socket's send       *)
(* timeout bounds every other wait, and no step is retried, but only a    *)
(* server that answers or drops the connection ends that receive.         *)
(***************************************************************************)
ClientEnds == <>(status # "running") \/ <>[](pc = "await")


-----------------------------------------------------------------------------
(* Where the invocation is with respect to its one call.                   *)
Phase == IF status # "running" THEN "ended"
         ELSE IF pc \in {"await", "print"} THEN "waiting"
         ELSE "idle"

(* The RPC contract of a client invocation, over the detailed state.       *)
Contract == INSTANCE SingleCall
              WITH Ops <- Programs, Answers <- Replies, Report <- Report,
                   Usage <- "usage", op <- prog, phase <- Phase,
                   calls <- rpcs, out <- printed

(***************************************************************************)
(* Spec 4.3: every entry point performs exactly one logical operation by  *)
(* one blocking call that is never retried; it prints its usage only      *)
(* before that call, nothing on a failure, and after an answer exactly    *)
(* the report of that answer.                                             *)
(***************************************************************************)
ImplementsSingleCall == Contract!Spec

=============================================================================
