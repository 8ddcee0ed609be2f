------------------------------- MODULE Pwscf -------------------------------
(***************************************************************************)
(* The MockPwscf emulator (MockPwscf/pwscf.c) run by mpirun as N ranks in   *)
(* one working directory.  Every rank opens the same two output files with *)
(* fopen(..., "w") before MPI_Init, reads three input files in its turn of *)
(* the rank loop, writes its text through stdio buffers that reach the     *)
(* file at fclose, and calls MPI_Finalize.  The ranks are separate         *)
(* processes: their steps interleave freely, as the loop has no barrier.   *)
(*                                                                         *)
(* A rank that hands a NULL FILE* to fscanf or fprintf dies of SIGSEGV;    *)
(* mpirun then kills the job, and what sat in stdio buffers is lost.       *)
(***************************************************************************)
EXTENDS Naturals, Sequences

CONSTANT N  \* number of ranks (mpirun -np N)

ASSUME NAssumption == N \in Nat \ {0}

VARIABLES
    pc,    \* pc[r]: the next statement group of rank r
    fp,    \* fp[r][f]: rank r's fopen of output f returned non-NULL
    file,  \* file[f]: the contents of output file f
    env,   \* the working directory: writable, has tmp/, has the input files
    job    \* "running", or "aborted" once mpirun has killed the ranks

vars == <<pc, fp, file, env, job>>

Ranks == 0..N-1
Output == "Pwscf_Output"
Output2 == "tmp/output_2_binary"
Files == {Output, Output2}

(* string_output and string_output_2, abstracted to one element each.      *)
Text(f) == <<f>>
(* What a previous run may have left in a file: longer than one copy.      *)
Stale == <<"old", "old">>

(* Mutant: the outputs opened in append mode.                              *)
ModeAppend == "a"

(* The mode of both fopen calls of the outputs.                            *)
Mode == "w"

(* fopen(f, Mode) on a file with contents s.                               *)
Fopen(s) == IF Mode = "w" THEN << >> ELSE s

(* The buffered text d reaching a file with contents s at fclose.  A "w"   *)
(* stream has written nothing before, so its position is 0: d overwrites   *)
(* the first Len(d) bytes; an "a" stream writes at the end.                *)
Fclose(s, d) ==
    IF Mode = "w" THEN d \o SubSeq(s, Len(d) + 1, Len(s)) ELSE s \o d

Init ==
    /\ pc = [r \in Ranks |-> "openOutput"]
    /\ fp = [r \in Ranks |-> [f \in Files |-> FALSE]]
    /\ file \in [Files -> {<< >>, Stale}]
    /\ env \in [{"cwd", "tmpDir", "inputs"} -> BOOLEAN]
    /\ job = "running"

Running(r, l) == job = "running" /\ pc[r] = l

Goto(r, l) == pc' = [pc EXCEPT ![r] = l]

(* A NULL FILE* dereferenced: the rank dies and mpirun kills the job.      *)
Crash == /\ job' = "aborted"
         /\ UNCHANGED <<pc, fp, file, env>>

(* fp_output = fopen("Pwscf_Output", "w"); a failure is only printed.      *)
OpenOutput(r) ==
    /\ Running(r, "openOutput")
    /\ fp' = [fp EXCEPT ![r][Output] = env.cwd]
    /\ file' = IF env.cwd THEN [file EXCEPT ![Output] = Fopen(@)] ELSE file
    /\ Goto(r, "openOutput2")
    /\ UNCHANGED <<env, job>>

(***************************************************************************)
(* fp_output_2 = fopen("tmp/output_2_binary", "w"), which fails when tmp/  *)
(* is missing; then MPI_Init, the rank query, the greeting and sleep(5),   *)
(* none of which touches the files.                                        *)
(***************************************************************************)
OpenOutput2(r) ==
    /\ Running(r, "openOutput2")
    /\ fp' = [fp EXCEPT ![r][Output2] = env.tmpDir]
    /\ file' = IF env.tmpDir THEN [file EXCEPT ![Output2] = Fopen(@)] ELSE file
    /\ Goto(r, "readInputs")
    /\ UNCHANGED <<env, job>>

(***************************************************************************)
(* Iteration my_rank of the loop: fopen and fscanf of Pwscf_Input,         *)
(* pseudo_1 and pseudo_2.  A missing input leaves the FILE* NULL and       *)
(* fscanf crashes on it.  The other iterations do nothing.                 *)
(***************************************************************************)
ReadInputs(r) ==
    /\ Running(r, "readInputs")
    /\ IF env.inputs THEN /\ Goto(r, "writeOutputs")
                          /\ UNCHANGED <<fp, file, env, job>>
                     ELSE Crash

(***************************************************************************)
(* fprintf to fp_output, fprintf to fp_output_2, fclose(fp_output).  The   *)
(* first fprintf only fills a buffer: a crash at the second loses it.      *)
(***************************************************************************)
WriteOutputs(r) ==
    /\ Running(r, "writeOutputs")
    /\ IF fp[r][Output] /\ fp[r][Output2]
          THEN /\ file' = [file EXCEPT ![Output] = Fclose(@, Text(Output))]
               /\ Goto(r, "closeOutput2")
               /\ UNCHANGED <<fp, env, job>>
          ELSE Crash

(* fclose(fp_output_2): its buffer reaches the file.                       *)
CloseOutput2(r) ==
    /\ Running(r, "closeOutput2")
    /\ file' = [file EXCEPT ![Output2] = Fclose(@, Text(Output2))]
    /\ Goto(r, "finalize")
    /\ UNCHANGED <<fp, env, job>>

(* MPI_Finalize: a rank leaves once every rank has entered it.             *)
Finalize(r) ==
    /\ Running(r, "finalize")
    /\ \A q \in Ranks : pc[q] \in {"finalize", "done"}
    /\ Goto(r, "done")
    /\ UNCHANGED <<fp, file, env, job>>

Step(r) == \/ OpenOutput(r) \/ OpenOutput2(r) \/ ReadInputs(r)
           \/ WriteOutputs(r) \/ CloseOutput2(r) \/ Finalize(r)

Next == \E r \in Ranks : Step(r)

Spec == Init /\ [][Next]_vars

-----------------------------------------------------------------------------

Phases == {"openOutput", "openOutput2", "readInputs", "writeOutputs",
           "closeOutput2", "finalize", "done"}

(* Everything a file can hold: stale text and the two texts.              *)
Contents == {"old"} \cup Files

TypeOK ==
    /\ pc \in [Ranks -> Phases]
    /\ fp \in [Ranks -> [Files -> BOOLEAN]]
    /\ file \in [Files -> Seq(Contents)]
    /\ env \in [{"cwd", "tmpDir", "inputs"} -> BOOLEAN]
    /\ job \in {"running", "aborted"}

(* Rank r has passed the fopen of f, and has flushed its text to f.       *)
PastOpen(r, f) ==
    pc[r] \notin IF f = Output THEN {"openOutput"} ELSE {"openOutput", "openOutput2"}

FlushedBy(r, f) ==
    pc[r] \in IF f = Output THEN {"closeOutput2", "finalize", "done"}
                           ELSE {"finalize", "done"}

(***************************************************************************)
(* The inductive strengthening of OutputsComplete.  A rank holds an open   *)
(* stream only past its fopen, and reaches the fclose calls only with both *)
(* streams open.  Once any rank has opened a file, the file is empty or    *)
(* one copy: later opens truncate it and later writes overwrite the copy.  *)
(* Once every rank has flushed a file, it holds one copy.                  *)
(***************************************************************************)
IInv ==
    /\ TypeOK
    /\ \A r \in Ranks, f \in Files : fp[r][f] => PastOpen(r, f)
    /\ \A r \in Ranks : pc[r] \in {"closeOutput2", "finalize", "done"} =>
                            fp[r][Output] /\ fp[r][Output2]
    /\ \A f \in Files : (\E r \in Ranks : fp[r][f]) => file[f] \in {<< >>, Text(f)}
    /\ \A f \in Files : (\A r \in Ranks : FlushedBy(r, f)) => file[f] = Text(f)

(***************************************************************************)
(* A job in which every rank has returned from MPI_Finalize leaves exactly *)
(* one copy of each rank's text in each output file, whatever the files   *)
(* held before and however the ranks' opens and writes interleaved.       *)
(***************************************************************************)
OutputsComplete ==
    (\A r \in Ranks : pc[r] = "done") => \A f \in Files : file[f] = Text(f)

(***************************************************************************)
(* Spec 5: the ranks operate on disjoint files.  Then once a rank has      *)
(* flushed Pwscf_Output at fclose, no other rank removes that text.        *)
(***************************************************************************)
DisjointOutputs ==
    \A r \in Ranks :
        pc[r] \in {"closeOutput2", "finalize", "done"} =>
            file[Output] = Text(Output)

=============================================================================
