---------------------------- MODULE PwscfProofs ----------------------------
(***************************************************************************)
(* Proofs, for every number of ranks, that the emulator's output files end *)
(* with one copy of their text in every job whose ranks all finalise.     *)
(***************************************************************************)
EXTENDS Pwscf, SequenceTheorems, TLAPS

(* fclose of a "w" stream writing Text(f) over an empty file or one copy   *)
(* leaves one copy.                                                        *)
LEMMA FcloseText ==
    ASSUME NEW f \in Files, NEW s \in {<< >>, Text(f)}
    PROVE  Fclose(s, Text(f)) = Text(f)
  <1>1. Len(Text(f)) = 1 /\ Text(f) \in Seq(Files)
    BY DEF Text
  <1>2. Len(s) \in {0, 1}
    <2>1. CASE s = << >>
      BY <2>1
    <2>2. CASE s = Text(f)
      BY <2>2, <1>1
    <2>3. QED
      BY <2>1, <2>2
  <1>3. SubSeq(s, 2, Len(s)) = << >>
    <2>1. CASE s = << >>
      <3>1. SubSeq(<< >>, 2, 0) = << >>
        BY SubSeqEmpty
      <3>2. QED
        BY <2>1, <3>1
    <2>2. CASE s = Text(f)
      <3>1. SubSeq(Text(f), 2, 1) = << >>
        BY SubSeqEmpty
      <3>2. QED
        BY <1>1, <2>2, <3>1
    <2>3. QED
      BY <2>1, <2>2
  <1>4. Text(f) \o << >> = Text(f)
    BY <1>1, ConcatEmptySeq
  <1>5. Fclose(s, Text(f)) = Text(f) \o SubSeq(s, Len(Text(f)) + 1, Len(s))
    BY DEF Fclose, Mode
  <1>6. Fclose(s, Text(f)) = Text(f) \o SubSeq(s, 2, Len(s))
    BY <1>1, <1>5
  <1>7. QED
    BY <1>3, <1>4, <1>6

(* fclose keeps a file's contents well typed.                              *)
LEMMA FcloseType ==
    ASSUME NEW f \in Files, NEW s \in Seq(Contents)
    PROVE  Fclose(s, Text(f)) \in Seq(Contents)
  <1>1. Text(f) \in Seq(Contents) /\ Len(Text(f)) = 1
    BY DEF Text, Contents
  <1>2. SubSeq(s, 2, Len(s)) \in Seq(Contents)
    BY SubSeqProperties, LenProperties
  <1>3. QED
    BY <1>1, <1>2, ConcatProperties DEF Fclose, Mode

(* The initial states satisfy IInv: no stream is open and no rank has     *)
(* flushed anything (there is at least one rank).                          *)
LEMMA InitIInv == Init => IInv
  <1> SUFFICES ASSUME Init PROVE IInv
    OBVIOUS
  <1>1. 0 \in Ranks
    BY NAssumption DEF Ranks
  <1>2. << >> \in Seq(Contents) /\ Stale \in Seq(Contents)
    BY EmptySeq DEF Stale, Contents
  <1>3. TypeOK
    BY <1>2 DEF Init, TypeOK, Phases
  <1>4. QED
    BY <1>1, <1>3 DEF Init, IInv, FlushedBy, PastOpen

(* A crash stops the job and changes nothing else: IInv is kept.           *)
LEMMA CrashStep ==
    ASSUME IInv, Crash
    PROVE  IInv'
  BY DEF IInv, Crash, TypeOK, PastOpen, FlushedBy

(* fopen of Pwscf_Output: the new stream is the rank's only open one, and  *)
(* a successful open empties the file.                                     *)
LEMMA OpenOutputStep ==
    ASSUME IInv, NEW r \in Ranks, OpenOutput(r)
    PROVE  IInv'
  <1>1. ~fp[r][Output2]
    BY DEF IInv, OpenOutput, Running, PastOpen, Files, Output, Output2
  <1>2. << >> \in Seq(Contents)
    BY EmptySeq
  <1>3. TypeOK'
    BY <1>2 DEF IInv, TypeOK, OpenOutput, Goto, Fopen, Mode, Phases
  <1>4. QED
    BY <1>1, <1>3 DEF IInv, TypeOK, OpenOutput, Running, Goto, Fopen, Mode,
                      PastOpen, FlushedBy, Files, Output, Output2

(* fopen of tmp/output_2_binary, MPI_Init and the greeting.               *)
LEMMA OpenOutput2Step ==
    ASSUME IInv, NEW r \in Ranks, OpenOutput2(r)
    PROVE  IInv'
  <1>1. << >> \in Seq(Contents)
    BY EmptySeq
  <1>2. TypeOK'
    BY <1>1 DEF IInv, TypeOK, OpenOutput2, Goto, Fopen, Mode, Phases
  <1>3. QED
    BY <1>2 DEF IInv, TypeOK, OpenOutput2, Running, Goto, Fopen, Mode,
                PastOpen, FlushedBy, Files, Output, Output2

(* The rank's turn of the loop reads the inputs or crashes.                *)
LEMMA ReadInputsStep ==
    ASSUME IInv, NEW r \in Ranks, ReadInputs(r)
    PROVE  IInv'
  <1>1. CASE env.inputs
    BY <1>1 DEF IInv, TypeOK, ReadInputs, Running, Goto, Phases,
                PastOpen, FlushedBy
  <1>2. CASE ~env.inputs
    BY <1>2, CrashStep DEF ReadInputs
  <1>3. QED
    BY <1>1, <1>2

(* The fprintf calls and fclose(fp_output): the file held nothing or one   *)
(* copy, since this rank had opened it, and now holds one copy.            *)
LEMMA WriteOutputsStep ==
    ASSUME IInv, NEW r \in Ranks, WriteOutputs(r)
    PROVE  IInv'
  <1>1. CASE fp[r][Output] /\ fp[r][Output2]
    <2>1. file[Output] \in {<< >>, Text(Output)}
      BY <1>1 DEF IInv, Files
    <2>2. Fclose(file[Output], Text(Output)) = Text(Output)
      BY <2>1, FcloseText DEF Files
    <2>3. file' = [file EXCEPT ![Output] = Text(Output)]
      BY <1>1, <2>2 DEF WriteOutputs
    <2>4. Text(Output) \in Seq(Contents)
      BY DEF Text, Contents, Files
    <2>5. TypeOK'
      BY <1>1, <2>3, <2>4 DEF IInv, TypeOK, WriteOutputs, Goto, Phases
    <2>6. pc' = [pc EXCEPT ![r] = "closeOutput2"] /\ UNCHANGED fp
      BY <1>1 DEF WriteOutputs, Goto
    <2>7. pc[r] = "writeOutputs"
      BY DEF WriteOutputs, Running
    <2>8. \A q \in Ranks, f \in Files : fp'[q][f] => PastOpen(q, f)'
      BY <2>6, <2>7 DEF IInv, TypeOK, PastOpen
    <2>9. \A q \in Ranks : pc'[q] \in {"closeOutput2", "finalize", "done"} =>
                              fp'[q][Output] /\ fp'[q][Output2]
      BY <1>1, <2>6, <2>7 DEF IInv, TypeOK
    <2>10. ~FlushedBy(r, Output2)'
      BY <2>6 DEF FlushedBy, Output, Output2, IInv, TypeOK
    <2>11. \A f \in Files : (\E q \in Ranks : fp'[q][f]) => file'[f] \in {<< >>, Text(f)}
      BY <2>3, <2>6 DEF IInv, TypeOK, Files
    <2>12. \A f \in Files : (\A q \in Ranks : FlushedBy(q, f)') => file'[f] = Text(f)
      BY <2>3, <2>10 DEF IInv, TypeOK, Files
    <2>13. QED
      BY <2>5, <2>8, <2>9, <2>11, <2>12 DEF IInv
  <1>2. CASE ~(fp[r][Output] /\ fp[r][Output2])
    BY <1>2, CrashStep DEF WriteOutputs
  <1>3. QED
    BY <1>1, <1>2

(* fclose(fp_output_2): the stream was open, so the file now holds one copy. *)
LEMMA CloseOutput2Step ==
    ASSUME IInv, NEW r \in Ranks, CloseOutput2(r)
    PROVE  IInv'
  <1>1. fp[r][Output2]
    BY DEF IInv, CloseOutput2, Running
  <1>2. file[Output2] \in {<< >>, Text(Output2)}
    BY <1>1 DEF IInv, Files
  <1>3. Fclose(file[Output2], Text(Output2)) = Text(Output2)
    BY <1>2, FcloseText DEF Files
  <1>4. file' = [file EXCEPT ![Output2] = Text(Output2)]
    BY <1>3 DEF CloseOutput2
  <1>5. Text(Output2) \in Seq(Contents)
    BY DEF Text, Contents, Files
  <1>6. TypeOK'
    BY <1>4, <1>5 DEF IInv, TypeOK, CloseOutput2, Goto, Phases
  <1>7. pc' = [pc EXCEPT ![r] = "finalize"] /\ UNCHANGED fp
    BY DEF CloseOutput2, Goto
  <1>8. pc[r] = "closeOutput2"
    BY DEF CloseOutput2, Running
  <1>9. \A q \in Ranks, f \in Files : fp'[q][f] => PastOpen(q, f)'
    BY <1>7, <1>8 DEF IInv, TypeOK, PastOpen
  <1>10. \A q \in Ranks : pc'[q] \in {"closeOutput2", "finalize", "done"} =>
                            fp'[q][Output] /\ fp'[q][Output2]
    BY <1>7, <1>8 DEF IInv, TypeOK
  <1>11. \A q \in Ranks : FlushedBy(q, Output)' = FlushedBy(q, Output)
    BY <1>7, <1>8 DEF FlushedBy, IInv, TypeOK
  <1>12. \A f \in Files : (\E q \in Ranks : fp'[q][f]) => file'[f] \in {<< >>, Text(f)}
    BY <1>4, <1>7 DEF IInv, TypeOK, Files
  <1>13. \A f \in Files : (\A q \in Ranks : FlushedBy(q, f)') => file'[f] = Text(f)
    BY <1>4, <1>11 DEF IInv, TypeOK, Files
  <1>14. QED
    BY <1>6, <1>9, <1>10, <1>12, <1>13 DEF IInv

(* MPI_Finalize moves only the control.                                    *)
LEMMA FinalizeStep ==
    ASSUME IInv, NEW r \in Ranks, Finalize(r)
    PROVE  IInv'
  BY DEF IInv, TypeOK, Finalize, Running, Goto, Phases, PastOpen, FlushedBy

(* Every step of a rank, and a stutter, preserves IInv.                    *)
LEMMA NextIInv == IInv /\ [Next]_vars => IInv'
  <1> SUFFICES ASSUME IInv, [Next]_vars PROVE IInv'
    OBVIOUS
  <1>1. CASE UNCHANGED vars
    BY <1>1 DEF vars, IInv, TypeOK, PastOpen, FlushedBy
  <1>2. CASE Next
    <2>1. PICK r \in Ranks : Step(r)
      BY <1>2 DEF Next
    <2>2. QED
      BY <2>1, OpenOutputStep, OpenOutput2Step, ReadInputsStep,
         WriteOutputsStep, CloseOutput2Step, FinalizeStep DEF Step
  <1>3. QED
    BY <1>1, <1>2

(* IInv holds in every state of every run of the emulator.                 *)
THEOREM IInvariant == Spec => []IInv
  BY InitIInv, NextIInv, PTL DEF Spec

(* The variables keep their types: every file holds a finite sequence of  *)
(* the texts, and every rank is at one of its statement groups.            *)
THEOREM TypeCorrect == Spec => []TypeOK
  <1>1. IInv => TypeOK
    BY DEF IInv
  <1>2. QED
    BY <1>1, IInvariant, PTL

(***************************************************************************)
(* For every number of ranks: when every rank has returned from            *)
(* MPI_Finalize, each of Pwscf_Output and tmp/output_2_binary holds        *)
(* exactly one copy of its text, although a late rank's fopen("w") may     *)
(* have emptied a file an earlier rank had already written.                *)
(***************************************************************************)
THEOREM OutputsCorrect == Spec => []OutputsComplete
  <1>1. IInv => OutputsComplete
    BY DEF IInv, OutputsComplete, FlushedBy
  <1>2. QED
    BY <1>1, IInvariant, PTL
=============================================================================
