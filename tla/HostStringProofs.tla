-------------------------- MODULE HostStringProofs --------------------------
(***************************************************************************)
(* What the two erase calls of the clients compute, for every string whose *)
(* length fits in size_t.                                                  *)
(***************************************************************************)
EXTENDS HostString, SequenceTheorems, TLAPS

(* erase(pos, n) with pos <= size() does not throw: it keeps the prefix of *)
(* length pos and the suffix after the removed characters.                 *)
LEMMA EraseInRange ==
    ASSUME NEW s, NEW pos, NEW n, ~(pos > Len(s))
    PROVE  Erase(s, pos, n) =
             Ok(SubSeq(s, 1, pos) \o SubSeq(s, pos + MinNat(n, Len(s) - pos) + 1, Len(s)))
  BY DEF Erase

(* erase(0, 1) never throws and drops the first character, if any.         *)
LEMMA EraseFirst ==
    ASSUME NEW S, NEW s \in Seq(S)
    PROVE  Erase(s, 0, 1) = Ok(IF s = << >> THEN << >> ELSE Tail(s))
  <1>0. Len(s) \in Nat
    BY LenProperties
  <1>1. CASE s = << >>
    <2>1. Len(s) = 0
      BY <1>1, EmptySeq
    <2>2. 0 + MinNat(1, Len(s) - 0) + 1 = 1
      BY <2>1 DEF MinNat
    <2>3. SubSeq(s, 1, 0) = << >> /\ SubSeq(s, 1, Len(s)) = << >>
      BY <2>1, SubSeqEmpty
    <2>4. << >> \o << >> = << >>
      BY ConcatEmptySeq, EmptySeq
    <2>5. Erase(s, 0, 1) =
            Ok(SubSeq(s, 1, 0) \o SubSeq(s, 0 + MinNat(1, Len(s) - 0) + 1, Len(s)))
      BY <2>1, EraseInRange
    <2>6. Erase(s, 0, 1) = Ok(<< >>)
      BY <2>2, <2>3, <2>4, <2>5
    <2>7. QED
      BY <1>1, <2>6
  <1>2. CASE s # << >>
    <2>1. Len(s) \in Nat \ {0}
      BY <1>2, EmptySeq
    <2>2. 0 + MinNat(1, Len(s) - 0) + 1 = 2
      BY <2>1 DEF MinNat
    <2>3. SubSeq(s, 1, 0) = << >>
      BY SubSeqEmpty
    <2>4. SubSeq(s, 2, Len(s)) = Tail(s) /\ Tail(s) \in Seq(S)
      BY <1>2, TailIsSubSeq, HeadTailProperties
    <2>5. << >> \o Tail(s) = Tail(s)
      BY <2>4, ConcatEmptySeq
    <2>6. Erase(s, 0, 1) =
            Ok(SubSeq(s, 1, 0) \o SubSeq(s, 0 + MinNat(1, Len(s) - 0) + 1, Len(s)))
      BY <2>1, EraseInRange
    <2>7. Erase(s, 0, 1) = Ok(Tail(s))
      BY <2>2, <2>3, <2>4, <2>5, <2>6
    <2>8. QED
      BY <1>2, <2>7
  <1>3. QED
    BY <1>1, <1>2

(* erase(length() - 1, 1) on a non-empty string drops its last character. *)
LEMMA EraseLast ==
    ASSUME NEW S, NEW t \in Seq(S), t # << >>, Len(t) <= SizeT
    PROVE  Erase(t, (Len(t) - 1) % SizeT, 1) = Ok(SubSeq(t, 1, Len(t) - 1))
  <1>1. Len(t) \in Nat \ {0}
    BY EmptySeq
  <1>2. (Len(t) - 1) % SizeT = Len(t) - 1
    BY <1>1, SizeTAssumption
  <1>3. (Len(t) - 1) + MinNat(1, Len(t) - (Len(t) - 1)) + 1 = Len(t) + 1
    BY <1>1 DEF MinNat
  <1>4. SubSeq(t, Len(t) + 1, Len(t)) = << >>
    BY <1>1, SubSeqEmpty
  <1>5. SubSeq(t, 1, Len(t) - 1) \in Seq(S)
    BY <1>1, SubSeqProperties
  <1>6. SubSeq(t, 1, Len(t) - 1) \o << >> = SubSeq(t, 1, Len(t) - 1)
    BY <1>5, ConcatEmptySeq
  <1>7. ~(Len(t) - 1 > Len(t))
    BY <1>1
  <1>8. Erase(t, Len(t) - 1, 1) = Ok(SubSeq(t, 1, Len(t) - 1))
    BY <1>3, <1>4, <1>6, <1>7, EraseInRange
  <1>9. QED
    BY <1>2, <1>8

(* erase(length() - 1, 1) on the empty string throws: the position wraps.  *)
LEMMA EraseLastEmpty ==
    Erase(<< >>, (Len(<< >>) - 1) % SizeT, 1) = OutOfRange
  <1>1. Len(<< >>) = 0
    BY EmptySeq
  <1>2. (0 - 1) % SizeT = SizeT - 1 /\ SizeT - 1 > 0
    BY SizeTAssumption
  <1>3. QED
    BY <1>1, <1>2 DEF Erase

(* The second erase applies to the result of the first, when it returned. *)
LEMMA StripQuotesThen ==
    ASSUME NEW s, NEW v, Erase(s, 0, 1) = Ok(v)
    PROVE  StripQuotes(s) = Erase(v, (Len(v) - 1) % SizeT, 1)
  BY DEF StripQuotes, Ok

(***************************************************************************)
(* Spec 8.1, for every width of size_t: the quote stripping of the client  *)
(* samples yields the string without its first and last character when it *)
(* has at least two, and throws std::out_of_range otherwise.               *)
(***************************************************************************)
THEOREM StripQuotesCorrect ==
    ASSUME NEW S, NEW s \in Seq(S), Len(s) <= SizeT
    PROVE  StripQuotes(s) = IF Len(s) >= 2 THEN Ok(SubSeq(s, 2, Len(s) - 1))
                                           ELSE OutOfRange
  <1>0. Len(s) \in Nat
    BY LenProperties
  <1>1. CASE s = << >>
    <2>1. Erase(s, 0, 1) = Ok(<< >>)
      BY <1>1, EraseFirst
    <2>2. StripQuotes(s) = OutOfRange
      BY <2>1, StripQuotesThen, EraseLastEmpty
    <2>3. ~(Len(s) >= 2)
      BY <1>1, EmptySeq
    <2>4. QED
      BY <2>2, <2>3
  <1>2. CASE s # << >> /\ Len(s) < 2
    <2>1. Tail(s) \in Seq(S) /\ Len(Tail(s)) = 0
      BY <1>0, <1>2, HeadTailProperties, EmptySeq
    <2>2. Tail(s) = << >>
      BY <2>1, EmptySeq
    <2>3. Erase(s, 0, 1) = Ok(<< >>)
      BY <1>2, <2>2, EraseFirst
    <2>4. StripQuotes(s) = OutOfRange
      BY <2>3, StripQuotesThen, EraseLastEmpty
    <2>5. QED
      BY <1>2, <2>4
  <1>3. CASE Len(s) >= 2
    <2>0. s # << >>
      BY <1>3, EmptySeq
    <2>1. Erase(s, 0, 1) = Ok(Tail(s))
      BY <2>0, EraseFirst
    <2>2. Tail(s) \in Seq(S) /\ Len(Tail(s)) = Len(s) - 1
      BY <2>0, HeadTailProperties
    <2>3. Len(<< >>) = 0
      BY EmptySeq
    <2>8. Len(Tail(s)) \in 1..SizeT
      BY <1>0, <1>3, <2>2, SizeTAssumption
    <2>9. Tail(s) # << >> /\ Len(Tail(s)) <= SizeT
      <3>0. \A k \in 1..SizeT : k # 0 /\ k <= SizeT
        BY SizeTAssumption
      <3>1. Len(Tail(s)) # 0 /\ Len(Tail(s)) <= SizeT
        BY <2>8, <3>0, Zenon
      <3>2. Tail(s) # << >>
        BY <2>3, <3>1, Zenon
      <3>3. QED
        BY <3>1, <3>2
    <2>4. Erase(Tail(s), (Len(Tail(s)) - 1) % SizeT, 1)
             = Ok(SubSeq(Tail(s), 1, Len(Tail(s)) - 1))
      BY <2>2, <2>9, EraseLast
    <2>5. SubSeq(Tail(s), 1, Len(Tail(s)) - 1) = SubSeq(s, 2, Len(s) - 1)
      <3>1. Tail(s) = SubSeq(s, 2, Len(s))
        BY <2>0, TailIsSubSeq
      <3>2. CASE Len(s) = 2
        <4>1. SubSeq(Tail(s), 1, 0) = << >>
          BY SubSeqEmpty
        <4>2. SubSeq(s, 2, 1) = << >>
          BY SubSeqEmpty
        <4>3. Len(Tail(s)) - 1 = 0 /\ Len(s) - 1 = 1
          BY <2>2, <3>2
        <4>4. QED
          BY <4>1, <4>2, <4>3, Zenon
      <3>3. CASE Len(s) >= 3
        <4>1. SubSeq(SubSeq(s, 2, Len(s)), 1, Len(s) - 2) = SubSeq(s, 2, Len(s) - 1)
          <5>1. /\ 2 \in 1..Len(s) /\ Len(s) \in 1..Len(s)
                /\ 1 \in 1..Len(s) - 2 + 1 /\ Len(s) - 2 \in 1..Len(s) - 2 + 1
            BY <1>0, <3>3
          <5>2. SubSeq(SubSeq(s, 2, Len(s)), 1, Len(s) - 2)
                  = SubSeq(s, 2 + 1 - 1, 2 + (Len(s) - 2) - 1)
            BY <5>1, SubSeqOfSubSeq
          <5>3. QED
            BY <1>0, <5>2
        <4>2. QED
          BY <2>2, <3>1, <4>1
      <3>4. QED
        BY <1>0, <1>3, <3>2, <3>3
    <2>6. StripQuotes(s) = Ok(SubSeq(s, 2, Len(s) - 1))
      BY <2>1, <2>4, <2>5, StripQuotesThen
    <2>7. QED
      BY <1>3, <2>6
  <1>4. QED
    BY <1>0, <1>1, <1>2, <1>3
=============================================================================
