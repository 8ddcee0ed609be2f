----------------------------- MODULE HostString -----------------------------
(***************************************************************************)
(* The quote stripping every client applies to the configured server host  *)
(* before building the TSocket:                                            *)
(*                                                                         *)
(*     airavata_server.erase(0,1);                                         *)
(*     airavata_server.erase(airavata_server.length()-1,1);                *)
(*                                                                         *)
(* modelled with the semantics of std::string::erase(pos, n): it throws    *)
(* std::out_of_range when pos > size(), and otherwise removes              *)
(* min(n, size() - pos) characters from pos.  length() - 1 is computed in  *)
(* size_t, so on an empty string it wraps to npos = 2^64 - 1.              *)
(***************************************************************************)
EXTENDS Naturals, Sequences

CONSTANT
    SizeT   \* 2^w for the width w of size_t (2^64 on the 64-bit builds)

(* TLC runs take a smaller power of two: the arithmetic below depends only *)
(* on SizeT exceeding the length of every string considered.               *)
ASSUME SizeTAssumption == SizeT \in Nat /\ SizeT > 1

(* Result of a string operation: the new value, or a thrown out_of_range.  *)
Ok(v) == [ok |-> TRUE, val |-> v]
OutOfRange == [ok |-> FALSE, val |-> << >>]

MinNat(a, b) == IF a <= b THEN a ELSE b

(* std::string::erase(pos, n) on s; positions are 0-based as in C++.       *)
Erase(s, pos, n) ==
    IF pos > Len(s) THEN OutOfRange
    ELSE Ok(SubSeq(s, 1, pos) \o SubSeq(s, pos + MinNat(n, Len(s) - pos) + 1, Len(s)))

(* Mutant: the second erase at length() instead of length() - 1.           *)
StripQuotesAtLength(s) ==
    LET first == Erase(s, 0, 1)
    IN  IF ~first.ok THEN first
        ELSE Erase(first.val, Len(first.val) % SizeT, 1)

(* The two erase calls in sequence; the first exception propagates.        *)
StripQuotes(s) ==
    LET first == Erase(s, 0, 1)
    IN  IF ~first.ok THEN first
        ELSE Erase(first.val, (Len(first.val) - 1) % SizeT, 1)

=============================================================================
