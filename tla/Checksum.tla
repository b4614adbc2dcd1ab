------------------------------ MODULE Checksum -------------------------------
(***************************************************************************)
(* The checksums of csum.c, on sequences of bytes.  The code reads the     *)
(* packet as 16-bit words in network order, adds them up, adds in the      *)
(* carries and takes the complement.                                       *)
(***************************************************************************)
EXTENDS Naturals, Sequences

\* The sum of the first Len(b) \div 2 words of b.
WordSum(b) ==
  LET s[i \in 0 .. Len(b) \div 2] ==
        IF i = 0 THEN 0 ELSE s[i - 1] + 256 * b[2 * i - 1] + b[2 * i]
  IN  s[Len(b) \div 2]

(* while (sum >> 16) *)
Carried[sum \in Nat] ==
  IF sum < 2 ^ 16 THEN sum ELSE Carried[(sum % 2 ^ 16) + (sum \div 2 ^ 16)]

Complement(sum) == 2 ^ 16 - 1 - Carried[sum]

ip_sum_calc(b) == Complement(WordSum(b))

\* Mutant of LastByte: a byte behind the last whole word is left out.
LastByte_dropped(b) == 0

(* The byte behind the last whole word of an odd segment is the high one   *)
(* of a word: on a little-endian machine ntohs moves it there.             *)
LastByte(b) == IF Len(b) % 2 = 1 THEN 256 * b[Len(b)] ELSE 0

(* addresses: of source and destination; 6: the protocol. *)
tcp_sum_calc(addresses, b) ==
  Complement(WordSum(addresses) + Len(b) + 6 + WordSum(b) + LastByte(b))

-----------------------------------------------------------------------------
(* What a receiver checks: padded to whole words, the bytes with the       *)
(* checksum among them are 0 modulo 2^16 - 1.                              *)
Verifies(b) ==
  LET r[i \in 0 .. Len(b)] ==
        IF i = 0 THEN 0
        ELSE (r[i - 1] + (IF i % 2 = 1 THEN 256 ELSE 1) * b[i]) % (2 ^ 16 - 1)
  IN  r[Len(b)] = 0

=============================================================================
