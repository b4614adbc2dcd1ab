----------------------------- MODULE TcpOptions ------------------------------
(***************************************************************************)
(* The TCP options of a packet as tcpoptions.c reads and changes them.     *)
(*                                                                         *)
(* A packet is its option area (opt), the memory behind it (rest), which   *)
(* begins with the TCP data, and the number of data bytes (n).  Offsets    *)
(* count from 0 at the first option, as in the code, and may lie behind    *)
(* the area.  The pointers the code returns are offsets, NULL is -1.       *)
(* fault: a NULL pointer was followed.  IP and TCP header are left out but *)
(* for their lengths, which opt and n give.                                *)
(***************************************************************************)
EXTENDS Integers, Sequences, SequencesExt

TCPOPT_EOL == 0
TCPOPT_NOP == 1
NOD == 33
NULL == -1
MaxArea == 40                  \* doff <= 15
ONOP == <<79, 78, 79, 80>>

Zeros(k) == [i \in 1 .. k |-> 0]
TcpData(p) == SubSeq(p.rest, 1, p.n)

-----------------------------------------------------------------------------
(* Memory *)

Byte(p, i) ==
  IF i < Len(p.opt) THEN p.opt[i + 1]
  ELSE IF i < Len(p.opt \o p.rest) THEN p.rest[i + 1 - Len(p.opt)] ELSE 0
Bytes(p, i, k) == [j \in 1 .. k |-> Byte(p, i + j - 1)]

\* s written at offset i.
Put(p, i, s) ==
  LET put(j, old) == IF j - i \in DOMAIN s THEN s[j - i] ELSE old
  IN  [p EXCEPT !.opt = [j \in DOMAIN @ |-> put(j, @[j])],
                !.rest = [j \in DOMAIN @ |-> put(j + Len(p.opt), @[j])]]
memmove(p, to, from, k) == Put(p, to, Bytes(p, from, k))

-----------------------------------------------------------------------------
(* Options *)

optlen(p, i) ==
  IF Byte(p, i) <= TCPOPT_NOP \/ Byte(p, i + 1) = 0 THEN 1 ELSE Byte(p, i + 1)

\* The offsets a loop over the options visits from i on.
RECURSIVE Visited(_, _)
Visited(p, i) ==
  IF i >= Len(p.opt) THEN <<>> ELSE <<i>> \o Visited(p, (i + optlen(p, i)) % 256)

FirstOf(s) == IF s = <<>> THEN NULL ELSE Head(s)

get_tcpopt(p, kind) == FirstOf(SelectSeq(Visited(p, 0), LAMBDA i : Byte(p, i) = kind))

\* NOPs removed from offset i on, zeros shifted in at the end; up to the
\* end of the options, or of the area.
RECURSIVE WithoutNop(_, _, _)
WithoutNop(p, i, to) ==
  IF i >= Len(p.opt) \/ (to = "EOL" /\ Byte(p, i) = TCPOPT_EOL) THEN p
  ELSE IF Byte(p, i) = TCPOPT_NOP
  THEN WithoutNop(Put(memmove(p, i, i + 1, Len(p.opt) - i - 1), Len(p.opt) - 1, <<0>>), i, to)
  ELSE WithoutNop(p, (i + optlen(p, i)) % 256, to)

remove_tcpopt_nop(p) == WithoutNop(p, 0, "end")

\* Mutant: the byte before the end of the options is taken as free.
FreeSpaceAndOne(p) ==
  LET eol == get_tcpopt(p, TCPOPT_EOL) IN IF eol = NULL THEN 0 ELSE Len(p.opt) - eol + 1

\* What get_tcpopt_freespace returns, once the NOPs are removed.
FreeSpace(p) ==
  LET eol == get_tcpopt(p, TCPOPT_EOL) IN IF eol = NULL THEN 0 ELSE Len(p.opt) - eol

\* Double words needed for more bytes, with so much free.
AddOff(free, bytes) == IF free < bytes THEN (bytes - free + 3) \div 4 ELSE 0

\* Mutant: the area grows over the data, which stay where they are.
GrownOver(p, addoff) ==
  [p EXCEPT !.opt = @ \o Zeros(4 * addoff), !.rest = SubSeq(@, 4 * addoff + 1, Len(@))]

\* The area grown, the data moved behind it.
Grown(p, addoff) ==
  [p EXCEPT !.opt = @ \o Zeros(4 * addoff),
            !.rest = TcpData(p) \o SubSeq(@, p.n + 4 * addoff + 1, Len(@))]

add_tcpopt_addoff(p, addoff) ==
  IF addoff > 0 /\ Len(p.opt) + 4 * addoff <= MaxArea
  THEN [ret |-> 0, pkt |-> Grown(p, addoff)]
  ELSE [ret |-> -1, pkt |-> p]

add_tcpopt_bytes(p, bytes) ==
  LET q == remove_tcpopt_nop(p) IN add_tcpopt_addoff(q, AddOff(FreeSpace(q), bytes))

AtEnd(p, eol, kind, len) ==
  IF eol = NULL THEN [pkt |-> p, at |-> NULL]
  ELSE [pkt |-> Put(p, eol, <<kind, len>>), at |-> eol]

(* set_tcpopt: the packet and where the option is. *)
set_tcpopt(p, kind, len) ==
  IF get_tcpopt(p, kind) # NULL THEN [pkt |-> p, at |-> get_tcpopt(p, kind)]
  ELSE LET q == add_tcpopt_bytes(p, 2).pkt
       IN  AtEnd(q, get_tcpopt(q, TCPOPT_EOL), kind, len)

(* Room for bytes at an offset: what is there moves up to the end of the   *)
(* options, which are assumed to have the room.                            *)
shift_tcpopt_space(p, location, bytes) ==
  LET eol == get_tcpopt(p, TCPOPT_EOL)
  IN  IF eol = NULL THEN p
      ELSE Put(memmove(p, location + bytes, location, (eol - location) % 256),
               location, <<65>> \o Zeros(bytes - 2) \o <<90>>)

-----------------------------------------------------------------------------
(* The header of OpenNOP in the NOD option: tot_len, idlen (3 bits) and    *)
(* hdr_len (5 bits), the ID ONOP, the header data.                         *)

IdLen(p, h) == Byte(p, h + 1) % 8
HdrLen(p, h) == Byte(p, h + 1) \div 8
\* Mutant: the bit fields in the order of the other byte order.
LengthsSwapped(idlen, hdrlen) == (hdrlen % 32) + 32 * (idlen % 8)
Lengths(idlen, hdrlen) == (idlen % 8) + 8 * (hdrlen % 32)

(* No other headers are expected in the option: get_nod_next_header is not *)
(* reached by the packets of OpenNOP.                                      *)
get_nod_header(p) ==
  LET nod == get_tcpopt(p, NOD)
  IN  IF /\ nod # NULL /\ Byte(p, nod + 1) > 2
         /\ IdLen(p, nod + 2) = Len(ONOP) /\ Bytes(p, nod + 4, Len(ONOP)) = ONOP
      THEN nod + 2 ELSE NULL

\* A new header at h, behind what is in the option at nod.
WithHeader(p, nod, h) ==
  LET len == 2 + Len(ONOP)
      q == shift_tcpopt_space(p, h, len)
  IN  Put(Put(q, nod + 1, <<(Byte(q, nod + 1) + len) % 256>>),
          h, <<len, Lengths(Len(ONOP), len)>> \o ONOP)

NewHeader(p, nod) ==
  LET h == nod + Byte(p, nod + 1) IN [pkt |-> WithHeader(p, nod, h), at |-> h]

\* s: the packet with the option, and where it is.
HeaderIn(s) ==
  IF get_nod_header(s.pkt) # NULL THEN [pkt |-> s.pkt, at |-> get_nod_header(s.pkt)]
  ELSE IF s.at = NULL THEN [pkt |-> [s.pkt EXCEPT !.fault = TRUE], at |-> NULL]
  ELSE NewHeader(add_tcpopt_bytes(s.pkt, 2 + Len(ONOP)).pkt, s.at)

set_nod_header(p) == HeaderIn(set_tcpopt(p, NOD, 2))

\* <<>> stands for NULL.
get_nod_header_data(p) ==
  LET h == get_nod_header(p)
  IN  IF h # NULL /\ HdrLen(p, h) > IdLen(p, h) + 2
      THEN Bytes(p, h + IdLen(p, h) + 2, HdrLen(p, h) - (IdLen(p, h) + 2)) ELSE <<>>

\* The data written behind the ID, and the three lengths.
WithHeaderData(p, nod, h, data) ==
  LET len == Len(data)
      q == shift_tcpopt_space(p, h + HdrLen(p, h), len)
      r == Put(q, nod + 1, <<(Byte(q, nod + 1) + len) % 256>>)
      t == Put(r, h, <<(Byte(r, h) + len) % 256, Lengths(IdLen(r, h), HdrLen(r, h) + len)>>)
  IN  Put(t, h + IdLen(t, h) + 2, data)

\* g: what add_tcpopt_bytes returned.
DataIfRoom(g, nod, h, data) ==
  IF g.ret # 0 THEN g.pkt
  ELSE LET q == remove_tcpopt_nop(g.pkt)
       IN  IF FreeSpace(q) >= Len(data) THEN WithHeaderData(q, nod, h, data) ELSE q

\* s: the packet with the header, and where it is.
DataIn(s, nod, data) ==
  IF s.at = NULL \/ nod = NULL \/ HdrLen(s.pkt, s.at) # IdLen(s.pkt, s.at) + 2 THEN s.pkt
  ELSE DataIfRoom(add_tcpopt_bytes(s.pkt, Len(data)), nod, s.at, data)

set_nod_header_data(p, data) ==
  LET s == set_nod_header(p) IN DataIn(s, get_tcpopt(s.pkt, NOD), data)

-----------------------------------------------------------------------------
(* The other options *)

Value(bytes) == FoldLeft(LAMBDA v, b : 256 * v + b, 0, bytes)
BigEndian(v, k) == [i \in 1 .. k |-> (v \div 256 ^ (k - i)) % 256]

__get_tcp_option(p, kind) ==
  LET found(i) == Byte(p, i) = kind /\ Len(p.opt) + 20 - i >= Byte(p, i + 1)
      i == FirstOf(SelectSeq(Visited(p, 0), found))
  IN  IF i = NULL THEN 0
      ELSE IF Byte(p, i + 1) = 2 THEN 1 ELSE Value(Bytes(p, i + 2, Byte(p, i + 1) - 2))

(* Overwritten if there is one of this length, else put in front of the    *)
(* others, if there is room.                                               *)
__set_tcp_option(p, kind, len, value) ==
  LET found(i) == /\ Byte(p, i) = kind /\ Byte(p, i + 1) = len
                  /\ Len(p.opt) + 20 - i >= len
      i == FirstOf(SelectSeq(Visited(p, 0), found))
      q == WithoutNop(p, 0, "EOL")
      addoff == AddOff(FreeSpace(q), len)
      option == <<kind, len>> \o BigEndian(value, len - 2)
  IN  IF i # NULL THEN Put(p, i, option)
      ELSE IF Len(q.opt) + 4 * addoff <= MaxArea
      THEN Put(memmove(Grown(q, addoff), len, 0, Len(q.opt) - FreeSpace(q)), 0, option)
      ELSE q

=============================================================================
