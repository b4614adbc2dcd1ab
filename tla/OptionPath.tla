----------------------------- MODULE OptionPath ------------------------------
(***************************************************************************)
(* A packet on its way from one TCP endpoint to the other, through the     *)
(* accelerators 1 .. Hops in this order.  Each of them looks for the ID of *)
(* another accelerator in the NOD option and then either puts its own ID   *)
(* there and may compress the data, or restores the data.                  *)
(*                                                                         *)
(* sent is the packet as the endpoint sent it, pkt as it is now, at the    *)
(* number of accelerators it has passed.  known: every accelerator that    *)
(* found an ID found it in its domain.  zipped: its data were compressed.  *)
(***************************************************************************)
EXTENDS TcpOptions, Checksum

CONSTANTS
  Segments,   \* the option lists of the endpoints' packets, an option a sequence of bytes
  Payload,    \* the numbers of data bytes in a packet
  Hops        \* accelerators on the path

VARIABLES sent, pkt, at, known, zipped

vars == <<sent, pkt, at, known, zipped>>

MSS == 2
FLAG == 31
Slack == 24         \* bytes behind the data in the packet's buffer

get_opennop_id(a) == <<10, 0, 0, a>>

-----------------------------------------------------------------------------
(* QuickLZ.  What matters: the data get shorter, or else are left alone;   *)
(* decompressing undoes compressing; any change shows.                     *)

qlz_compress(d) ==
  IF Len(d) > 3 THEN [i \in 1 .. Len(d) - 3 |-> (d[i] + 50) % 256] ELSE d
qlz_decompress(z) ==
  [i \in 1 .. Len(z) + 3 |->
     IF i <= Len(z) THEN (z[i] + 206) % 256 ELSE (z[Len(z)] + 206 + i - Len(z)) % 256]

WithData(p, d) ==
  [p EXCEPT !.rest = d \o SubSeq(@, Len(d) + 1, Len(@)), !.n = Len(d)]

Shrinks(p) == Len(qlz_compress(TcpData(p))) < p.n

tcp_compress(p) ==
  IF Shrinks(p)
  THEN [__set_tcp_option(WithData(p, qlz_compress(TcpData(p))), FLAG, 3, 1)
          EXCEPT !.seq = @ + 8000]
  ELSE p

tcp_decompress(p) ==
  [__set_tcp_option(WithData(p, qlz_decompress(TcpData(p))), FLAG, 3, 0)
     EXCEPT !.seq = @ - 8000]

-----------------------------------------------------------------------------
(* The packet's bytes.  An IP header of 20 bytes; what no accelerator      *)
(* changes are numbers with which the sums have carries.                   *)
Addresses == <<192, 168, 254, 7, 192, 168, 255, 9>>
Word(v) == BigEndian(v % 2 ^ 16, 2)

IpHeader(p, check) ==
  <<69, 0>> \o Word(40 + Len(p.opt) + p.n) \o <<250, 3, 64, 0, 63, 6>>
    \o Word(check) \o Addresses

TcpSegment(p, check) ==
  LET seq == 60000 + p.seq
  IN  <<201, 15, 0, 80>> \o Word(seq \div 2 ^ 16) \o Word(seq) \o <<240, 1, 2, 3>>
        \o <<16 * (5 + Len(p.opt) \div 4), 24, 255, 255>> \o Word(check) \o <<0, 0>>
        \o p.opt \o TcpData(p)

checksum(p) ==
  [p EXCEPT !.check = tcp_sum_calc(Addresses, TcpSegment(p, 0)),
            !.ipcheck = ip_sum_calc(IpHeader(p, 0))]

-----------------------------------------------------------------------------
(* Packets of the endpoints: the options, end of options up to the next    *)
(* double word.                                                            *)

Area(s) == LET b == FlattenSeq(s) IN b \o Zeros((4 - (Len(b) % 4)) % 4)
Packet(s, n) ==
  checksum([opt |-> Area(s), rest |-> [i \in 1 .. n |-> 10 + i] \o Zeros(Slack), n |-> n,
            seq |-> 0, fault |-> FALSE, syn |-> \E i \in DOMAIN s : s[i][1] = MSS,
            check |-> 0, ipcheck |-> 0])

Init ==
  /\ \E s \in Segments, n \in Payload : sent = Packet(s, n)
  /\ pkt = sent
  /\ at = 0
  /\ known = TRUE
  /\ zipped = FALSE

HasId == get_nod_header_data(pkt) # <<>>

\* No ID is found, or it is found and not in the domain.
NotVerified == known' = (known /\ ~ HasId)

Pass(p) ==
  /\ at < Hops /\ ~ pkt.fault
  /\ at' = at + 1
  /\ pkt' = p
  /\ UNCHANGED sent

(* fetcher_callback, SYN or SYN/ACK: the MSS is lowered to make up for the *)
(* header.  The checksums of a SYN/ACK are always calculated again, those  *)
(* of a SYN only here.                                                     *)
Again(synack, p) == IF synack THEN checksum(p) ELSE p

syn_marked(synack) ==
  /\ pkt.syn
  /\ NotVerified
  /\ LET mms == __get_tcp_option(pkt, MSS) % 2 ^ 16
     IN  Pass(IF mms > 60
              THEN checksum(set_nod_header_data(__set_tcp_option(pkt, MSS, 4, mms - 60),
                                                get_opennop_id(at + 1)))
              ELSE Again(synack, pkt))
  /\ UNCHANGED zipped

(* ... with the ID of a neighbor: it is only saved in the session. *)
syn_accepted(synack) ==
  /\ pkt.syn /\ HasId
  /\ Pass(Again(synack, pkt))
  /\ UNCHANGED <<known, zipped>>

(* worker_thread, optimize: the session tells whether to compress.  The    *)
(* keepalive of sessioncleanup.c is the packet without options and data.   *)
optimize(compress) ==
  /\ ~ pkt.syn
  /\ NotVerified
  /\ LET q == set_nod_header_data(pkt, get_opennop_id(at + 1))
     IN  /\ Pass(checksum(IF compress THEN tcp_compress(q) ELSE q))
         /\ zipped' = (zipped \/ (compress /\ Shrinks(q)))

(* ... deoptimize: the session tells whether this accelerator is the one   *)
(* to restore the data.  A packet that is flagged has data.                *)
deoptimize(mine) ==
  /\ ~ pkt.syn /\ HasId
  /\ Pass(checksum(IF __get_tcp_option(pkt, FLAG) # 0 /\ mine THEN tcp_decompress(pkt)
                                                               ELSE pkt))
  /\ UNCHANGED <<known, zipped>>

\* The packet is delivered, or the daemon has crashed.
Done == (at = Hops \/ pkt.fault) /\ UNCHANGED vars

Next ==
  \/ \E b \in BOOLEAN :
       syn_marked(b) \/ syn_accepted(b) \/ optimize(b) \/ deoptimize(b)
  \/ Done

Spec == Init /\ [][Next]_vars

-----------------------------------------------------------------------------
(* The options of a packet that are not OpenNOP's and not padding. *)
OptionsOf(p) ==
  LET others == SelectSeq(Visited(p, 0),
                          LAMBDA i : Byte(p, i) \notin {TCPOPT_EOL, TCPOPT_NOP, NOD, FLAG})
  IN  [j \in DOMAIN others |-> Bytes(p, others[j], optlen(p, others[j]))]

(* The options leave room for the header of 12 bytes and, when the data    *)
(* may be compressed, the flag of 3 bytes.                                 *)
Room ==
  Len(FlattenSeq(OptionsOf(sent))) + 12 + (IF sent.syn THEN 0 ELSE 3) <= MaxArea

(* ... and there are fewer bytes of padding than the header takes.  With   *)
(* as many, the area need not grow, add_tcpopt_addoff returns -1 for that  *)
(* (addoff 0), and set_nod_header_data takes this for a failure: the       *)
(* header is written without the ID, and the next accelerator takes the    *)
(* packet for one that none has seen.                                      *)
Padding == Len(sent.opt) - Len(FlattenSeq(OptionsOf(sent)))
Takes == Room /\ Padding < 12

(* What an MSS option becomes at the first accelerator. *)
Lowered(o) ==
  IF o[1] = MSS /\ Value(SubSeq(o, 3, 4)) > 60
  THEN SubSeq(o, 1, 2) \o BigEndian(Value(SubSeq(o, 3, 4)) - 60, 2) ELSE o

(* The area is made of double words and no longer than the TCP header      *)
(* allows, the options fill it exactly, a flagged packet has data, and     *)
(* with room for the options no NULL pointer is followed.                  *)
TypeOK ==
  /\ at \in 0 .. Hops /\ known \in BOOLEAN /\ zipped \in BOOLEAN
  /\ Len(pkt.opt) % 4 = 0 /\ Len(pkt.opt) <= MaxArea
  /\ pkt.n <= Len(pkt.rest)
  /\ Room => /\ ~ pkt.fault
             /\ __get_tcp_option(pkt, FLAG) # 0 => pkt.n > 0
             /\ \A i \in ToSet(Visited(pkt, 0)) : i + optlen(pkt, i) <= Len(pkt.opt)

(* Through any number of accelerators, each of which takes room in the     *)
(* options, moves the data, compresses or restores them, what the flag     *)
(* says the data are is what the endpoint sent, under its sequence number, *)
(* for a packet that takes the ID: without it the next accelerator may     *)
(* compress the data once more, and the flag says so once.                 *)
(* Nor is the header written over the data of a packet not compressed if   *)
(* there are 12 bytes behind the options but not the 3 of the flag: what     *)
(* add_tcpopt_addoff's failure is for ("the required data cannot be added  *)
(* to the packet").  Without the 12 bytes it is, since set_nod_header      *)
(* ignores the failure: a data packet with time stamps and three SACK      *)
(* blocks loses bytes.                                                     *)
DataIntact ==
  /\ Takes /\ known =>
       IF __get_tcp_option(pkt, FLAG) # 0
       THEN qlz_decompress(TcpData(pkt)) = TcpData(sent) /\ pkt.seq = sent.seq + 8000
       ELSE TcpData(pkt) = TcpData(sent) /\ pkt.seq = sent.seq
  /\ Len(FlattenSeq(OptionsOf(sent))) + 12 <= MaxArea /\ ~ zipped =>
       TcpData(pkt) = TcpData(sent)

(* Taking NOPs out, growing the area and putting the header behind and the *)
(* flag before the endpoint's options leaves these as they were, in their  *)
(* order; the MSS is 60 less, once, if the packet takes the ID.  The area  *)
(* stays one that can be walked (TypeOK).                                  *)
OptionsKept ==
  /\ TypeOK
  /\ Takes /\ known =>
       OptionsOf(pkt) = [i \in DOMAIN OptionsOf(sent) |->
                           IF at > 0 THEN Lowered(OptionsOf(sent)[i]) ELSE OptionsOf(sent)[i]]

(* Every accelerator behind the first finds the ID of the first, also when *)
(* one between them does not know it and tries to set its own; but not if  *)
(* the packet came with 12 bytes of padding.                               *)
IdArrives ==
  Takes /\ at > 0 /\ (sent.syn => __get_tcp_option(sent, MSS) > 60) =>
    get_nod_header_data(pkt) = get_opennop_id(1)

(* "Changing anything requires the IP and TCP checksum to need             *)
(* recalculated" (fetcher.c): whatever was done to a packet, with an odd   *)
(* or an even number of bytes and with room or without, what an            *)
(* accelerator sends on passes the receiver's test.                        *)
ChecksumsRight ==
  ~ pkt.fault =>
    LET segment == TcpSegment(pkt, pkt.check)
    IN  /\ Verifies(Addresses \o <<0, 6>> \o Word(Len(segment)) \o segment)
        /\ Verifies(IpHeader(pkt, pkt.ipcheck))

=============================================================================
