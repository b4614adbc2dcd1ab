---------------------------- MODULE MCOptionPath -----------------------------
EXTENDS OptionPath, FiniteSetsExt

CONSTANTS MaxOptions,   \* options and NOPs in a packet
          Paddings      \* bytes of padding around one option or none

Nop == <<TCPOPT_NOP>>
Opt(kind, len) == <<kind, len>> \o [i \in 1 .. len - 2 |-> 100 + i]
Mss == {<<MSS, 4>> \o BigEndian(v, 2) : v \in {60, 61, 1460}}

\* SYN: window scale, SACK permitted, time stamps, a Fast Open cookie.
\* Others: time stamps, and SACK with one, two or three blocks.
SynOptions == Mss \cup {Nop, Opt(3, 3), Opt(4, 2), Opt(8, 10), Opt(34, 18)}
DataOptions == {Nop, Opt(8, 10), Opt(5, 10), Opt(5, 18), Opt(5, 26)}

\* No kind but NOP twice, and all within the area.
Legal(s) ==
  /\ Len(FlattenSeq(s)) <= MaxArea
  /\ \A i, j \in DOMAIN s : i # j /\ s[i][1] = s[j][1] => s[i] = Nop

\* NOPs before, or ends of options behind.
Fill(byte, k) == [i \in 1 .. k |-> <<byte>>]
Padded ==
  LET few == {<<>>} \cup {<<o>> : o \in Mss \cup DataOptions}
  IN  {Fill(TCPOPT_NOP, k) \o s : k \in Paddings, s \in few}
        \cup {s \o Fill(TCPOPT_EOL, k) : k \in Paddings, s \in few}

MCSegments ==
  {s \in SeqOf(SynOptions, MaxOptions) : Legal(s) /\ \E i \in DOMAIN s : s[i] \in Mss}
    \cup {s \in SeqOf(DataOptions, MaxOptions) : Legal(s)}
    \cup {s \in Padded : Len(FlattenSeq(s)) <= MaxArea}
=============================================================================
