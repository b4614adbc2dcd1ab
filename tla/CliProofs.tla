------------------------------ MODULE CliProofs ------------------------------
(***************************************************************************)
(* Proofs about Cli, for any number of clients, descriptors and lines and  *)
(* any tables of commands that meet TableAssumption.                       *)
(*                                                                         *)
(* OwnThread is not inductive.  That a thread which reads client_sock      *)
(* finds its own client there, and one that closes a descriptor its own    *)
(* connection, is in Own: the descriptor of a client that was accepted is  *)
(* given to nobody else until its thread closes it, and nobody closes it   *)
(* but its thread.                                                         *)
(*                                                                         *)
(* RightHandler needs that all that is in the tree comes from the tables   *)
(* (FromTable) and that what a registrar is through with is there          *)
(* (Registered).  The search for a command's own line then goes down its   *)
(* path to the word where it stops (FirstStop), and what is executed there *)
(* is the command's function or nothing (Outcome).                         *)
(***************************************************************************)
EXTENDS Cli, SequenceTheorems, WellFoundedInduction, TLAPS

\* A registrar is at one of its commands, and at one of its words, or done.
RegistersTyped ==
  /\ reg \in [Registrar -> [n : Nat, words : Nat]]
  /\ \A r \in Registrar :
       /\ reg[r].n \in 1 .. Len(Commands(r)) + 1
       /\ reg[r].n <= Len(Commands(r)) => reg[r].words <= Len(Commands(r)[reg[r].n].words)

\* A thread that waits for a client's lines has a descriptor.
HaveSockets == \A t \in Slot : th[t].pc = "recv" /\ th[t].on # NULL => th[t].sock \in Fd

\* Whose the descriptors are, as long as client_sock is read in time.
Own ==
  /\ \A c \in Client : conn[c] \in {"out", "connecting"} =>
       th[c].pc = "none" /\ \A d \in Fd : fdt[d] # c
  /\ \A t \in Client : th[t].pc = "start" => client_sock \in Fd /\ fdt[client_sock] = t
  /\ \A t \in Client : IF th[t].pc = "recv"
                         THEN th[t].sock \in Fd /\ fdt[th[t].sock] = t /\ th[t].on = t
                         ELSE th[t].on = NULL
  /\ th[NULL].pc = "start" => client_sock = 0
  /\ th[NULL].on = NULL
  /\ \A d, e \in Fd : fdt[d] # NULL /\ fdt[d] = fdt[e] => d = e
  /\ \A d \in Fd : fdt[d] # NULL => fdt[d] \in left \/ th[fdt[d]].pc \in {"start", "recv"}
  /\ \A c \in Client : conn[c] = "gone" => c \in left \/ th[c].pc = "done"

Inv == TypeOK /\ RegistersTyped /\ HaveSockets /\ (~ overwritten => Own)

-----------------------------------------------------------------------------
(* The tree of commands *)

(* A registrar's commands are a sequence, *)
LEMMA CommandsTyped ==
  ASSUME NEW r \in Registrar PROVE Commands(r) \in Seq(CommandType) /\ Len(Commands(r)) \in Nat
BY CommandAssumption DEF Commands

(* each with its words. *)
LEMMA CommandFacts ==
  ASSUME NEW r \in Registrar, NEW n \in 1 .. Len(Commands(r))
  PROVE  /\ Commands(r)[n] \in CommandType /\ Commands(r)[n] \in Table
         /\ Len(Commands(r)[n].words) \in Nat
<1>2. Commands(r)[n] \in CommandType /\ n \in DOMAIN Commands(r)
  BY CommandsTyped
<1>3. Commands(r)[n] \in Table
  <2>1. Commands(r)[n] \in {Commands(r)[m] : m \in DOMAIN Commands(r)}
    BY <1>2, Zenon
  <2> QED
    BY <2>1, Zenon DEF Table
<1>4. Commands(r)[n].words \in Seq(STRING)
  BY <1>2, Zenon DEF CommandType
<1> QED
  BY <1>2, <1>3, <1>4

(* What register_command goes through are nodes of the tree, *)
LEMMA PathIsNode ==
  ASSUME NEW c \in Table, NEW k \in 0 .. Len(c.words)
  PROVE  Path(c, k) \in Node
<1>1. Path(c, k) \in {Path(c, n) : n \in 0 .. Len(c.words)}
  BY Zenon
<1> QED
  BY <1>1, Zenon DEF Node

(* one word longer each time. *)
LEMMA PathGoesOn ==
  ASSUME NEW c \in CommandType, NEW k \in Nat, k + 1 <= Len(c.words)
  PROVE  Append(Path(c, k), c.words[k + 1]) = Path(c, k + 1)
<1> DEFINE w == c.words
<1>1. w \in Seq(STRING) /\ c.mode \in STRING
  BY Zenon DEF CommandType
<1>2. SubSeq(w, 1, k + 1) = Append(SubSeq(w, 1, k), w[k + 1])
  BY <1>1
<1>3. SubSeq(w, 1, k) \in Seq(STRING) /\ <<c.mode>> \in Seq(STRING) /\ w[k + 1] \in STRING
  BY <1>1
<1> HIDE DEF w
<1>4. Append(<<c.mode>> \o SubSeq(w, 1, k), w[k + 1]) = <<c.mode>> \o Append(SubSeq(w, 1, k), w[k + 1])
  BY <1>3
<1> QED
  BY <1>2, <1>4, Zenon DEF w, Path, Root

Words == UNION {{c.words[i] : i \in DOMAIN c.words} : c \in Table}

(* A word of a command is a word of the table. *)
LEMMA WordIsOne ==
  ASSUME NEW c \in Table, NEW i \in DOMAIN c.words PROVE c.words[i] \in Words
<1>1. c.words[i] \in {c.words[j] : j \in DOMAIN c.words}
  BY Zenon
<1> QED
  BY <1>1, Zenon DEF Words

(* A registrar that goes on to another word or command is at one. *)
LEMMA RegistersMove ==
  ASSUME RegistersTyped, NEW r \in Registrar, NEW n \in Nat, NEW k \in Nat,
         reg' = [reg EXCEPT ![r] = [n |-> n, words |-> k]],
         n \in 1 .. Len(Commands(r)) + 1,
         n <= Len(Commands(r)) => k <= Len(Commands(r)[n].words)
  PROVE  RegistersTyped'
<1>1. reg' \in [Registrar -> [n : Nat, words : Nat]]
  BY DEF RegistersTyped
<1>2. ASSUME NEW q \in Registrar
      PROVE  /\ reg'[q].n \in 1 .. Len(Commands(q)) + 1
             /\ reg'[q].n <= Len(Commands(q)) => reg'[q].words <= Len(Commands(q)[reg'[q].n].words)
  <2>1. CASE q = r
    BY <2>1 DEF RegistersTyped
  <2>2. CASE q # r
    BY <2>2 DEF RegistersTyped
  <2> QED
    BY <2>1, <2>2, Zenon
<1> QED
  BY <1>1, <1>2, Zenon DEF RegistersTyped

(* register_command adds a word to a node, unless it is there. *)
LEMMA WordStep ==
  ASSUME TypeOK, RegistersTyped, NEW r \in Registrar, register_word(r)
  PROVE  children' \in [Node -> Seq(Words)] /\ RegistersTyped' /\ (WordsOnce => WordsOnce')
<1> DEFINE c == Commands(r)[reg[r].n]
           k == reg[r].words
           n == Path(c, k)
<1>1. reg[r].n \in 1 .. Len(Commands(r)) /\ reg[r].n \in Nat /\ k \in Nat
  BY DEF RegistersTyped, register_word, CanRegister, Done
<1>2. c \in CommandType /\ c \in Table /\ Len(c.words) \in Nat /\ c.words \in Seq(STRING)
  BY <1>1, CommandFacts, Zenon DEF CommandType
<1>3. k \in 0 .. Len(c.words) /\ k + 1 \in DOMAIN c.words /\ k + 1 <= Len(c.words)
  BY <1>1, <1>2 DEF register_word
<1>4. n \in Node /\ c.words[k + 1] \in Words
  BY <1>2, <1>3, PathIsNode, WordIsOne, Zenon
<1>5. children \in [Node -> Seq(Words)]
  BY Zenon DEF TypeOK, Words
<1>6. children' = AddWord(n, c.words[k + 1]) /\ reg' = [reg EXCEPT ![r].words = k + 1]
  BY Zenon DEF register_word
<1> HIDE DEF n, c, k
<1>7. ASSUME Has(n, c.words[k + 1])
      PROVE  children' \in [Node -> Seq(Words)] /\ (WordsOnce => WordsOnce')
  <2>1. children' = children
    BY <1>6, <1>7, Zenon DEF AddWord
  <2> QED
    BY <1>5, <2>1, Zenon DEF WordsOnce
<1>8. ASSUME ~ Has(n, c.words[k + 1])
      PROVE  children' \in [Node -> Seq(Words)] /\ (WordsOnce => WordsOnce')
  <2>1. children' = [children EXCEPT ![n] = Append(children[n], c.words[k + 1])]
    BY <1>6, <1>8, Zenon DEF AddWord
  <2>2. children[n] \in Seq(Words) /\ Append(children[n], c.words[k + 1]) \in Seq(Words)
    BY <1>4, <1>5
  <2>3. ASSUME WordsOnce, NEW m \in Node, NEW i \in DOMAIN children'[m], NEW j \in DOMAIN children'[m],
               children'[m][i] = children'[m][j]
        PROVE  i = j
    <3>1. CASE m = n
      BY <1>4, <1>5, <1>8, <2>1, <2>2, <2>3, <3>1 DEF WordsOnce, Has
    <3>2. CASE m # n
      BY <1>4, <1>5, <2>1, <2>3, <3>2, Zenon DEF WordsOnce
    <3> QED
      BY <3>1, <3>2, Zenon
  <2> QED
    BY <1>4, <1>5, <2>1, <2>2, <2>3, Zenon DEF WordsOnce
<1>9. RegistersTyped'
  <2>1. [reg[r] EXCEPT !.words = k + 1] = [n |-> reg[r].n, words |-> k + 1]
    BY DEF RegistersTyped
  <2>2. reg' = [reg EXCEPT ![r] = [n |-> reg[r].n, words |-> k + 1]]
    BY <1>6, <2>1, Zenon
  <2>3. k + 1 \in Nat /\ k + 1 <= Len(Commands(r)[reg[r].n].words)
    BY <1>1, <1>3 DEF c
  <2>4. reg[r].n \in 1 .. Len(Commands(r)) + 1
    BY Zenon DEF RegistersTyped
  <2> QED
    BY <1>1, <2>2, <2>3, <2>4, RegistersMove, Zenon
<1> QED
  BY <1>5, <1>7, <1>8, <1>9, Zenon

(* register_command sets the handler of a command's last word. *)
LEMMA HandlerStep ==
  ASSUME TypeOK, RegistersTyped, NEW r \in Registrar, register_handler(r)
  PROVE  /\ function' \in [Node -> {c.function : c \in Table} \cup {NULL}]
         /\ RegistersTyped'
<1> DEFINE c == Commands(r)[reg[r].n]
<1>1. reg[r].n \in 1 .. Len(Commands(r)) /\ reg[r].n \in Nat /\ Len(Commands(r)) \in Nat
  BY CommandsTyped DEF RegistersTyped, register_handler, CanRegister, Done
<1>2. c \in CommandType /\ c \in Table /\ Len(c.words) \in Nat
  BY <1>1, CommandFacts, Zenon
<1>3. Path(c, Len(c.words)) \in Node
  <2>1. Len(c.words) \in 0 .. Len(c.words)
    BY <1>2
  <2> QED
    BY <1>2, <2>1, PathIsNode, Zenon
<1>4. function \in [Node -> {d.function : d \in Table} \cup {NULL}]
  BY Zenon DEF TypeOK
<1>5. /\ function' = [function EXCEPT ![Path(c, Len(c.words))] = c.function]
      /\ reg' = [reg EXCEPT ![r] = [n |-> reg[r].n + 1, words |-> 0]]
  BY Zenon DEF register_handler
<1> HIDE DEF c
<1>6. function' \in [Node -> {d.function : d \in Table} \cup {NULL}]
  BY <1>2, <1>3, <1>4, <1>5, Zenon
<1>7. ASSUME NEW m \in 1 .. Len(Commands(r)) PROVE 0 <= Len(Commands(r)[m].words)
  BY CommandFacts
<1>8. RegistersTyped'
  <2>1. /\ reg[r].n + 1 \in Nat /\ reg[r].n + 1 \in 1 .. Len(Commands(r)) + 1 /\ 0 \in Nat
        /\ reg[r].n + 1 <= Len(Commands(r)) => reg[r].n + 1 \in 1 .. Len(Commands(r))
    BY <1>1
  <2> QED
    BY <1>5, <1>7, <2>1, RegistersMove, Zenon
<1> QED
  BY <1>6, <1>8, Zenon

-----------------------------------------------------------------------------
(* What a line runs *)

\* What is in the tree comes from the table, and what was registered is there.
FromTable ==
  /\ \A n \in Node : \A i \in DOMAIN children[n] :
       \E d \in Table : \E k \in 0 .. Len(d.words) - 1 : n = Path(d, k) /\ children[n][i] = d.words[k + 1]
  /\ \A n \in Node : function[n] # NULL =>
       \E d \in Table : n = Path(d, Len(d.words)) /\ function[n] = d.function
HasWords(c, m) == \A k \in 0 .. m - 1 : Has(Path(c, k), c.words[k + 1])
Present(c) == HasWords(c, Len(c.words)) /\ function[Path(c, Len(c.words))] # NULL
Registered ==
  /\ reg["cli"].n > 1 => CliStarted
  /\ \A r \in Registrar : \A j \in 1 .. Len(Commands(r)) :
       /\ j < reg[r].n => Present(Commands(r)[j])
       /\ j = reg[r].n => HasWords(Commands(r)[j], reg[r].words)

TreeTyped ==
  /\ children \in [Node -> Seq(Words)] /\ RegistersTyped
  /\ function \in [Node -> {c.function : c \in Table} \cup {NULL}]
TreeInv == FromTable /\ Registered

(* A command of the table is one of some registrar. *)
LEMMA TableFacts ==
  ASSUME NEW c \in Table
  PROVE  /\ \E r \in Registrar : \E j \in 1 .. Len(Commands(r)) : c = Commands(r)[j]
         /\ c \in CommandType /\ c.words \in Seq(STRING) /\ Len(c.words) \in Nat
         /\ Len(c.words) > 0 /\ DOMAIN c.words = 1 .. Len(c.words)
<1>1. PICK r \in Registrar : c \in {Commands(r)[n] : n \in DOMAIN Commands(r)}
  BY Zenon DEF Table
<1>2. PICK j \in 1 .. Len(Commands(r)) : c = Commands(r)[j]
  BY <1>1, CommandsTyped
<1>3. c \in CommandType
  BY <1>2, CommandFacts, Zenon
<1>4. c.words \in Seq(STRING) /\ c.words # <<>>
  BY <1>3, TableAssumption, Zenon DEF CommandType
<1>5. Len(c.words) \in Nat /\ Len(c.words) > 0 /\ DOMAIN c.words = 1 .. Len(c.words)
  BY <1>4
<1> QED
  BY <1>2, <1>3, <1>4, <1>5, Zenon

(* The tree only grows: a word that is there stays. *)
LEMMA HasStays ==
  ASSUME TreeTyped, NEW n \in Node, NEW word \in Words, children' = AddWord(n, word)
  PROVE  /\ \A m \in Node : \A v : Has(m, v) => Has(m, v)'
         /\ Has(n, word)'
         /\ \A m \in Node : \A i \in DOMAIN children'[m] :
              \/ i \in DOMAIN children[m] /\ children'[m][i] = children[m][i]
              \/ m = n /\ children'[m][i] = word
<1>1. CASE Has(n, word)
  <2>1. children' = children
    BY <1>1, Zenon DEF AddWord
  <2> QED
    BY <1>1, <2>1, Zenon DEF Has
<1>2. CASE ~ Has(n, word)
  <2>1. children' = [children EXCEPT ![n] = Append(children[n], word)]
    BY <1>2, Zenon DEF AddWord
  <2>2. children[n] \in Seq(Words) /\ children'[n] = Append(children[n], word)
        /\ \A m \in Node : m # n => children'[m] = children[m]
    BY <2>1, Zenon DEF TreeTyped
  <2>3. /\ DOMAIN children'[n] = 1 .. Len(children[n]) + 1 /\ DOMAIN children[n] = 1 .. Len(children[n])
        /\ Len(children[n]) \in Nat /\ children'[n][Len(children[n]) + 1] = word
        /\ \A i \in 1 .. Len(children[n]) : children'[n][i] = children[n][i]
    BY <2>2
  <2>4. ASSUME NEW m \in Node, NEW v, Has(m, v) PROVE Has(m, v)'
    <3>1. PICK i \in DOMAIN children[m] : children[m][i] = v
      BY <2>4, Zenon DEF Has
    <3>2. CASE m # n
      BY <2>2, <2>4, <3>2, Zenon DEF Has
    <3>3. CASE m = n
      <4>1. i \in 1 .. Len(children[n]) + 1 /\ i \in 1 .. Len(children[n])
        BY <2>3, <3>1, <3>3
      <4>2. i \in DOMAIN children'[n] /\ children'[n][i] = v
        BY <2>3, <3>1, <3>3, <4>1, Zenon
      <4> QED
        BY <3>3, <4>2, Zenon DEF Has
    <3> QED
      BY <3>2, <3>3, Zenon
  <2>5. Has(n, word)'
    BY <2>3 DEF Has
  <2>6. ASSUME NEW m \in Node, NEW i \in DOMAIN children'[m]
        PROVE  \/ i \in DOMAIN children[m] /\ children'[m][i] = children[m][i]
               \/ m = n /\ children'[m][i] = word
    BY <2>2, <2>3
  <2> QED
    BY <2>4, <2>5, <2>6, Zenon
<1> QED
  BY <1>1, <1>2, Zenon

(* Registering a word keeps to the table. *)
LEMMA WordKeeps ==
  ASSUME TreeTyped, TreeInv, NEW r \in Registrar, register_word(r)
  PROVE  TreeInv'
<1>a. reg[r].n \in 1 .. Len(Commands(r)) /\ reg[r].words \in Nat
  BY CommandsTyped DEF TreeTyped, RegistersTyped, register_word, CanRegister, Done
<1>b. PICK c \in Table : c = Commands(r)[reg[r].n]
  BY <1>a, CommandFacts, Zenon
<1>1. PICK k \in Nat : k = reg[r].words
  BY <1>a, Zenon
<1>2. Len(c.words) \in Nat /\ DOMAIN c.words = 1 .. Len(c.words)
  BY TableFacts, Zenon
<1>3. /\ k < Len(c.words) /\ children' = AddWord(Path(c, k), c.words[k + 1]) /\ function' = function
      /\ reg' = [reg EXCEPT ![r].words = k + 1] /\ CanRegister(r)
  BY <1>b, <1>1, Zenon DEF register_word
<1>4. k \in 0 .. Len(c.words) - 1 /\ k \in 0 .. Len(c.words) /\ k + 1 \in DOMAIN c.words
  BY <1>1, <1>2, <1>3
<1>5. Path(c, k) \in Node /\ c.words[k + 1] \in Words
  BY <1>2, <1>4, PathIsNode, WordIsOne, Zenon
<1>6. /\ \A m \in Node : \A v : Has(m, v) => Has(m, v)'
      /\ Has(Path(c, k), c.words[k + 1])'
      /\ \A m \in Node : \A i \in DOMAIN children'[m] :
              \/ i \in DOMAIN children[m] /\ children'[m][i] = children[m][i]
              \/ m = Path(c, k) /\ children'[m][i] = c.words[k + 1]
  <2>1. PICK n \in Node, word \in Words : n = Path(c, k) /\ word = c.words[k + 1]
    BY <1>5, Zenon
  <2>2. children' = AddWord(n, word)
    BY <1>3, <2>1, Zenon
  <2>3. /\ \A m \in Node : \A v : Has(m, v) => Has(m, v)'
        /\ Has(n, word)'
        /\ \A m \in Node : \A i \in DOMAIN children'[m] :
              \/ i \in DOMAIN children[m] /\ children'[m][i] = children[m][i]
              \/ m = n /\ children'[m][i] = word
    BY <2>2, HasStays
  <2>4. Has(Path(c, k), c.words[k + 1])'
    BY <2>1, <2>3, Zenon DEF Has
  <2> QED
    BY <2>1, <2>3, <2>4, Zenon
<1>7. /\ reg'[r].words = k + 1
      /\ \A q \in Registrar : reg'[q].n = reg[q].n /\ (q # r => reg'[q].words = reg[q].words)
  BY <1>1, <1>3 DEF TreeTyped, RegistersTyped
<1>8. FromTable'
  <2>1. ASSUME NEW m \in Node, NEW i \in DOMAIN children'[m]
        PROVE  \E d \in Table : \E l \in 0 .. Len(d.words) - 1 :
                 m = Path(d, l) /\ children'[m][i] = d.words[l + 1]
    <3>1. CASE i \in DOMAIN children[m] /\ children'[m][i] = children[m][i]
      BY <3>1, Zenon DEF TreeInv, FromTable
    <3>2. CASE m = Path(c, k) /\ children'[m][i] = c.words[k + 1]
      BY <1>2, <1>4, <3>2, Zenon
    <3> QED
      BY <1>6, <3>1, <3>2, Zenon
  <2> QED
    BY <1>3, <2>1, Zenon DEF TreeInv, FromTable
<1>9. ASSUME NEW d \in Table, NEW m \in Nat, m <= Len(d.words), HasWords(d, m) PROVE HasWords(d, m)'
  <2>1. \A l \in 0 .. m - 1 : l \in 0 .. Len(d.words)
    BY <1>9, TableFacts
  <2> QED
    BY <1>6, <1>9, <2>1, PathIsNode, Zenon DEF HasWords
<1>10. ASSUME NEW q \in Registrar, NEW j \in 1 .. Len(Commands(q))
       PROVE  /\ j < reg'[q].n => Present(Commands(q)[j])'
              /\ j = reg'[q].n => HasWords(Commands(q)[j], reg[q].words)'
  <2>1. Commands(q)[j] \in Table /\ Len(Commands(q)[j].words) \in Nat
    BY CommandFacts, Zenon
  <2>2. ASSUME j < reg'[q].n PROVE Present(Commands(q)[j])'
    <3>1. Present(Commands(q)[j])
      BY <1>7, <2>2, Zenon DEF TreeInv, Registered
    <3>2. HasWords(Commands(q)[j], Len(Commands(q)[j].words))'
      BY <1>9, <2>1, <3>1 DEF Present
    <3> QED
      BY <1>3, <3>1, <3>2, Zenon DEF Present
  <2>3. ASSUME j = reg'[q].n, q # r PROVE HasWords(Commands(q)[j], reg[q].words)'
    <3>1. PICK m \in Nat : m = reg[q].words
      BY Zenon DEF TreeTyped, RegistersTyped
    <3>2. HasWords(Commands(q)[j], m) /\ reg'[q].words = m /\ j = reg[q].n
      BY <1>7, <2>3, <3>1, Zenon DEF TreeInv, Registered
    <3>3. m <= Len(Commands(q)[j].words)
      BY <3>1, <3>2 DEF TreeTyped, RegistersTyped
    <3>4. HasWords(Commands(q)[j], m)'
      BY <1>9, <2>1, <3>2, <3>3, Zenon
    <3> QED
      BY <3>2, <3>4, Zenon DEF HasWords
  <2>4. ASSUME j = reg'[q].n, q = r PROVE HasWords(Commands(q)[j], reg[q].words)'
    <3>1. HasWords(c, k) /\ Commands(q)[j] = c /\ reg'[q].words = k + 1
      BY <1>b, <1>1, <1>7, <2>4, Zenon DEF TreeInv, Registered
    <3>2. k <= Len(c.words) /\ \A l \in 0 .. k + 1 - 1 : l \in 0 .. k - 1 \/ l = k
      BY <1>2, <1>4
    <3>3. HasWords(c, k)' /\ Has(Path(c, k), c.words[k + 1])'
      BY <1>6, <1>9, <3>1, <3>2, Zenon
    <3>4. \A l \in 0 .. k + 1 - 1 : Has(Path(c, l), c.words[l + 1])'
      BY <3>2, <3>3, Zenon DEF HasWords
    <3>5. HasWords(c, k + 1)'
      BY <3>4 DEF HasWords, Has
    <3> QED
      BY <3>1, <3>5, Zenon DEF HasWords, Has
  <2> QED
    BY <2>2, <2>3, <2>4, Zenon
<1>11. reg'["cli"].n > 1 => CliStarted'
  BY <1>7, Zenon DEF TreeInv, Registered, CliStarted, Registrar
<1> QED
  BY <1>8, <1>10, <1>11, Zenon DEF TreeInv, Registered

(* So does setting the handler. *)
LEMMA HandlerKeeps ==
  ASSUME TreeTyped, TreeInv, NEW r \in Registrar, register_handler(r)
  PROVE  TreeInv'
<1>1. /\ reg[r].n \in 1 .. Len(Commands(r)) /\ reg[r].n \in Nat /\ Len(Commands(r)) \in Nat
  BY CommandsTyped DEF TreeTyped, RegistersTyped, register_handler, CanRegister, Done
<1>2. PICK c \in Table : c = Commands(r)[reg[r].n]
  BY <1>1, CommandFacts, Zenon
<1>3. PICK n \in Node : n = Path(c, Len(c.words))
  <2>1. Len(c.words) \in 0 .. Len(c.words)
    BY TableFacts
  <2> QED
    BY <2>1, PathIsNode, Zenon
<1>4. /\ function' = [function EXCEPT ![n] = c.function] /\ children' = children
      /\ reg' = [reg EXCEPT ![r] = [n |-> reg[r].n + 1, words |-> 0]]
      /\ reg[r].words = Len(c.words) /\ (r = "cli" => CliStarted)
  BY <1>2, <1>3, Zenon DEF register_handler, CanRegister
<1>5. /\ reg'[r].n = reg[r].n + 1 /\ reg'[r].words = 0
      /\ \A q \in Registrar : q # r => reg'[q] = reg[q]
  BY <1>4 DEF TreeTyped, RegistersTyped
<1>6. /\ function'[n] = c.function /\ c.function # NULL
      /\ \A m \in Node : m # n => function'[m] = function[m]
  BY <1>4, TableAssumption, Zenon DEF TreeTyped
<1>7. FromTable'
  <2>1. ASSUME NEW m \in Node, function'[m] # NULL
        PROVE  \E d \in Table : m = Path(d, Len(d.words)) /\ function'[m] = d.function
    BY <1>3, <1>6, <2>1, Zenon DEF TreeInv, FromTable
  <2> QED
    BY <1>4, <2>1, Zenon DEF TreeInv, FromTable
<1>8. \A m : \A v : Has(m, v)' <=> Has(m, v)
  BY <1>4, Zenon DEF Has
<1>9. ASSUME NEW d \in Table, Present(d) PROVE Present(d)'
  <2>1. Path(d, Len(d.words)) \in Node
    <3>1. Len(d.words) \in 0 .. Len(d.words)
      BY TableFacts
    <3> QED
      BY <3>1, PathIsNode, Zenon
  <2>2. function'[Path(d, Len(d.words))] # NULL
    BY <1>6, <1>9, <2>1, Zenon DEF Present
  <2> QED
    BY <1>4, <1>9, <2>2, Zenon DEF Present, HasWords, Has
<1>10. Present(c)'
  <2>1. HasWords(c, Len(c.words))
    BY <1>1, <1>2, <1>4, Zenon DEF TreeInv, Registered
  <2> QED
    BY <1>3, <1>4, <1>6, <2>1, Zenon DEF Present, HasWords, Has
<1>11. ASSUME NEW q \in Registrar, NEW j \in 1 .. Len(Commands(q))
       PROVE  /\ j < reg'[q].n => Present(Commands(q)[j])'
              /\ j = reg'[q].n => HasWords(Commands(q)[j], reg[q].words)'
  <2>1. PICK d \in Table : d = Commands(q)[j]
    BY CommandFacts, Zenon
  <2>2. CASE q # r
    <3>1. /\ j < reg'[q].n => Present(d)
          /\ j = reg'[q].n => HasWords(d, reg[q].words)
      BY <1>5, <2>1, <2>2, Zenon DEF TreeInv, Registered
    <3>2. j < reg'[q].n => Present(d)'
      BY <1>9, <3>1, Zenon
    <3>3. j = reg'[q].n => HasWords(Commands(q)[j], reg[q].words)'
      BY <1>4, <1>5, <2>1, <2>2, <3>1, Zenon DEF HasWords, Has
    <3> QED
      BY <2>1, <3>2, <3>3, Zenon DEF Present, HasWords, Has
  <2>3. CASE q = r
    <3>1. \A k \in 0 .. 0 - 1 : FALSE
      BY SMT
    <3>2. HasWords(Commands(q)[j], reg[q].words)'
      BY <1>5, <2>3, <3>1, Zenon DEF HasWords
    <3>3. ASSUME j < reg'[q].n PROVE Present(d)'
      <4>1. j < reg[q].n \/ j = reg[q].n
        BY <1>1, <1>5, <2>3, <3>3
      <4>2. CASE j < reg[q].n
        BY <1>9, <2>1, <4>2, Zenon DEF TreeInv, Registered
      <4>3. CASE j = reg[q].n
        BY <1>2, <1>10, <2>1, <2>3, <4>3, Zenon DEF Present, HasWords, Has
      <4> QED
        BY <4>1, <4>2, <4>3, Zenon
    <3> QED
      BY <2>1, <3>2, <3>3, Zenon DEF Present, HasWords, Has
  <2> QED
    BY <2>2, <2>3, Zenon
<1>12. reg'["cli"].n > 1 => CliStarted'
  <2>1. "cli" \in Registrar /\ "main" \in Registrar /\ "cli" # "main"
        /\ Len(EarlyCommands) \in Nat /\ reg["main"].n \in Nat
    BY CommandAssumption DEF Registrar, TreeTyped, RegistersTyped
  <2>2. CliStarted => CliStarted'
    BY <1>1, <1>5, <2>1 DEF CliStarted
  <2> QED
    BY <1>4, <1>5, <2>1, <2>2, Zenon DEF TreeInv, Registered
<1> QED
  BY <1>7, <1>11, <1>12, Zenon DEF TreeInv, Registered

(* At first there is nothing in the tree. *)
LEMMA InitTree == TreeInit => TreeInv
<1> SUFFICES ASSUME TreeInit PROVE TreeInv
  OBVIOUS
<1>1. FromTable
  BY DEF TreeInit, FromTable
<1>2. \A k \in 0 .. 0 - 1 : FALSE
  BY SMT
<1>3. \A r \in Registrar : reg[r].n = 1 /\ reg[r].words = 0
  BY DEF TreeInit
<1>4. \A r \in Registrar : \A j \in 1 .. Len(Commands(r)) : ~ (j < reg[r].n)
  BY <1>3, CommandsTyped
<1>5. \A c : HasWords(c, 0)
  BY <1>2, Zenon DEF HasWords
<1>6. ~ (reg["cli"].n > 1)
  BY <1>3 DEF Registrar
<1> QED
  BY <1>1, <1>3, <1>4, <1>5, <1>6, Zenon DEF TreeInv, Registered

(* A set of natural numbers that is not empty has a least element. *)
LEMMA Least ==
  ASSUME NEW S \in SUBSET Nat, S # {}
  PROVE  \E m \in S : \A n \in S : m <= n
<1>1. IsWellFoundedOn(OpToRel(<, Nat), Nat)
  BY NatLessThanWellFounded, Zenon
<1>2. PICK m \in S : \A n \in S : ~ (<<n, m>> \in OpToRel(<, Nat))
  BY <1>1, WFMin, Zenon
<1>3. \A n \in S : ~ (n < m)
  BY <1>2, Zenon DEF OpToRel
<1> QED
  BY <1>3

(* Where the words of a line are looked up: the recursion is well-founded. *)
LEMMA LookupsIs ==
  ASSUME NEW mode, NEW line \in Seq(STRING)
  PROVE  LET at == Lookups(mode, line)
         IN  at = [i \in DOMAIN line |-> IF i = 1 THEN Root(mode) ELSE After(at[i - 1], line[i - 1])]
<1> DEFINE G(f, n) == [i \in 1 .. n |-> IF i = 1 THEN Root(mode) ELSE After(f[i - 1], line[i - 1])]
           T == {n \in Nat : ~ \E f : f = G(f, n)}
<1>1. DOMAIN line = 1 .. Len(line) /\ Len(line) \in Nat
  OBVIOUS
<1>2. ASSUME T # {} PROVE FALSE
  <2>1. PICK n \in T : \A m \in T : n <= m
    BY <1>2, Least, Zenon
  <2>2. n \in Nat /\ ~ \E f : f = G(f, n)
    BY <2>1, Zenon
  <2>3. CASE n = 0
    <3> DEFINE e == [i \in 1 .. 0 |-> 0]
    <3>1. e = G(e, 0)
      OBVIOUS
    <3> QED
      BY <2>2, <2>3, <3>1, Zenon
  <2>4. CASE n # 0
    <3>1. n - 1 \in Nat /\ ~ (n <= n - 1)
      BY <2>2, <2>4, SMT
    <3>2. n - 1 \notin T
      BY <2>1, <3>1, Zenon
    <3>3. PICK f : f = G(f, n - 1)
      BY <3>1, <3>2, Zenon
    <3> DEFINE g == [i \in 1 .. n |-> IF i < n THEN f[i]
                     ELSE IF n = 1 THEN Root(mode) ELSE After(f[n - 1], line[n - 1])]
    <3>4. ASSUME NEW i \in 1 .. n
          PROVE  g[i] = IF i = 1 THEN Root(mode) ELSE After(g[i - 1], line[i - 1])
      <4>1. CASE i < n
        <5>1. i \in 1 .. n - 1 /\ (i # 1 => i - 1 \in 1 .. n /\ i - 1 < n)
          BY <2>2, <3>4, <4>1, SMT
        <5>2. f[i] = IF i = 1 THEN Root(mode) ELSE After(f[i - 1], line[i - 1])
          BY <3>3, <5>1, Zenon
        <5> QED
          BY <4>1, <5>1, <5>2, Zenon
      <4>2. CASE i = n
        <5>1. n # 1 => n - 1 \in 1 .. n /\ n - 1 < n
          BY <2>2, <2>4, SMT
        <5>2. ~ (i < n)
          BY <2>2, <4>2, SMT
        <5> QED
          BY <4>2, <5>1, <5>2, Zenon
      <4> QED
        BY <2>2, <3>4, <4>1, <4>2, SMT
    <3>5. g = G(g, n)
      BY <3>4, Zenon
    <3> QED
      BY <2>2, <3>5, Zenon
  <2> QED
    BY <2>3, <2>4, Zenon
<1>3. PICK f : f = G(f, Len(line))
  BY <1>1, <1>2, Zenon
<1>4. \E f1 : f1 = [i \in DOMAIN line |-> IF i = 1 THEN Root(mode) ELSE After(f1[i - 1], line[i - 1])]
  BY <1>1, <1>3, Zenon
<1> QED
  BY <1>4, Zenon DEF Lookups

(* execute_commands looks up the first word of a command's own line at the *)
(* root of its mode, and each further word where the one before it led to.  *)
LEMMA LookedUp ==
  ASSUME NEW c \in Table
  PROVE  \A i \in 1 .. Len(c.words) : Lookups(c.mode, c.words)[i] =
           IF i = 1 THEN Root(c.mode) ELSE After(Lookups(c.mode, c.words)[i - 1], c.words[i - 1])
<1> DEFINE at == Lookups(c.mode, c.words)
<1>1. c.words \in Seq(STRING) /\ DOMAIN c.words = 1 .. Len(c.words)
  BY TableFacts, Zenon
<1>2. at = [i \in DOMAIN c.words |-> IF i = 1 THEN Root(c.mode) ELSE After(at[i - 1], c.words[i - 1])]
  BY <1>1, LookupsIs, Zenon
<1> HIDE DEF at
<1>3. ASSUME NEW i \in 1 .. Len(c.words)
      PROVE  at[i] = IF i = 1 THEN Root(c.mode) ELSE After(at[i - 1], c.words[i - 1])
  BY <1>1, <1>2, Zenon
<1> QED
  BY <1>3, Zenon DEF at

(* As long as the words of a command are found and have words under them,  *)
(* the search goes down its path. *)
LEMMA WalkDown ==
  ASSUME NEW c \in Table, NEW h \in 1 .. Len(c.words),
         \A k \in 1 .. h - 1 : Has(Path(c, k - 1), c.words[k]) /\ ~ Leaf(Path(c, k))
  PROVE  \A i \in 1 .. h : Lookups(c.mode, c.words)[i] = Path(c, i - 1)
<1> DEFINE at == Lookups(c.mode, c.words)
           T == {i \in Nat : i \in 1 .. h /\ at[i] # Path(c, i - 1)}
<1>1. /\ c \in CommandType /\ c.words \in Seq(STRING) /\ Len(c.words) \in Nat
      /\ DOMAIN c.words = 1 .. Len(c.words) /\ h \in Nat /\ h <= Len(c.words)
  BY TableFacts
<1>2. \A i \in 1 .. Len(c.words) :
        at[i] = IF i = 1 THEN Root(c.mode) ELSE After(at[i - 1], c.words[i - 1])
  BY LookedUp, Zenon
<1>3. Path(c, 0) = Root(c.mode)
  <2>1. SubSeq(c.words, 1, 0) = <<>>
    BY <1>1
  <2>2. \A s \in Seq(STRING) : s \o <<>> = s
    OBVIOUS
  <2>3. Root(c.mode) \in Seq(STRING)
    BY <1>1 DEF Root, CommandType
  <2> QED
    BY <2>1, <2>2, <2>3, Zenon DEF Path
<1> HIDE DEF at
<1>4. ASSUME T # {} PROVE FALSE
  <2>1. PICK i \in T : \A j \in T : i <= j
    BY <1>4, Least, Zenon
  <2>2. i \in Nat /\ i \in 1 .. h /\ at[i] # Path(c, i - 1) /\ i \in 1 .. Len(c.words)
    BY <1>1, <2>1
  <2>3. i # 1
    <3>1. 1 - 1 = 0
      BY SMT
    <3> QED
      BY <1>2, <1>3, <2>2, <3>1, Zenon
  <2>4. PICK k \in 1 .. h - 1 : k = i - 1
    BY <1>1, <2>2, <2>3, SMT
  <2>5. /\ k \in Nat /\ k \in 1 .. h /\ ~ (i <= k) /\ k \in DOMAIN c.words
        /\ k - 1 \in Nat /\ k - 1 \in 0 .. Len(c.words) /\ (k - 1) + 1 = k /\ k <= Len(c.words)
    BY <1>1, <2>2, <2>4, SMT
  <2>6. at[k] = Path(c, k - 1)
    BY <2>1, <2>5, Zenon
  <2>7. Append(Path(c, k - 1), c.words[k]) = Path(c, k)
    BY <1>1, <2>5, PathGoesOn
  <2>8. Path(c, k - 1) # NULL /\ c.words[k] # "help"
    BY <2>5, PathIsNode, TableAssumption, Zenon
  <2>9. After(at[k], c.words[k]) = Path(c, k)
    BY <2>4, <2>6, <2>7, <2>8, Zenon DEF After, Ends
  <2> QED
    BY <1>2, <2>2, <2>3, <2>4, <2>9, Zenon
<1>5. \A i \in 1 .. h : i \in Nat
  BY <1>1
<1> QED
  BY <1>4, <1>5, Zenon DEF at

(* A search that has ended has. *)
LEMMA Ended ==
  ASSUME NEW c \in Table, NEW h \in 1 .. Len(c.words), Lookups(c.mode, c.words)[h] = NULL
  PROVE  \A i \in h .. Len(c.words) : Lookups(c.mode, c.words)[i] = NULL
<1> DEFINE at == Lookups(c.mode, c.words)
           T == {i \in Nat : i \in h .. Len(c.words) /\ at[i] # NULL}
<1>1. c.words \in Seq(STRING) /\ Len(c.words) \in Nat /\ DOMAIN c.words = 1 .. Len(c.words) /\ h \in Nat
  BY TableFacts
<1>2. \A i \in 1 .. Len(c.words) :
        at[i] = IF i = 1 THEN Root(c.mode) ELSE After(at[i - 1], c.words[i - 1])
  BY LookedUp, Zenon
<1>3. at[h] = NULL
  BY Zenon
<1> HIDE DEF at
<1>4. ASSUME T # {} PROVE FALSE
  <2>1. PICK i \in T : \A j \in T : i <= j
    BY <1>4, Least, Zenon
  <2>2. i \in Nat /\ i \in h .. Len(c.words) /\ at[i] # NULL /\ i # h
    BY <1>3, <2>1, Zenon
  <2>3. /\ i - 1 \in Nat /\ i - 1 \in h .. Len(c.words) /\ ~ (i <= i - 1)
        /\ i # 1 /\ i \in 1 .. Len(c.words)
    BY <1>1, <2>2, SMT
  <2>4. at[i - 1] = NULL
    BY <2>1, <2>3, Zenon
  <2> QED
    BY <1>2, <2>2, <2>3, <2>4, Zenon DEF After
<1>5. \A i \in h .. Len(c.words) : i \in Nat
  BY <1>1
<1> QED
  BY <1>4, <1>5, Zenon DEF at

(* In a tree that comes from the table, nothing is under a command's last  *)
(* word, whose handler is its own, and the words before have none; and a   *)
(* word that is not to be in a node is not. *)
LEMMA TreeFacts ==
  ASSUME TreeTyped, FromTable, NEW c \in Table
  PROVE  /\ Leaf(Path(c, Len(c.words)))
         /\ function[Path(c, Len(c.words))] \in {NULL, c.function}
         /\ \A k \in 1 .. Len(c.words) - 1 : function[Path(c, k)] = NULL
         /\ \A n \in Node : \A v : Has(n, v) => Append(n, v) \in Node
<1>1. /\ c \in CommandType /\ Len(c.words) \in Nat /\ Len(c.words) > 0
  BY TableFacts
<1>2. /\ Len(c.words) \in 0 .. Len(c.words)
      /\ \A k \in 1 .. Len(c.words) - 1 : k \in 0 .. Len(c.words) /\ k # Len(c.words)
  BY <1>1
<1>3. Path(c, Len(c.words)) \in Node /\ \A k \in 1 .. Len(c.words) - 1 : Path(c, k) \in Node
  BY <1>2, PathIsNode, Zenon
<1>4. Leaf(Path(c, Len(c.words)))
  <2> DEFINE n == Path(c, Len(c.words))
  <2>1. ASSUME NEW i \in DOMAIN children[n] PROVE FALSE
    <3>1. PICK d \in Table : \E k \in 0 .. Len(d.words) - 1 : n = Path(d, k)
      BY <1>3, Zenon DEF FromTable
    <3>0. PICK k \in 0 .. Len(d.words) - 1 : n = Path(d, k)
      BY <3>1, Zenon
    <3>2. k \in 0 .. Len(d.words) /\ k # Len(d.words)
      BY TableFacts, SMT
    <3> QED
      BY <3>0, <3>2, TableAssumption, Zenon
  <2>2. children[n] \in Seq(Words)
    BY <1>3, Zenon DEF TreeTyped
  <2> HIDE DEF n
  <2>3. Len(children[n]) = 0
    <3>1. Len(children[n]) \in Nat /\ DOMAIN children[n] = 1 .. Len(children[n])
      BY <2>2
    <3>2. 1 \notin 1 .. Len(children[n])
      BY <2>1, <3>1, Zenon
    <3> QED
      BY <3>1, <3>2, SMT
  <2> QED
    BY <2>2, <2>3 DEF Leaf, n
<1>5. function[Path(c, Len(c.words))] \in {NULL, c.function}
  <2> SUFFICES ASSUME function[Path(c, Len(c.words))] # NULL
               PROVE  function[Path(c, Len(c.words))] = c.function
    BY Zenon
  <2>1. PICK d \in Table : /\ Path(c, Len(c.words)) = Path(d, Len(d.words))
                           /\ function[Path(c, Len(c.words))] = d.function
    BY <1>3, Zenon DEF FromTable
  <2>2. Len(d.words) \in 0 .. Len(d.words)
    BY TableFacts
  <2> QED
    BY <2>1, <2>2, TableAssumption, Zenon
<1>6. ASSUME NEW k \in 1 .. Len(c.words) - 1 PROVE function[Path(c, k)] = NULL
  <2> SUFFICES ASSUME function[Path(c, k)] # NULL PROVE FALSE
    BY Zenon
  <2>1. PICK d \in Table : Path(c, k) = Path(d, Len(d.words))
    BY <1>3, Zenon DEF FromTable
  <2> QED
    BY <1>2, <2>1, TableAssumption, Zenon
<1>7. ASSUME NEW n \in Node, NEW v, Has(n, v) PROVE Append(n, v) \in Node
  <2>1. PICK i \in DOMAIN children[n] : children[n][i] = v
    BY <1>7, Zenon DEF Has
  <2>2. PICK d \in Table : \E k \in 0 .. Len(d.words) - 1 : n = Path(d, k) /\ v = d.words[k + 1]
    BY <2>1, Zenon DEF FromTable
  <2>4. PICK k \in 0 .. Len(d.words) - 1 : n = Path(d, k) /\ v = d.words[k + 1]
    BY <2>2, Zenon
  <2>3. d \in CommandType /\ k \in Nat /\ k + 1 <= Len(d.words) /\ k + 1 \in 0 .. Len(d.words)
    BY TableFacts, SMT
  <2> QED
    BY <2>4, <2>3, PathGoesOn, PathIsNode, Zenon
<1> QED
  BY <1>4, <1>5, <1>6, <1>7, Zenon

\* The word of a command's own line at which a command is executed.
Hit(c, i) ==
  LET n == Lookups(c.mode, c.words)[i]
  IN  n # NULL /\ c.words[i] # "help" /\ Has(n, c.words[i]) /\ Ends(n, c.words[i])

(* What a command's line executes, from the words at which it would. *)
LEMMA Runs ==
  ASSUME NEW c \in Table
  PROVE  /\ (\A i \in 1 .. Len(c.words) : ~ Hit(c, i)) => Executed(c.mode, c.words) = NULL
         /\ \A x \in 1 .. Len(c.words) :
              Hit(c, x) /\ (\A i \in 1 .. Len(c.words) : Hit(c, i) => i = x) =>
                Executed(c.mode, c.words) = function[Append(Lookups(c.mode, c.words)[x], c.words[x])]
<1> DEFINE at == Lookups(c.mode, c.words)
           found == {i \in DOMAIN c.words :
                       at[i] # NULL /\ c.words[i] # "help" /\ Has(at[i], c.words[i])
                         /\ Ends(at[i], c.words[i])}
<1>1. DOMAIN c.words = 1 .. Len(c.words)
  BY TableFacts, Zenon
<1>2. \A i \in 1 .. Len(c.words) : Hit(c, i) <=> i \in found
  BY <1>1, Zenon DEF Hit
<1>3. found \subseteq 1 .. Len(c.words)
  BY <1>1, Zenon
<1>4. ExecutedAt(at, c.words) = IF found = {} THEN 0 ELSE CHOOSE i \in found : TRUE
  BY Zenon DEF ExecutedAt
<1>5. Executed(c.mode, c.words) =
        IF ExecutedAt(at, c.words) = 0 THEN NULL
        ELSE function[Append(at[ExecutedAt(at, c.words)], c.words[ExecutedAt(at, c.words)])]
  BY Zenon DEF Executed, FunctionAt
<1> HIDE DEF found, at
<1>6. ASSUME \A i \in 1 .. Len(c.words) : ~ Hit(c, i) PROVE Executed(c.mode, c.words) = NULL
  <2>1. found = {}
    BY <1>2, <1>3, <1>6, Zenon
  <2> QED
    BY <1>4, <1>5, <2>1, Zenon
<1>7. ASSUME NEW x \in 1 .. Len(c.words), Hit(c, x),
             \A i \in 1 .. Len(c.words) : Hit(c, i) => i = x
      PROVE  Executed(c.mode, c.words) = function[Append(at[x], c.words[x])]
  <2>1. found = {x}
    BY <1>2, <1>3, <1>7, Zenon
  <2>2. (CHOOSE i \in found : TRUE) = x /\ found # {}
    BY <2>1
  <2>3. ExecutedAt(at, c.words) = x
    BY <1>4, <2>2, Zenon
  <2>4. x # 0
    BY TableFacts, SMT
  <2> QED
    BY <1>5, <2>3, <2>4, Zenon
<1> QED
  BY <1>6, <1>7, Zenon DEF at

(* Where the search for a command's own line stops. *)
LEMMA FirstStop ==
  ASSUME TreeTyped, FromTable, NEW c \in Table
  PROVE  \E h \in 1 .. Len(c.words) :
           /\ \A k \in 1 .. h - 1 : Has(Path(c, k - 1), c.words[k]) /\ ~ Leaf(Path(c, k))
           /\ Has(Path(c, h - 1), c.words[h]) => Leaf(Path(c, h))
<1> DEFINE Goes(k) == Has(Path(c, k - 1), c.words[k]) /\ ~ Leaf(Path(c, k))
           T == {k \in Nat : k \in 1 .. Len(c.words) /\ ~ Goes(k)}
<1>1. Len(c.words) \in Nat /\ Len(c.words) \in 1 .. Len(c.words)
  BY TableFacts
<1>2. Len(c.words) \in T
  BY <1>1, TreeFacts, Zenon
<1>3. PICK h \in T : \A j \in T : h <= j
  BY <1>2, Least, Zenon
<1>4. h \in 1 .. Len(c.words) /\ ~ Goes(h)
  BY <1>3, Zenon
<1>5. \A k \in 1 .. h - 1 : k \in Nat /\ k \in 1 .. Len(c.words) /\ ~ (h <= k)
  BY <1>1, <1>4, SMT
<1>6. \A k \in 1 .. h - 1 : Goes(k)
  BY <1>3, <1>5, Zenon
<1> QED
  BY <1>4, <1>6, Zenon

(* What a command's own line executes, by the word at which the search     *)
(* stops. *)
LEMMA Outcome ==
  ASSUME TreeTyped, FromTable, NEW c \in Table, NEW h \in 1 .. Len(c.words),
         \A k \in 1 .. h - 1 : Has(Path(c, k - 1), c.words[k]) /\ ~ Leaf(Path(c, k)),
         Has(Path(c, h - 1), c.words[h]) => Leaf(Path(c, h))
  PROVE  \/ /\ ~ (Has(Path(c, h - 1), c.words[h]) /\ function[Path(c, h)] # NULL)
            /\ Executed(c.mode, c.words) = NULL
         \/ Executed(c.mode, c.words) = c.function
         \/ /\ function[Path(c, h)] = NULL /\ Leaf(Path(c, h)) /\ h \in 1 .. Len(c.words) - 1
            /\ Append(Path(c, h - 1), c.words[h + 1]) \in Node
<1> DEFINE at == Lookups(c.mode, c.words)
           L == Len(c.words)
           n == Path(c, h - 1)
<1>1. /\ c \in CommandType /\ L \in Nat /\ DOMAIN c.words = 1 .. L
      /\ h \in Nat /\ h - 1 \in Nat /\ h - 1 \in 0 .. L
      /\ \A i \in 1 .. h : i \in DOMAIN c.words /\ i - 1 \in Nat /\ i - 1 \in 0 .. L
                           /\ (i - 1) + 1 = i /\ i <= L
  BY TableFacts, SMT
<1>2. \A i \in 1 .. h : at[i] = Path(c, i - 1)
  BY WalkDown, Zenon
<1>3. \A i \in 1 .. h : /\ Append(Path(c, i - 1), c.words[i]) = Path(c, i)
                        /\ c.words[i] # "help" /\ Path(c, i - 1) # NULL /\ Path(c, i - 1) \in Node
  <2> SUFFICES ASSUME NEW i \in 1 .. h
               PROVE  /\ Append(Path(c, i - 1), c.words[i]) = Path(c, i)
                      /\ c.words[i] # "help" /\ Path(c, i - 1) # NULL /\ Path(c, i - 1) \in Node
    BY Zenon
  <2>1. Append(Path(c, i - 1), c.words[(i - 1) + 1]) = Path(c, (i - 1) + 1)
    <3>1. (i - 1) + 1 <= Len(c.words)
      BY <1>1, Zenon
    <3> QED
      BY <1>1, <3>1, PathGoesOn, Zenon
  <2>2. Path(c, i - 1) \in Node
    BY <1>1, PathIsNode, Zenon
  <2> QED
    BY <1>1, <2>1, <2>2, TableAssumption, Zenon
<1>4. h \in 1 .. h /\ (\A i \in 1 .. L : i \in 1 .. h - 1 \/ i = h \/ i \in h + 1 .. L)
      /\ (h < L => h + 1 \in 1 .. L /\ h \in 1 .. L - 1 /\ h + 1 # 1 /\ (h + 1) - 1 = h)
      /\ (\A i \in h + 1 .. L : h < L /\ i \in 1 .. L) /\ (h < L \/ h = L)
      /\ (h = L => \A i \in 1 .. L : i \notin h + 1 .. L)
      /\ \A i \in 1 .. h - 1 : i \in 1 .. h
  BY <1>1, SMT
<1>5. \A i \in 1 .. h - 1 : ~ Hit(c, i)
  BY <1>2, <1>3, <1>4, Zenon DEF Hit, Ends
<1>6. at[h] = n /\ Append(n, c.words[h]) = Path(c, h) /\ c.words[h] # "help" /\ n # NULL /\ n \in Node
  BY <1>2, <1>3, <1>4, Zenon
<1>7. ASSUME h < L PROVE at[h + 1] = After(n, c.words[h])
  <2>1. h + 1 \in 1 .. L /\ h + 1 # 1 /\ (h + 1) - 1 = h
    BY <1>4, <1>7, Zenon
  <2>2. at[h + 1] = After(at[(h + 1) - 1], c.words[(h + 1) - 1])
    BY <2>1, LookedUp, Zenon
  <2> QED
    BY <1>6, <2>1, <2>2, Zenon
<1>8. ASSUME h < L, at[h + 1] = NULL PROVE \A i \in h + 1 .. L : ~ Hit(c, i)
  <2>1. h + 1 \in 1 .. Len(c.words) /\ Lookups(c.mode, c.words)[h + 1] = NULL
    BY <1>4, <1>8, Zenon
  <2>2. \A i \in h + 1 .. Len(c.words) : Lookups(c.mode, c.words)[i] = NULL
    BY <2>1, Ended, Zenon
  <2> QED
    BY <2>2, Zenon DEF Hit
<1>9. CASE ~ Has(n, c.words[h])
  <2>1. ~ Hit(c, h)
    BY <1>6, <1>9, Zenon DEF Hit
  <2>2. h < L => at[h + 1] = NULL
    BY <1>7, <1>9, Zenon DEF After, Ends
  <2>3. \A i \in 1 .. L : ~ Hit(c, i)
    BY <1>4, <1>5, <1>8, <2>1, <2>2, Zenon
  <2> QED
    BY <1>9, <2>3, Runs, Zenon
<1>10. CASE Has(n, c.words[h]) /\ function[Path(c, h)] # NULL
  <2>1. h = L
    BY <1>4, <1>10, TreeFacts, Zenon
  <2>2. Hit(c, h)
    BY <1>6, <1>10, Zenon DEF Hit, Ends
  <2>3. \A i \in 1 .. L : Hit(c, i) => i = h
    BY <1>4, <1>5, <2>1, Zenon
  <2>4. Executed(c.mode, c.words) = function[Path(c, h)]
    BY <1>6, <2>2, <2>3, Runs, Zenon
  <2>5. function[Path(c, h)] \in {NULL, c.function}
    BY <2>1, TreeFacts, Zenon
  <2> QED
    BY <1>10, <2>4, <2>5, Zenon
<1>11. CASE Has(n, c.words[h]) /\ function[Path(c, h)] = NULL
  <2>1. ~ Hit(c, h)
    BY <1>6, <1>11, Zenon DEF Hit, Ends
  <2>2. CASE h = L
    <3>1. \A i \in 1 .. L : ~ Hit(c, i)
      BY <1>4, <1>5, <2>1, <2>2, Zenon
    <3> QED
      BY <1>11, <3>1, Runs, Zenon
  <2>3. CASE h < L /\ Append(n, c.words[h + 1]) \notin Node
    <3>1. at[h + 1] = n
      BY <1>6, <1>7, <1>11, <2>3, Zenon DEF After, Ends
    <3>2. ~ Has(n, c.words[h + 1])
      BY <1>6, <2>3, TreeFacts, Zenon
    <3>3. \A i \in h + 1 .. L : ~ Hit(c, i)
      <4>1. ~ Hit(c, h + 1)
        BY <3>1, <3>2, Zenon DEF Hit
      <4>2. ASSUME h + 1 < L PROVE at[(h + 1) + 1] = NULL
        <5>1. (h + 1) + 1 \in 1 .. L /\ (h + 1) + 1 # 1 /\ ((h + 1) + 1) - 1 = h + 1
          BY <1>1, <4>2, SMT
        <5>2. at[(h + 1) + 1] = After(at[h + 1], c.words[h + 1])
          BY <5>1, LookedUp, Zenon
        <5> QED
          BY <3>1, <3>2, <5>2, Zenon DEF After, Ends
      <4>3. ASSUME NEW i \in (h + 1) + 1 .. L PROVE ~ Hit(c, i)
        <5>1. h + 1 < L /\ (h + 1) + 1 \in 1 .. L
          BY <1>1, SMT
        <5> QED
          BY <4>2, <5>1, Ended, Zenon DEF Hit
      <4>4. \A i \in h + 1 .. L : i = h + 1 \/ i \in (h + 1) + 1 .. L
        BY <1>1, SMT
      <4> QED
        BY <4>1, <4>3, <4>4, Zenon
    <3>4. \A i \in 1 .. L : ~ Hit(c, i)
      BY <1>4, <1>5, <2>1, <3>3, Zenon
    <3> QED
      BY <1>11, <3>4, Runs, Zenon
  <2>4. CASE h < L /\ Append(n, c.words[h + 1]) \in Node
    BY <1>4, <1>11, <2>4, Zenon
  <2> QED
    BY <1>4, <2>2, <2>3, <2>4, Zenon
<1> QED
  BY <1>9, <1>10, <1>11, Zenon

(* Once the cli's own commands are registered, so are main's first ones,   *)
(* and the line of each command executes that command, or nothing while    *)
(* main is still registering it. *)
LEMMA OwnHandler ==
  ASSUME TreeTyped, TreeInv, Done("cli"), NEW c \in Table
  PROVE  /\ Executed(c.mode, c.words) \in {c.function, NULL}
         /\ (\A r \in Registrar : Done(r)) => Executed(c.mode, c.words) = c.function
<1>1. PICK h \in 1 .. Len(c.words) :
        /\ \A k \in 1 .. h - 1 : Has(Path(c, k - 1), c.words[k]) /\ ~ Leaf(Path(c, k))
        /\ Has(Path(c, h - 1), c.words[h]) => Leaf(Path(c, h))
  BY FirstStop, Zenon DEF TreeInv
<1>2. \/ /\ ~ (Has(Path(c, h - 1), c.words[h]) /\ function[Path(c, h)] # NULL)
         /\ Executed(c.mode, c.words) = NULL
      \/ Executed(c.mode, c.words) = c.function
      \/ /\ function[Path(c, h)] = NULL /\ Leaf(Path(c, h)) /\ h \in 1 .. Len(c.words) - 1
         /\ Append(Path(c, h - 1), c.words[h + 1]) \in Node
  BY <1>1, Outcome, Zenon DEF TreeInv
<1>3. /\ Len(c.words) \in Nat /\ h \in Nat /\ h - 1 \in 0 .. Len(c.words) - 1 /\ (h - 1) + 1 = h
      /\ h = Len(c.words) \/ h \in 0 .. Len(c.words) - 1
  BY TableFacts, SMT
<1>4. ASSUME NEW d \in Table, Present(d), NEW k \in 0 .. Len(d.words) - 1 PROVE ~ Leaf(Path(d, k))
  <2>1. Has(Path(d, k), d.words[k + 1])
    BY <1>4, Zenon DEF Present, HasWords
  <2>2. DOMAIN children[Path(d, k)] # {}
    BY <2>1, Zenon DEF Has
  <2> QED
    BY <2>2 DEF Leaf
<1>5. ASSUME Present(c) PROVE Executed(c.mode, c.words) = c.function
  <2>1. Has(Path(c, h - 1), c.words[h])
    BY <1>3, <1>5, Zenon DEF Present, HasWords
  <2>2. h = Len(c.words)
    BY <1>1, <1>3, <1>4, <1>5, <2>1, Zenon
  <2>3. function[Path(c, h)] # NULL
    BY <1>5, <2>2, Zenon DEF Present
  <2> QED
    BY <1>2, <2>1, <2>3, Zenon
<1>6. PICK r \in Registrar : \E j \in 1 .. Len(Commands(r)) : c = Commands(r)[j]
  BY TableFacts, Zenon
<1>7. PICK j \in 1 .. Len(Commands(r)) : c = Commands(r)[j]
  BY <1>6, Zenon
<1>8. CASE Done(r)
  <2>1. j < reg[r].n
    <3>1. reg[r].n \in Nat /\ Len(Commands(r)) \in Nat
      BY CommandsTyped DEF TreeTyped, RegistersTyped
    <3> QED
      BY <1>8, <3>1, SMT DEF Done
  <2>2. Present(c)
    BY <1>7, <2>1, Zenon DEF TreeInv, Registered
  <2> QED
    BY <1>5, <2>2, Zenon
<1>9. CASE ~ Done(r)
  <2> SUFFICES Executed(c.mode, c.words) \in {c.function, NULL}
    BY <1>9, Zenon
  <2> SUFFICES ASSUME ~ Present(c), Leaf(Path(c, h)), h \in 1 .. Len(c.words) - 1,
                      Append(Path(c, h - 1), c.words[h + 1]) \in Node
               PROVE  FALSE
    BY <1>2, <1>5, Zenon
  <2>1. r = "main"
    BY <1>9, Zenon DEF Registrar
  <2>2. /\ EarlyCommands \in Seq(CommandType) /\ MainCommands \in Seq(CommandType)
        /\ CliCommands \in Seq(CommandType) /\ Commands("cli") = CliCommands
        /\ Commands("main") = EarlyCommands \o MainCommands
        /\ "main" \in Registrar /\ "cli" \in Registrar
    BY CommandAssumption, Zenon DEF Commands, Registrar
  <2>3. /\ reg["cli"].n \in Nat /\ reg["main"].n \in Nat
        /\ reg["cli"].n > Len(CliCommands) /\ reg["main"].n > Len(EarlyCommands)
    <3>1. reg["cli"].n \in Nat /\ reg["main"].n \in Nat
      BY <2>2, SMT DEF TreeTyped, RegistersTyped
    <3>2. reg["cli"].n > Len(CliCommands)
      BY <2>2, Zenon DEF Done
    <3>3. Len(CliCommands) \in Nat /\ Len(CliCommands) > 0
      BY <2>2, TableAssumption, SMT
    <3>4. reg["cli"].n > 1
      BY <3>1, <3>2, <3>3, SMT
    <3> QED
      BY <3>1, <3>2, <3>4, Zenon DEF TreeInv, Registered, CliStarted
  <2>4. ASSUME NEW d \in There PROVE d \in Table /\ Present(d)
    <3> SUFFICES \E q \in Registrar : \E n \in 1 .. Len(Commands(q)) : d = Commands(q)[n] /\ n < reg[q].n
      BY CommandFacts, Zenon DEF TreeInv, Registered
    <3>1. CASE \E n \in DOMAIN EarlyCommands : d = EarlyCommands[n]
      <4>1. PICK n \in DOMAIN EarlyCommands : d = EarlyCommands[n]
        BY <3>1, Zenon
      <4>2. n \in 1 .. Len(EarlyCommands \o MainCommands) /\ (EarlyCommands \o MainCommands)[n] = d
        BY <2>2, <4>1, SMT
      <4>3. n < reg["main"].n
        BY <2>2, <2>3, <4>1, SMT
      <4> QED
        BY <2>2, <4>2, <4>3, Zenon
    <3>2. CASE \E n \in DOMAIN CliCommands : d = CliCommands[n]
      <4>1. PICK n \in DOMAIN CliCommands : d = CliCommands[n]
        BY <3>2, Zenon
      <4>2. n \in 1 .. Len(CliCommands) /\ n < reg["cli"].n
        <5>1. DOMAIN CliCommands = 1 .. Len(CliCommands) /\ Len(CliCommands) \in Nat
          BY CommandAssumption, SMT
        <5> QED
          BY <2>3, <5>1, SMT
      <4> QED
        BY <2>2, <4>1, <4>2, Zenon
    <3> QED
      BY <3>1, <3>2, Zenon DEF There
  <2>5. PICK n \in DOMAIN MainCommands : c = MainCommands[n]
    <3>1. ~ (j < reg["main"].n)
      BY <1>7, <2>1, Zenon DEF TreeInv, Registered
    <3>2. j \in 1 .. Len(EarlyCommands \o MainCommands) /\ c = (EarlyCommands \o MainCommands)[j]
      BY <1>7, <2>1, <2>2, Zenon
    <3>3. j - Len(EarlyCommands) \in DOMAIN MainCommands /\ c = MainCommands[j - Len(EarlyCommands)]
      BY <2>2, <2>3, <3>1, <3>2, SMT
    <3> QED
      BY <3>3, Zenon
  <2>6. Branches(c, h)
    BY <2>5, TableAssumption, Zenon
  <2>7. PICK d \in There : h < Len(d.words) /\ Path(d, h) = Path(c, h)
    BY <2>6, Zenon DEF Branches
  <2>8. d \in Table /\ Len(d.words) \in Nat
    BY <2>4, TableFacts, Zenon
  <2>9. h \in 0 .. Len(d.words) - 1
    BY <1>3, <2>7, <2>8, SMT
  <2> QED
    BY <1>4, <2>4, <2>7, <2>9, Zenon
<1> QED
  BY <1>8, <1>9, Zenon

-----------------------------------------------------------------------------
(* The lines *)

Data == {NULL} \cup UNION {{l[i] : i \in DOMAIN l} : l \in Line}
Mode == {"global", "wccp", "test"}
ThreadType ==
  [pc : {"none", "start", "recv", "done"}, sock : Fd \cup {0}, on : Client \cup {NULL},
   mode : Mode, data : Data]

\* A result that a thread may go on with: the mode's data is of its mode.
Fits(r) ==
  r.mode \in Mode /\ r.data \in Data /\ r.finished \in BOOLEAN /\ (r.data # NULL => r.mode = "wccp")

(* Whatever command is executed, its result fits. *)
LEMMA CommandFits ==
  ASSUME NEW f, NEW parameter \in Data, NEW data \in Data
  PROVE  Fits(CommandResult(f, parameter, data))
<1>1. NULL \in Data
  BY Zenon DEF Data
<1> QED
  BY <1>1 DEF CommandResult, Result, Fits, Mode

(* execute_commands returns a result that fits, whatever was registered    *)
(* when the line came.                                                     *)
LEMMA ResultFits ==
  ASSUME NEW mode \in Mode, NEW data \in Data, NEW line \in Line
  PROVE  Fits(execute_commands(mode, data, line))
<1> DEFINE at == Lookups(mode, line)
           found == {j \in DOMAIN line : at[j] # NULL /\ line[j] # "help" /\ Has(at[j], line[j])
                                         /\ Ends(at[j], line[j])}
           i == ExecutedAt(at, line)
           parameter == IF i < Len(line) THEN line[i + 1] ELSE NULL
<1>1. line \in Seq(STRING) /\ NULL \in Data
  BY CliAssumption, Zenon DEF Data
<1>2. i = IF found = {} THEN 0 ELSE CHOOSE j \in found : TRUE
  BY Zenon DEF ExecutedAt
<1>3. i \in DOMAIN line \cup {0}
  BY <1>2, Zenon
<1>4. execute_commands(mode, data, line) =
        IF i = 0 THEN Result(mode, NULL, FALSE) ELSE CommandResult(FunctionAt(at, line, i), parameter, data)
  BY Zenon DEF execute_commands, ResultAt
<1> HIDE DEF i, at, found
<1>5. parameter \in Data
  <2>1. CASE i < Len(line)
    <3>1. i + 1 \in DOMAIN line
      BY <1>1, <1>3, <2>1
    <3>2. line[i + 1] \in {line[j] : j \in DOMAIN line}
      BY <3>1, Zenon
    <3> QED
      BY <2>1, <3>2, Zenon DEF Data
  <2> QED
    BY <1>1, <2>1, Zenon
<1>6. Fits(Result(mode, NULL, FALSE))
  BY <1>1 DEF Result, Fits
<1> QED
  BY <1>4, <1>5, <1>6, CommandFits, Zenon

-----------------------------------------------------------------------------
(* The threads *)

CliTyped ==
  /\ fdt \in [Fd -> Client \cup {NULL}] /\ client_sock \in Fd \cup {0}
  /\ conn \in [Client -> {"out", "connecting", "in", "gone"}]
  /\ typed \in [Client -> Line \cup {NULL}]
  /\ th \in [Slot -> ThreadType]
  /\ \A t \in Slot : th[t].data # NULL => th[t].mode = "wccp"
  /\ lines \in 0 .. MaxLines /\ overwritten \in BOOLEAN /\ left \subseteq Client

CliInv == CliTyped /\ HaveSockets /\ (~ overwritten => Own)

(* A descriptor is positive, and a thread that is none has no socket. *)
LEMMA ThreadFacts ==
  /\ NULL \notin Client /\ NULL \in Data /\ Fd \subseteq Nat \ {0}
  /\ Slot = Client \cup {NULL}
  /\ NoThread \in ThreadType /\ [NoThread EXCEPT !.pc = "done"] \in ThreadType
<1>1. NULL \notin Client /\ NULL \in Data
  BY CliAssumption, Zenon DEF Data
<1>2. Fd \subseteq Nat \ {0}
  BY CliAssumption DEF Fd
<1> QED
  BY <1>1, <1>2 DEF NoThread, ThreadType, Mode, Slot

(* accept takes a free descriptor. *)
LEMMA LowestFree == FreeFds # {} => Lowest(FreeFds) \in FreeFds
<1> SUFFICES ASSUME FreeFds # {} PROVE Lowest(FreeFds) \in FreeFds
  OBVIOUS
<1>1. FreeFds \in SUBSET Nat
  BY ThreadFacts, Zenon DEF FreeFds
<1>2. \E m \in FreeFds : \A n \in FreeFds : m <= n
  BY <1>1, Least, Zenon
<1> QED
  BY <1>2, Zenon DEF Lowest

(* start_cli_server accepts a client, which gets a descriptor of its own;  *)
(* when a thread has yet to read client_sock, that is recorded.            *)
LEMMA AcceptStep ==
  ASSUME CliInv, NEW c \in Client, accept(c)
  PROVE  CliInv'
<1> DEFINE d == Lowest(FreeFds)
<1>1. d \in Fd /\ fdt[d] = NULL
  BY LowestFree, Zenon DEF accept, FreeFds
<1>2. /\ conn[c] = "connecting"
      /\ fdt' = [fdt EXCEPT ![d] = c] /\ client_sock' = d
      /\ conn' = [conn EXCEPT ![c] = "in"] /\ th' = [th EXCEPT ![c].pc = "start"]
      /\ overwritten' = (overwritten \/ \E x \in Slot : th[x].pc = "start")
      /\ UNCHANGED <<typed, lines, left>>
  BY Zenon DEF accept
<1> HIDE DEF d
<1>3. c \in Slot /\ \A t \in Slot : th[t] \in ThreadType
  BY ThreadFacts DEF CliInv, CliTyped
<1>4. /\ th'[c] = [th[c] EXCEPT !.pc = "start"] /\ th'[c] \in ThreadType
      /\ th'[c].on = th[c].on /\ th'[c].data = th[c].data /\ th'[c].mode = th[c].mode
      /\ th'[c].pc = "start" /\ \A t \in Slot \ {c} : th'[t] = th[t]
  BY <1>2, <1>3 DEF CliInv, CliTyped, ThreadType
<1>5. CliTyped'
  BY <1>1, <1>2, <1>3, <1>4 DEF CliInv, CliTyped, ThreadType
<1>6. HaveSockets'
  BY <1>1, <1>2, <1>3, <1>4 DEF CliInv, HaveSockets, ThreadType
<1>7. ASSUME ~ overwritten' PROVE Own'
  <2>1. Own /\ \A x \in Slot : th[x].pc # "start"
    BY <1>2, <1>7, Zenon DEF CliInv
  <2>2. /\ fdt'[d] = c /\ \A e \in Fd \ {d} : fdt'[e] = fdt[e]
        /\ conn'[c] = "in" /\ \A x \in Client \ {c} : conn'[x] = conn[x]
    BY <1>1, <1>2, Zenon DEF CliInv, CliTyped
  <2>3. /\ th[c].pc = "none" /\ th'[c].pc = "start" /\ th'[c].on = NULL
        /\ \A e \in Fd : fdt[e] # c
    BY <1>2, <1>3, <1>4, <2>1 DEF Own, ThreadType
  <2>4. ASSUME NEW t \in Client, th[t].pc = "recv" PROVE th[t].sock \in Fd \ {d}
    BY <1>1, <2>1, <2>4, ThreadFacts, Zenon DEF CliInv, HaveSockets, Own
  <2>5. th'[NULL] = th[NULL]
    BY <1>4, ThreadFacts
  <2> QED
    BY <1>1, <1>2, <1>4, <2>1, <2>2, <2>3, <2>4, <2>5, ThreadFacts DEF Own
<1> QED
  BY <1>5, <1>6, <1>7, Zenon DEF CliInv

(* accept fails, and a thread is made that finds no descriptor; when a     *)
(* thread has yet to read client_sock, that is recorded.                   *)
LEMMA FailStep ==
  ASSUME CliInv, accept_fails
  PROVE  CliInv'
<1>1. /\ client_sock' = 0 /\ th' = [th EXCEPT ![NULL].pc = "start"]
      /\ overwritten' = (overwritten \/ \E x \in Slot : th[x].pc = "start")
      /\ UNCHANGED <<fdt, conn, typed, lines, left>>
  BY Zenon DEF accept_fails
<1>2. NULL \in Slot /\ \A t \in Slot : th[t] \in ThreadType
  BY ThreadFacts DEF CliInv, CliTyped
<1>3. /\ th'[NULL] \in ThreadType
      /\ th'[NULL].pc = "start" /\ th'[NULL].on = th[NULL].on
      /\ th'[NULL].mode = th[NULL].mode /\ th'[NULL].data = th[NULL].data
      /\ \A t \in Slot \ {NULL} : th'[t] = th[t]
  BY <1>1, <1>2 DEF CliInv, CliTyped, ThreadType
<1>4. CliTyped'
  BY <1>1, <1>2, <1>3 DEF CliInv, CliTyped
<1>5. HaveSockets'
  BY <1>1, <1>3 DEF CliInv, HaveSockets
<1>6. ASSUME ~ overwritten' PROVE Own'
  <2>1. Own /\ \A x \in Slot : th[x].pc # "start"
    BY <1>1, <1>6, Zenon DEF CliInv
  <2>2. \A t \in Client : th'[t] = th[t] /\ th[t].pc # "start"
    BY <1>3, <2>1, ThreadFacts
  <2> QED
    BY <1>1, <1>3, <2>1, <2>2, ThreadFacts DEF Own, CliInv, CliTyped
<1> QED
  BY <1>4, <1>5, <1>6, Zenon DEF CliInv

(* A thread begins with the descriptor it finds in client_sock. *)
LEMMA BeginStep ==
  ASSUME CliInv, NEW t \in Slot, client_handler(t)
  PROVE  CliInv'
<1>1. /\ th[t].pc = "start"
      /\ th' = [th EXCEPT ![t].pc = "recv", ![t].sock = client_sock,
                          ![t].on = ConnectionOf(client_sock)]
      /\ UNCHANGED <<fdt, client_sock, conn, typed, lines, overwritten, left>>
  BY Zenon DEF client_handler
<1>2. /\ ConnectionOf(client_sock) \in Client \cup {NULL}
      /\ client_sock \in Fd \cup {0} /\ (ConnectionOf(client_sock) # NULL => client_sock \in Fd)
      /\ client_sock \in Fd => ConnectionOf(client_sock) = fdt[client_sock]
  BY <1>1, ThreadFacts DEF CliInv, CliTyped, ConnectionOf
<1>3. \A u \in Slot : th[u] \in ThreadType
  BY DEF CliInv, CliTyped
<1>4. /\ th'[t] = [th[t] EXCEPT !.pc = "recv", !.sock = client_sock,
                                 !.on = ConnectionOf(client_sock)]
      /\ th'[t] \in ThreadType /\ th'[t].mode = th[t].mode /\ th'[t].data = th[t].data
      /\ th'[t].pc = "recv" /\ th'[t].sock = client_sock /\ th'[t].on = ConnectionOf(client_sock)
      /\ \A u \in Slot \ {t} : th'[u] = th[u]
  BY <1>1, <1>2, <1>3 DEF CliInv, CliTyped, ThreadType
<1>5. CliTyped'
  BY <1>1, <1>3, <1>4 DEF CliInv, CliTyped
<1>6. HaveSockets'
  BY <1>1, <1>2, <1>4 DEF CliInv, HaveSockets
<1>7. ASSUME ~ overwritten' PROVE Own'
  <2>1. /\ Own
        /\ t \in Client => client_sock \in Fd /\ fdt[client_sock] = t
        /\ t = NULL => ConnectionOf(client_sock) = NULL
    BY <1>1, <1>7, Zenon DEF CliInv, Own, ConnectionOf
  <2>2. ASSUME NEW u \in Client
        PROVE  /\ conn[u] \in {"out", "connecting"} => th'[u].pc = "none" /\ u # t
               /\ th'[u].pc = "start" => u # t /\ th[u].pc = "start"
               /\ IF th'[u].pc = "recv"
                    THEN th'[u].sock \in Fd /\ fdt[th'[u].sock] = u /\ th'[u].on = u
                    ELSE th'[u].on = NULL
               /\ th[u].pc \in {"start", "recv"} => th'[u].pc \in {"start", "recv"}
               /\ th[u].pc = "done" => th'[u].pc = "done"
    <3>1. CASE u = t
      BY <1>1, <1>2, <1>4, <2>1, <3>1 DEF Own
    <3>2. CASE u # t
      BY <1>4, <2>1, <3>2, ThreadFacts DEF Own
    <3> QED
      BY <3>1, <3>2, Zenon
  <2>3. (th'[NULL].pc = "start" => client_sock = 0) /\ th'[NULL].on = NULL
    <3>1. CASE t = NULL
      BY <1>4, <2>1, <3>1
    <3>2. CASE t # NULL
      BY <1>4, <2>1, <3>2, ThreadFacts DEF Own
    <3> QED
      BY <3>1, <3>2, Zenon
  <2>4. ASSUME NEW d \in Fd, fdt[d] # NULL
        PROVE  fdt[d] \in left \/ th'[fdt[d]].pc \in {"start", "recv"}
    <3>1. PICK u \in Client : u = fdt[d]
      BY <2>4, Zenon DEF CliInv, CliTyped
    <3>2. u \in left \/ th[u].pc \in {"start", "recv"}
      BY <2>1, <2>4, <3>1, Zenon DEF Own
    <3> QED
      BY <2>2, <3>1, <3>2
  <2>5. /\ \A u \in Client : conn[u] \in {"out", "connecting"} => \A d \in Fd : fdt[d] # u
        /\ \A u \in Client : th'[u].pc = "start" => client_sock \in Fd /\ fdt[client_sock] = u
        /\ \A d, e \in Fd : fdt[d] # NULL /\ fdt[d] = fdt[e] => d = e
        /\ \A u \in Client : conn[u] = "gone" => u \in left \/ th'[u].pc = "done"
    BY <2>1, <2>2 DEF Own
  <2> QED
    BY <1>1, <2>2, <2>3, <2>4, <2>5, Zenon DEF Own
<1> QED
  BY <1>5, <1>6, <1>7, Zenon DEF CliInv

(* The thread of a client that has left ends, and closes nothing. *)
LEMMA GoneStep ==
  ASSUME CliInv, NEW t \in Slot, client_gone(t)
  PROVE  CliInv'
<1>1. /\ th[t].pc = "recv" /\ (th[t].on # NULL => conn[th[t].on] = "gone")
      /\ th' = [th EXCEPT ![t] = [NoThread EXCEPT !.pc = "done"]]
      /\ UNCHANGED <<fdt, client_sock, conn, typed, lines, overwritten, left>>
  BY Zenon DEF client_gone
<1>2. /\ th'[t] = [NoThread EXCEPT !.pc = "done"] /\ th'[t] \in ThreadType
      /\ th'[t].pc = "done" /\ th'[t].on = NULL /\ th'[t].data = NULL
      /\ \A u \in Slot \ {t} : th'[u] = th[u]
  BY <1>1, ThreadFacts DEF CliInv, CliTyped, NoThread
<1>3. CliTyped'
  BY <1>1, <1>2 DEF CliInv, CliTyped
<1>4. HaveSockets'
  BY <1>1, <1>2 DEF CliInv, HaveSockets
<1>5. ASSUME ~ overwritten' PROVE Own'
  <2>1. Own /\ (t \in Client => t \in left)
    BY <1>1, <1>5, ThreadFacts DEF CliInv, Own
  <2>2. ASSUME NEW u \in Client
        PROVE  /\ conn[u] \in {"out", "connecting"} => th'[u].pc = "none"
               /\ th'[u].pc = "start" => th[u].pc = "start"
               /\ IF th'[u].pc = "recv"
                    THEN th'[u].sock \in Fd /\ fdt[th'[u].sock] = u /\ th'[u].on = u
                    ELSE th'[u].on = NULL
               /\ th[u].pc \in {"start", "recv"} => u \in left \/ th'[u].pc \in {"start", "recv"}
               /\ th[u].pc = "done" => th'[u].pc = "done"
    <3>1. CASE u = t
      BY <1>1, <1>2, <2>1, <3>1 DEF Own
    <3>2. CASE u # t
      BY <1>2, <2>1, <3>2, ThreadFacts DEF Own
    <3> QED
      BY <3>1, <3>2, Zenon
  <2>3. (th'[NULL].pc = "start" => client_sock = 0) /\ th'[NULL].on = NULL
    <3>1. CASE t = NULL
      BY <1>2, <3>1
    <3>2. CASE t # NULL
      BY <1>2, <2>1, <3>2, ThreadFacts DEF Own
    <3> QED
      BY <3>1, <3>2, Zenon
  <2>4. ASSUME NEW d \in Fd, fdt[d] # NULL
        PROVE  fdt[d] \in left \/ th'[fdt[d]].pc \in {"start", "recv"}
    <3>1. PICK u \in Client : u = fdt[d]
      BY <2>4, Zenon DEF CliInv, CliTyped
    <3>2. u \in left \/ th[u].pc \in {"start", "recv"}
      BY <2>1, <2>4, <3>1, Zenon DEF Own
    <3> QED
      BY <2>2, <3>1, <3>2
  <2>5. /\ \A u \in Client : conn[u] \in {"out", "connecting"} => \A d \in Fd : fdt[d] # u
        /\ \A u \in Client : th'[u].pc = "start" => client_sock \in Fd /\ fdt[client_sock] = u
        /\ \A d, e \in Fd : fdt[d] # NULL /\ fdt[d] = fdt[e] => d = e
        /\ \A u \in Client : conn[u] = "gone" => u \in left \/ th'[u].pc = "done"
    BY <2>1, <2>2 DEF Own
  <2> QED
    BY <1>1, <2>2, <2>3, <2>4, <2>5, Zenon DEF Own
<1> QED
  BY <1>3, <1>4, <1>5, Zenon DEF CliInv

(* A line is executed: the thread goes on, or closes its own descriptor.   *)
LEMMA LineStep ==
  ASSUME CliInv, NEW t \in Slot, client_line(t)
  PROVE  CliInv'
<1> DEFINE c == th[t].on
           r == execute_commands(th[t].mode, th[t].data, typed[c])
<1>1. /\ th[t].pc = "recv" /\ c # NULL /\ typed[c] # NULL
      /\ typed' = [typed EXCEPT ![c] = NULL] /\ GoOn(t, r)
      /\ UNCHANGED <<client_sock, lines, overwritten, left>>
  BY Zenon DEF client_line
<1>2. th[t] \in ThreadType /\ c \in Client /\ th[t].sock \in Fd
  BY <1>1 DEF CliInv, CliTyped, ThreadType, HaveSockets
<1>3. typed[c] \in Line /\ typed' \in [Client -> Line \cup {NULL}]
  BY <1>1, <1>2, Zenon DEF CliInv, CliTyped
<1>4. Fits(r)
  BY <1>2, <1>3, ResultFits, Zenon DEF ThreadType
<1>5. ~ overwritten => Own /\ t \in Client /\ c = t /\ fdt[th[t].sock] = t
  BY <1>1, <1>2, ThreadFacts, Zenon DEF CliInv, Own
<1>6. \A u \in Slot : th[u] \in ThreadType
  BY DEF CliInv, CliTyped
<1> HIDE DEF r, c
<1>7. CASE r.finished
  <2>1. /\ fdt' = [fdt EXCEPT ![th[t].sock] = NULL] /\ conn' = [conn EXCEPT ![c] = "gone"]
        /\ th' = [th EXCEPT ![t] = [NoThread EXCEPT !.pc = "done"]]
    BY <1>1, <1>7, Zenon DEF GoOn, c
  <2>2. /\ th'[t] = [NoThread EXCEPT !.pc = "done"] /\ th'[t] \in ThreadType
        /\ th'[t].pc = "done" /\ th'[t].on = NULL /\ th'[t].data = NULL
        /\ \A u \in Slot \ {t} : th'[u] = th[u]
    BY <2>1, ThreadFacts DEF CliInv, CliTyped, NoThread
  <2>3. CliTyped'
    BY <1>1, <1>2, <1>3, <2>1, <2>2 DEF CliInv, CliTyped
  <2>4. HaveSockets'
    BY <1>1, <2>2 DEF CliInv, HaveSockets
  <2>5. ASSUME ~ overwritten' PROVE Own'
    <3>1. Own /\ t \in Client /\ c = t /\ fdt[th[t].sock] = t
      BY <1>1, <1>5, <2>5, Zenon
    <3>2. /\ fdt'[th[t].sock] = NULL /\ \A e \in Fd \ {th[t].sock} : fdt'[e] = fdt[e]
          /\ conn'[t] = "gone" /\ \A u \in Client \ {t} : conn'[u] = conn[u]
      BY <1>2, <2>1, <3>1, Zenon DEF CliInv, CliTyped
    <3>3. ASSUME NEW e \in Fd PROVE fdt'[e] # t
      <4>1. \A f \in Fd : fdt[f] # NULL /\ fdt[f] = fdt[e] => f = e
        BY <3>1, Zenon DEF Own
      <4>2. fdt[e] = t => e = th[t].sock
        BY <1>2, <3>1, <4>1, ThreadFacts, Zenon
      <4> QED
        BY <3>1, <3>2, <4>2, ThreadFacts, Zenon
    <3>4. ASSUME NEW u \in Client \ {t} PROVE th'[u] = th[u] /\ \A e \in Fd : fdt[e] = u => fdt'[e] = u
      BY <1>2, <2>2, <3>1, <3>2, ThreadFacts, Zenon
    <3>5. \A e \in Fd : fdt'[e] # NULL => fdt'[e] = fdt[e] /\ fdt[e] \in Client \ {t}
      <4>1. \A e \in Fd : fdt[e] \in Client \cup {NULL}
        BY Zenon DEF CliInv, CliTyped
      <4> QED
        BY <3>2, <3>3, <4>1
    <3>6. ASSUME NEW u \in Client
          PROVE  /\ conn'[u] \in {"out", "connecting"} =>
                      th'[u].pc = "none" /\ \A e \in Fd : fdt'[e] # u
                 /\ th'[u].pc = "start" => client_sock \in Fd /\ fdt'[client_sock] = u
                 /\ IF th'[u].pc = "recv"
                      THEN th'[u].sock \in Fd /\ fdt'[th'[u].sock] = u /\ th'[u].on = u
                      ELSE th'[u].on = NULL
                 /\ conn'[u] = "gone" => u \in left \/ th'[u].pc = "done"
      <4>1. CASE u = t
        BY <2>2, <3>2, <4>1
      <4>2. CASE u # t
        BY <3>1, <3>2, <3>4, <3>5, <4>2, ThreadFacts DEF Own, CliInv, HaveSockets
      <4> QED
        BY <4>1, <4>2, Zenon
    <3>7. th'[NULL] = th[NULL]
      BY <2>2, <3>1, ThreadFacts
    <3> QED
      BY <1>1, <3>1, <3>4, <3>5, <3>6, <3>7 DEF Own
  <2> QED
    BY <2>3, <2>4, <2>5, Zenon DEF CliInv
<1>8. CASE ~ r.finished
  <2>1. /\ th' = [th EXCEPT ![t].mode = r.mode, ![t].data = r.data, ![t].on = fdt[th[t].sock]]
        /\ UNCHANGED <<fdt, conn>>
    BY <1>1, <1>8, Zenon DEF GoOn
  <2>2. /\ th'[t] = [th[t] EXCEPT !.mode = r.mode, !.data = r.data, !.on = fdt[th[t].sock]]
        /\ \A u \in Slot \ {t} : th'[u] = th[u]
    BY <2>1 DEF CliInv, CliTyped
  <2>3. /\ th'[t] \in ThreadType /\ th'[t].mode = r.mode /\ th'[t].data = r.data
        /\ th'[t].pc = th[t].pc /\ th'[t].sock = th[t].sock /\ th'[t].on = fdt[th[t].sock]
    <3>1. th[t] \in ThreadType
      BY Zenon DEF CliInv, CliTyped
    <3>2. /\ th[t].sock \in Fd /\ fdt[th[t].sock] \in Client \cup {NULL}
          /\ r.mode \in Mode /\ r.data \in Data
      BY <1>2, <1>4, Zenon DEF CliInv, CliTyped, Fits
    <3> QED
      BY <2>2, <3>1, <3>2 DEF ThreadType
  <2>4. CliTyped'
    BY <1>1, <1>3, <1>4, <2>1, <2>2, <2>3 DEF CliInv, CliTyped, Fits
  <2>5. HaveSockets'
    BY <1>1, <1>2, <2>2, <2>3 DEF CliInv, HaveSockets
  <2>6. ASSUME ~ overwritten' PROVE Own'
    <3>1. Own /\ t \in Client /\ c = t /\ fdt[th[t].sock] = t
      BY <1>1, <1>5, <2>6, Zenon
    <3>2. \A u \in Slot : th'[u].pc = th[u].pc /\ th'[u].sock = th[u].sock /\ th'[u].on = th[u].on
      BY <2>2, <2>3, <3>1 DEF c
    <3> QED
      BY <1>1, <2>1, <3>1, <3>2, ThreadFacts DEF Own, CliInv, CliTyped
  <2> QED
    BY <2>4, <2>5, <2>6, Zenon DEF CliInv
<1> QED
  BY <1>7, <1>8, Zenon

(* What the clients do touches no thread and no descriptor. *)
LEMMA ClientStep ==
  ASSUME CliInv, NEW c \in Client,
         connect(c) \/ leave(c) \/ \E line \in Line : type(c, line)
  PROVE  CliInv'
<1>1. UNCHANGED <<fdt, client_sock, th, overwritten>>
  BY Zenon DEF connect, leave, type
<1>2. CASE connect(c)
  <2>1. conn[c] = "out" /\ conn' = [conn EXCEPT ![c] = "connecting"] /\ UNCHANGED <<typed, lines, left>>
    BY <1>2, Zenon DEF connect
  <2>2. CliTyped' /\ HaveSockets'
    BY <1>1, <2>1 DEF CliInv, CliTyped, HaveSockets
  <2>3. ASSUME ~ overwritten' PROVE Own'
    BY <1>1, <2>1, <2>3 DEF CliInv, CliTyped, Own
  <2> QED
    BY <2>2, <2>3, Zenon DEF CliInv
<1>3. CASE leave(c)
  <2>1. conn' = [conn EXCEPT ![c] = "gone"] /\ left' = left \cup {c} /\ UNCHANGED <<typed, lines>>
    BY <1>3, Zenon DEF leave
  <2>2. CliTyped' /\ HaveSockets'
    BY <1>1, <2>1 DEF CliInv, CliTyped, HaveSockets
  <2>3. ASSUME ~ overwritten' PROVE Own'
    BY <1>1, <2>1, <2>3 DEF CliInv, CliTyped, Own
  <2> QED
    BY <2>2, <2>3, Zenon DEF CliInv
<1>4. ASSUME NEW line \in Line, type(c, line) PROVE CliInv'
  <2>1. /\ lines < MaxLines /\ lines' = lines + 1 /\ typed' = [typed EXCEPT ![c] = line]
        /\ UNCHANGED <<conn, left>>
    BY <1>4, Zenon DEF type
  <2>2. CliTyped' /\ HaveSockets'
    BY <1>1, <2>1, CliAssumption DEF CliInv, CliTyped, HaveSockets
  <2>3. ASSUME ~ overwritten' PROVE Own'
    BY <1>1, <2>1, <2>3, Zenon DEF CliInv, Own
  <2> QED
    BY <2>2, <2>3, Zenon DEF CliInv
<1> QED
  BY <1>2, <1>3, <1>4, Zenon

-----------------------------------------------------------------------------

(* Before the server starts there is no connection, and no command. *)
LEMMA InitInv == Init => Inv /\ WordsOnce
<1> SUFFICES ASSUME Init PROVE Inv /\ WordsOnce
  OBVIOUS
<1>1. /\ children = [n \in Node |-> <<>>] /\ function = [n \in Node |-> NULL]
      /\ reg = [r \in Registrar |-> [n |-> 1, words |-> 0]]
      /\ fdt = [d \in Fd |-> NULL] /\ client_sock = 0
      /\ conn = [c \in Client |-> "out"] /\ typed = [c \in Client |-> NULL]
      /\ th = [t \in Slot |-> NoThread] /\ lines = 0 /\ overwritten = FALSE /\ left = {}
  BY Zenon DEF Init, TreeInit
<1>2. children \in [Node -> Seq(Words)] /\ WordsOnce
  BY <1>1 DEF WordsOnce
<1>3. function \in [Node -> {c.function : c \in Table} \cup {NULL}]
  BY <1>1, Zenon
<1>4. RegistersTyped
  <2>1. ASSUME NEW r \in Registrar
        PROVE  1 \in 1 .. Len(Commands(r)) + 1
               /\ (1 <= Len(Commands(r)) => 0 <= Len(Commands(r)[1].words))
    BY CommandsTyped, CommandFacts
  <2> QED
    BY <1>1, <2>1 DEF RegistersTyped
<1>5. CliTyped /\ HaveSockets
  <2>1. NoThread \in ThreadType
    BY Zenon DEF NoThread, ThreadType, Mode, Data
  <2>2. \A t \in Slot : th[t].pc = "none" /\ th[t].data = NULL
    BY <1>1 DEF NoThread
  <2>3. th \in [Slot -> ThreadType]
    BY <1>1, <2>1, Zenon
  <2>4. lines \in 0 .. MaxLines
    BY <1>1, CliAssumption, SMT
  <2>5. /\ fdt \in [Fd -> Client \cup {NULL}] /\ client_sock \in Fd \cup {0}
        /\ conn \in [Client -> {"out", "connecting", "in", "gone"}]
        /\ typed \in [Client -> Line \cup {NULL}]
        /\ overwritten \in BOOLEAN /\ left \subseteq Client
    BY <1>1, Zenon
  <2> QED
    BY <2>2, <2>3, <2>4, <2>5, Zenon DEF CliTyped, HaveSockets
<1>6. Own
  BY <1>1, ThreadFacts DEF Own, NoThread
<1> QED
  BY <1>2, <1>3, <1>4, <1>5, <1>6 DEF Inv, TypeOK, CliTyped, Words, ThreadType, Mode, Data, RegistersTyped

(* Every step keeps the invariant, and every word once in a node. *)
LEMMA NextInv == Inv /\ [Next]_vars => Inv' /\ (WordsOnce => WordsOnce')
<1> SUFFICES ASSUME Inv, [Next]_vars PROVE Inv' /\ (WordsOnce => WordsOnce')
  OBVIOUS
<1>1. /\ children \in [Node -> Seq(Words)] /\ RegistersTyped /\ TypeOK
      /\ function \in [Node -> {c.function : c \in Table} \cup {NULL}]
      /\ CliInv
  BY Zenon DEF Inv, TypeOK, CliInv, CliTyped, Words, ThreadType, Mode, Data
<1>2. ASSUME children' \in [Node -> Seq(Words)], RegistersTyped',
             function' \in [Node -> {c.function : c \in Table} \cup {NULL}], CliInv'
      PROVE  Inv'
  BY <1>2, Zenon DEF Inv, TypeOK, CliInv, CliTyped, Words, ThreadType, Mode, Data, RegistersTyped
<1>3. ASSUME UNCHANGED treeVars
      PROVE  /\ children' \in [Node -> Seq(Words)] /\ RegistersTyped'
             /\ function' \in [Node -> {c.function : c \in Table} \cup {NULL}]
             /\ WordsOnce => WordsOnce'
  BY <1>1, <1>3, Zenon DEF treeVars, RegistersTyped, WordsOnce
<1>4. ASSUME UNCHANGED cliVars PROVE CliInv'
  BY <1>1, <1>4, Zenon DEF cliVars, CliInv, CliTyped, HaveSockets, Own
<1>5. ASSUME NEW r \in Registrar, Register(r), UNCHANGED cliVars
      PROVE  Inv' /\ (WordsOnce => WordsOnce')
  <2>1. CASE register_word(r)
    <3>1. function' = function
      BY <2>1, Zenon DEF register_word
    <3> QED
      BY <1>1, <1>2, <1>4, <1>5, <2>1, <3>1, WordStep, Zenon
  <2>2. CASE register_handler(r)
    <3>1. children' = children
      BY <2>2, Zenon DEF register_handler
    <3>2. WordsOnce => WordsOnce'
      BY <3>1, Zenon DEF WordsOnce
    <3> QED
      BY <1>1, <1>2, <1>4, <1>5, <2>2, <3>1, <3>2, HandlerStep, Zenon
  <2> QED
    BY <1>5, <2>1, <2>2, Zenon DEF Register
<1>6. ASSUME NEW c \in Client,
             \/ accept(c) \/ connect(c) \/ leave(c)
             \/ \E line \in Line : type(c, line)
      PROVE  Inv' /\ (WordsOnce => WordsOnce')
  <2>1. UNCHANGED treeVars
    BY <1>6, Zenon DEF accept, connect, leave, type
  <2>2. CliInv'
    BY <1>1, <1>6, AcceptStep, ClientStep, Zenon
  <2> QED
    BY <1>2, <1>3, <2>1, <2>2, Zenon
<1>8. ASSUME accept_fails \/ \E t \in Slot : ThreadStep(t)
      PROVE  Inv' /\ (WordsOnce => WordsOnce')
  <2>1. UNCHANGED treeVars
    BY <1>8, Zenon DEF accept_fails, ThreadStep, client_handler, client_line, client_gone
  <2>2. CliInv'
    BY <1>1, <1>8, FailStep, BeginStep, LineStep, GoneStep, Zenon DEF ThreadStep
  <2> QED
    BY <1>2, <1>3, <2>1, <2>2, Zenon
<1>7. ASSUME UNCHANGED vars PROVE Inv' /\ (WordsOnce => WordsOnce')
  BY <1>2, <1>3, <1>4, <1>7, Zenon DEF vars
<1> QED
  BY <1>5, <1>6, <1>7, <1>8, Zenon DEF Next

(* Unless accept returns to start_cli_server, with a client or without,    *)
(* before the thread made last has read client_sock, every client is       *)
(* served by its own thread and no other, and a descriptor in use has a    *)
(* thread that will close it, unless its client left without a command to. *)
THEOREM ClientsHaveTheirThreads == Spec => []OwnThread
<1>1. Inv => OwnThread
  <2> SUFFICES ASSUME Inv PROVE OwnThread
    OBVIOUS
  <2>1. ASSUME ~ overwritten
        PROVE  /\ \A t \in Slot : th[t].on \in {t, NULL}
               /\ \A d \in Fd : fdt[d] # NULL =>
                    \/ fdt[d] \in left
                    \/ LET t == th[fdt[d]]
                       IN  t.pc = "start" \/ (t.pc = "recv" /\ t.sock = d /\ t.on = fdt[d])
    <3>1. Own /\ HaveSockets /\ fdt \in [Fd -> Client \cup {NULL}]
      BY <2>1, Zenon DEF Inv, TypeOK
    <3>2. \A t \in Slot : th[t].on \in {t, NULL}
      BY <3>1, ThreadFacts DEF Own
    <3>3. ASSUME NEW d \in Fd, fdt[d] # NULL, fdt[d] \notin left, th[fdt[d]].pc # "start"
          PROVE  th[fdt[d]].pc = "recv" /\ th[fdt[d]].sock = d /\ th[fdt[d]].on = fdt[d]
      BY <3>1, <3>3 DEF Own, HaveSockets
    <3> QED
      BY <3>2, <3>3, Zenon
  <2> QED
    BY <2>1, Zenon DEF Inv, OwnThread
<1> QED
  BY <1>1, InitInv, NextInv, PTL DEF Spec

(* Every step keeps what the tree has to do with the tables. *)
LEMMA NextTree == Inv /\ TreeInv /\ [Next]_vars => TreeInv'
<1> SUFFICES ASSUME Inv, TreeInv, [Next]_vars PROVE TreeInv'
  OBVIOUS
<1>1. TreeTyped
  BY Zenon DEF Inv, TypeOK, TreeTyped, Words
<1>2. ASSUME NEW r \in Registrar, Register(r) PROVE TreeInv'
  BY <1>1, <1>2, WordKeeps, HandlerKeeps, Zenon DEF Register
<1>3. ASSUME UNCHANGED treeVars PROVE TreeInv'
  BY <1>3, Zenon DEF treeVars, TreeInv, FromTable, Registered, Present, HasWords, Has, CliStarted
<1>4. ASSUME NEW c \in Client,
             \/ accept(c) \/ connect(c) \/ leave(c)
             \/ \E line \in Line : type(c, line)
      PROVE  TreeInv'
  <2>1. UNCHANGED treeVars
    BY <1>4, Zenon DEF accept, connect, leave, type
  <2> QED
    BY <1>3, <2>1, Zenon
<1>5. ASSUME accept_fails \/ \E t \in Slot : ThreadStep(t) PROVE TreeInv'
  <2>1. UNCHANGED treeVars
    BY <1>5, Zenon DEF accept_fails, ThreadStep, client_handler, client_line, client_gone
  <2> QED
    BY <1>3, <2>1, Zenon
<1> QED
  BY <1>2, <1>3, <1>4, <1>5, Zenon DEF Next, vars

(* No word is twice in a node though main and the CLI's thread register at *)
(* once; and once the CLI's thread has registered its commands, the line   *)
(* of every command executes that command's function and no other, or      *)
(* nothing at all while main has still to register it.                     *)
THEOREM LinesRunTheirHandlers == Spec => []RightHandler
<1>1. Init => Inv /\ WordsOnce /\ TreeInv
  BY InitInv, InitTree, Zenon DEF Init
<1>2. Inv /\ WordsOnce /\ TreeInv /\ [Next]_vars => Inv' /\ WordsOnce' /\ TreeInv'
  BY NextInv, NextTree, Zenon
<1>3. Inv /\ WordsOnce /\ TreeInv => RightHandler
  <2> SUFFICES ASSUME Inv, WordsOnce, TreeInv, Done("cli"), NEW c \in Table
               PROVE  Executed(c.mode, c.words) \in
                        {c.function, IF \A r \in Registrar : Done(r) THEN c.function ELSE NULL}
    BY Zenon DEF RightHandler
  <2>1. TreeTyped
    BY Zenon DEF Inv, TypeOK, TreeTyped, Words
  <2> QED
    BY <2>1, OwnHandler, Zenon
<1> QED
  BY <1>1, <1>2, <1>3, PTL DEF Spec
=============================================================================
