---------------------------- MODULE CommandTree -----------------------------
(***************************************************************************)
(* The commands of the CLI (subsystems/clicommands.c): a tree of words for *)
(* each mode.  Main registers the commands of dead session detection, IPC  *)
(* and WCCP, then creates the CLI's thread, and registers its own commands *)
(* while that thread registers the CLI's.  register_command locks a node   *)
(* while it looks for a word and adds it, sets the handler without a lock, *)
(* and execute_commands takes no lock at all.  Its line is executed in one *)
(* step.                                                                   *)
(***************************************************************************)
EXTENDS Naturals, Sequences, FiniteSets

CONSTANTS
  EarlyCommands, \* what main registers before it creates the CLI's thread, in order:
                 \* the commands of dead session detection, IPC and WCCP
  MainCommands,  \* what it registers when all threads are created
  CliCommands,   \* what the CLI's thread registers
  NULL

\* A command: its mode, its words and the function that handles it.
Command(mode, words, f) == [mode |-> mode, words |-> words, function |-> f]
CommandType == [mode : STRING, words : Seq(STRING), function : STRING]

ASSUME CommandAssumption ==
  /\ EarlyCommands \in Seq(CommandType) /\ MainCommands \in Seq(CommandType)
  /\ CliCommands \in Seq(CommandType)

Registrar == {"main", "cli"}
Commands(r) == IF r = "main" THEN EarlyCommands \o MainCommands ELSE CliCommands
Table == UNION {{Commands(r)[n] : n \in DOMAIN Commands(r)} : r \in Registrar}

\* A node of the tree is the path to it: the mode and the words.
Root(mode) == <<mode>>
Path(c, n) == Root(c.mode) \o SubSeq(c.words, 1, n)
Node == UNION {{Path(c, n) : n \in 0 .. Len(c.words)} : c \in Table}

(* What the tables of commands have to be like, and the code's are: no     *)
(* word is "help", and no command goes on where another one ends, or has   *)
(* the words of another but not its function.  And in a command that main  *)
(* may register when the server is running, after each word either a       *)
(* command that is there by then goes on, or the next word is none that    *)
(* could also stand in the place of the word itself.                       *)
There == {EarlyCommands[n] : n \in DOMAIN EarlyCommands} \cup
           {CliCommands[n] : n \in DOMAIN CliCommands}
Branches(c, k) == \E d \in There : k < Len(d.words) /\ Path(d, k) = Path(c, k)
ASSUME TableAssumption ==
  /\ CliCommands # <<>> /\ NULL \notin Node
  /\ \A c \in Table :
       /\ c.words # <<>> /\ c.function # NULL
       /\ \A k \in DOMAIN c.words : c.words[k] # "help"
       /\ \A d \in Table : \A k \in 0 .. Len(d.words) :
            Path(c, Len(c.words)) = Path(d, k) => k = Len(d.words) /\ c.function = d.function
  /\ \A n \in DOMAIN MainCommands :
       LET c == MainCommands[n]
       IN  \A k \in 1 .. Len(c.words) - 1 :
             Branches(c, k) \/ Append(Path(c, k - 1), c.words[k + 1]) \notin Node

VARIABLES children,    \* children[n]: the words under node n, in the order of the list
          function,    \* function[n]: the command_handler of node n
          reg          \* reg[r]: which command, and how many words of it, r has registered

treeVars == <<children, function, reg>>

TreeInit ==
  /\ children = [n \in Node |-> <<>>]
  /\ function = [n \in Node |-> NULL]
  /\ reg = [r \in Registrar |-> [n |-> 1, words |-> 0]]

Has(n, word) == \E i \in DOMAIN children[n] : children[n][i] = word
Done(r) == reg[r].n > Len(Commands(r))
CliStarted == reg["main"].n > Len(EarlyCommands)

-----------------------------------------------------------------------------
(* register_command *)

AddWord(n, word) ==
  IF Has(n, word) THEN children ELSE [children EXCEPT ![n] = Append(@, word)]

\* Mutant of CanRegister: the CLI's thread is created first of all.
CanRegister_early(r) == ~ Done(r)

\* The CLI's thread exists once main has created it.
CanRegister(r) == ~ Done(r) /\ (r = "cli" => CliStarted)

(* One word: the node is searched and, if need be, appended to under its   *)
(* lock.                                                                   *)
register_word(r) ==
  LET c == Commands(r)[reg[r].n]
      k == reg[r].words
  IN
  /\ CanRegister(r) /\ k < Len(c.words)
  /\ children' = AddWord(Path(c, k), c.words[k + 1])
  /\ reg' = [reg EXCEPT ![r].words = k + 1]
  /\ UNCHANGED function

(* After the last word, the handler.                                       *)
register_handler(r) ==
  LET c == Commands(r)[reg[r].n]
  IN
  /\ CanRegister(r) /\ reg[r].words = Len(c.words)
  /\ function' = [function EXCEPT ![Path(c, Len(c.words))] = c.function]
  /\ reg' = [reg EXCEPT ![r] = [n |-> @.n + 1, words |-> 0]]
  /\ UNCHANGED children

Register(r) == register_word(r) \/ register_handler(r)

-----------------------------------------------------------------------------
(* execute_commands *)

\* The words of a line are looked up in node n one by one: a word with words
\* under it leads there, one without a handler is passed over, and one with a
\* handler, one that is not found, or "help" ends the search.
Leaf(n) == children[n] = <<>>
Ends(n, word) ==
  \/ word = "help" \/ ~ Has(n, word)
  \/ Leaf(Append(n, word)) /\ function[Append(n, word)] # NULL

\* Where the word after this one is looked up, NULL if the search has ended; and
\* where each word of a line is.
After(n, word) ==
  IF n = NULL THEN NULL
  ELSE IF Ends(n, word) THEN NULL
  ELSE IF Leaf(Append(n, word)) THEN n ELSE Append(n, word)
Lookups(mode, line) ==
  LET at[i \in DOMAIN line] == IF i = 1 THEN Root(mode) ELSE After(at[i - 1], line[i - 1])
  IN  at

\* The position of the word that is executed, 0 if none is.
ExecutedAt(at, line) ==
  LET found == {i \in DOMAIN line :
                  at[i] # NULL /\ line[i] # "help" /\ Has(at[i], line[i]) /\ Ends(at[i], line[i])}
  IN  IF found = {} THEN 0 ELSE CHOOSE i \in found : TRUE

FunctionAt(at, line, i) == IF i = 0 THEN NULL ELSE function[Append(at[i], line[i])]
Executed(mode, line) ==
  FunctionAt(Lookups(mode, line), line, ExecutedAt(Lookups(mode, line), line))

-----------------------------------------------------------------------------
(* Properties *)

\* No word is twice in a node, though two threads register at once:
\* register_command has the node's lock while it searches and appends.
WordsOnce ==
  \A n \in Node : \A i, j \in DOMAIN children[n] : children[n][i] = children[n][j] => i = j

(* A line that is a command never runs another one's handler, though       *)
(* execute_commands reads the tree while it grows and passes over a word   *)
(* that has neither handler nor words under it yet ("no neighbor" would    *)
(* then run "neighbor"); and once all is registered it runs its own: no    *)
(* command hides another, and no word is twice in a node.                  *)
RightHandler ==
  /\ WordsOnce
  /\ Done("cli") => \A c \in Table :
       Executed(c.mode, c.words) \in {c.function, IF \A r \in Registrar : Done(r) THEN c.function
                                                                             ELSE NULL}

=============================================================================
