--------------------------------- MODULE Cli ---------------------------------
(***************************************************************************)
(* The CLI's server (subsystems/climanager.c): its thread, when the CLI's  *)
(* commands are registered, accepts connections and makes a thread for     *)
(* each, which is given the address of the variable client_sock; the       *)
(* thread reads the descriptor there when it comes to run.  It keeps the   *)
(* mode and the mode's data (for WCCP the service group) from line to      *)
(* line.  A client is a program at the other end of a connection.  When    *)
(* accept fails, client_sock is -1 (0 here), which does not end the loop:  *)
(* a thread is made all the same, th[NULL] here, one at a time.            *)
(***************************************************************************)
EXTENDS CommandTree

CONSTANTS Client, Line,            \* the clients, and what they may type
          MaxFd, MaxLines          \* bounds

Fd == 1 .. MaxFd
Slot == Client \cup {NULL}

ASSUME CliAssumption ==
  NULL \notin Client /\ Line \subseteq Seq(STRING) /\ MaxFd \in Nat /\ MaxLines \in Nat

VARIABLES fdt,            \* fdt[d]: the connection of descriptor d
          client_sock,    \* the variable of start_cli_server
          conn,           \* conn[c]: how far the connection of client c is
          typed,          \* typed[c]: the line client c has sent
          th,             \* th[c]: the thread made when c was accepted, or none
          lines,          \* how many lines were typed
          overwritten,    \* history: client_sock was set again before a thread read it
          left            \* history: the clients that left without a command to

cliVars == <<fdt, client_sock, conn, typed, th, lines, overwritten, left>>
vars == <<treeVars, cliVars>>

NoThread == [pc |-> "none", sock |-> 0, on |-> NULL, mode |-> "global", data |-> NULL]

Init ==
  /\ TreeInit
  /\ fdt = [d \in Fd |-> NULL]
  /\ client_sock = 0
  /\ conn = [c \in Client |-> "out"]
  /\ typed = [c \in Client |-> NULL]
  /\ th = [t \in Slot |-> NoThread]
  /\ lines = 0
  /\ overwritten = FALSE /\ left = {}

FreeFds == {d \in Fd : fdt[d] = NULL}
Lowest(S) == CHOOSE x \in S : \A y \in S : x <= y

(* start_cli_server: accept, and a thread for the connection.              *)
accept(c) ==
  LET d == Lowest(FreeFds)
  IN
  /\ Done("cli") /\ conn[c] = "connecting" /\ FreeFds # {}
  /\ fdt' = [fdt EXCEPT ![d] = c]
  /\ client_sock' = d
  /\ conn' = [conn EXCEPT ![c] = "in"]
  /\ th' = [th EXCEPT ![c].pc = "start"]
  /\ overwritten' = (overwritten \/ \E x \in Slot : th[x].pc = "start")
  /\ UNCHANGED <<treeVars, typed, lines, left>>

accept_fails ==
  /\ Done("cli") /\ (\E c \in Client : conn[c] = "connecting")
  /\ th[NULL].pc \in {"none", "done"}
  /\ client_sock' = 0
  /\ th' = [th EXCEPT ![NULL].pc = "start"]
  /\ overwritten' = (overwritten \/ \E x \in Slot : th[x].pc = "start")
  /\ UNCHANGED <<treeVars, fdt, conn, typed, lines, left>>

ConnectionOf(d) == IF d = 0 THEN NULL ELSE fdt[d]

(* client_handler: the thread reads client_sock and waits in recv, on the  *)
(* connection the descriptor stands for.                                   *)
client_handler(t) ==
  /\ th[t].pc = "start"
  /\ th' = [th EXCEPT ![t].pc = "recv", ![t].sock = client_sock,
                        ![t].on = ConnectionOf(client_sock)]
  /\ UNCHANGED <<treeVars, fdt, client_sock, conn, typed, lines, overwritten, left>>

-----------------------------------------------------------------------------
(* A line is executed *)

\* What a command's function returns: the mode, its data and whether the session ends.
Result(mode, data, finished) == [mode |-> mode, data |-> data, finished |-> finished]

(* "wccp" with a group enters its mode, "server" stays in it if there is a *)
(* group, "password" stays in it without; commands of the global mode and  *)
(* those that leave a mode return to the global one.                       *)
CommandResult(f, parameter, data) ==
  CASE f = "cli_quit" -> Result("global", NULL, TRUE)
    [] f = "cli_enter_wccp_mode" /\ parameter # NULL -> Result("wccp", parameter, FALSE)
    [] f = "cli_wccp_server" /\ data # NULL -> Result("wccp", data, FALSE)
    [] f = "cli_wccp_password" -> Result("wccp", NULL, FALSE)
    [] f \in {"cli_mode_test", "cli_show_params"} -> Result("test", NULL, FALSE)
    [] OTHER -> Result("global", NULL, FALSE)

(* execute_commands: a line that runs nothing leaves the mode as it is,    *)
(* but without its data.                                                   *)
ResultAt(mode, data, line, at, i) ==
  IF i = 0 THEN Result(mode, NULL, FALSE)
  ELSE CommandResult(FunctionAt(at, line, i), IF i < Len(line) THEN line[i + 1] ELSE NULL, data)
execute_commands(mode, data, line) ==
  ResultAt(mode, data, line, Lookups(mode, line), ExecutedAt(Lookups(mode, line), line))

\* The thread t goes on with result r: the session ends or recv is called again.
GoOn(t, r) ==
  IF r.finished
    THEN /\ fdt' = [fdt EXCEPT ![th[t].sock] = NULL]
         /\ conn' = [conn EXCEPT ![th[t].on] = "gone"]
         /\ th' = [th EXCEPT ![t] = [NoThread EXCEPT !.pc = "done"]]
    ELSE /\ th' = [th EXCEPT ![t].mode = r.mode, ![t].data = r.data,
                             ![t].on = fdt[th[t].sock]]
         /\ UNCHANGED <<fdt, conn>>

\* Mutant of client_line: the thread reads client_sock for every recv.
client_line_shared(t) ==
  LET c == th[t].on
      r == execute_commands(th[t].mode, th[t].data, typed[c])
  IN
  /\ th[t].pc = "recv" /\ c # NULL /\ typed[c] # NULL
  /\ typed' = [typed EXCEPT ![c] = NULL]
  /\ IF r.finished THEN GoOn(t, r)
     ELSE /\ th' = [th EXCEPT ![t].mode = r.mode, ![t].data = r.data,
                                  ![t].on = ConnectionOf(client_sock)]
          /\ UNCHANGED <<fdt, conn>>
  /\ UNCHANGED <<treeVars, client_sock, lines, overwritten, left>>

(* recv returns a line, and it is executed.                                *)
client_line(t) ==
  LET c == th[t].on
  IN
  /\ th[t].pc = "recv" /\ c # NULL /\ typed[c] # NULL
  /\ typed' = [typed EXCEPT ![c] = NULL]
  /\ GoOn(t, execute_commands(th[t].mode, th[t].data, typed[c]))
  /\ UNCHANGED <<treeVars, client_sock, lines, overwritten, left>>

\* Mutant of client_gone: the thread ends with a line not read yet.
client_gone_drops(t) ==
  LET c == th[t].on
  IN
  /\ th[t].pc = "recv"
  /\ c # NULL => conn[c] = "gone"
  /\ th' = [th EXCEPT ![t] = [NoThread EXCEPT !.pc = "done"]]
  /\ UNCHANGED <<treeVars, fdt, client_sock, conn, typed, lines, overwritten, left>>

(* recv returns 0 since the client has left, or -1 since the descriptor is *)
(* closed: the thread ends, and closes nothing.                            *)
client_gone(t) ==
  LET c == th[t].on
  IN
  /\ th[t].pc = "recv"
  /\ c # NULL => conn[c] = "gone" /\ typed[c] = NULL
  /\ th' = [th EXCEPT ![t] = [NoThread EXCEPT !.pc = "done"]]
  /\ UNCHANGED <<treeVars, fdt, client_sock, conn, typed, lines, overwritten, left>>

-----------------------------------------------------------------------------
(* The clients *)

connect(c) ==
  /\ conn[c] = "out"
  /\ conn' = [conn EXCEPT ![c] = "connecting"]
  /\ UNCHANGED <<treeVars, fdt, client_sock, typed, th, lines, overwritten, left>>

type(c, line) ==
  /\ conn[c] = "in" /\ typed[c] = NULL /\ lines < MaxLines
  /\ typed' = [typed EXCEPT ![c] = line]
  /\ lines' = lines + 1
  /\ UNCHANGED <<treeVars, fdt, client_sock, conn, th, overwritten, left>>

leave(c) ==
  /\ conn[c] = "in"
  /\ conn' = [conn EXCEPT ![c] = "gone"]
  /\ left' = left \cup {c}
  /\ UNCHANGED <<treeVars, fdt, client_sock, typed, th, lines, overwritten>>

-----------------------------------------------------------------------------
ThreadStep(t) == client_handler(t) \/ client_line(t) \/ client_gone(t)

Next ==
  \/ \E r \in Registrar : Register(r) /\ UNCHANGED cliVars
  \/ \E c \in Client :
       \/ accept(c)
       \/ connect(c) \/ leave(c)
       \/ \E line \in Line : type(c, line)
  \/ accept_fails
  \/ \E t \in Slot : ThreadStep(t)

Spec == Init /\ [][Next]_vars

\* Thread t need not wait.
CanRun(t) ==
  \/ th[t].pc = "start"
  \/ /\ th[t].pc = "recv"
     /\ th[t].on # NULL => typed[th[t].on] # NULL \/ conn[th[t].on] = "gone"

(* The threads run: weak fairness of ThreadStep, since lines are bounded,  *)
(* and a thread that keeps running for them comes to wait or to end.       *)
FairSpec == Spec /\ \A t \in Slot : []<> ~ CanRun(t)

-----------------------------------------------------------------------------
(* Properties *)

(* Type correctness.  The mode's data is a void pointer, to a service   *)
(* group, in the mode of WCCP only: no other mode's command is handed it.  *)
TypeOK ==
  /\ children \in [Node -> Seq(UNION {{c.words[i] : i \in DOMAIN c.words} : c \in Table})]
  /\ function \in [Node -> {c.function : c \in Table} \cup {NULL}]
  /\ \A r \in Registrar : reg[r].n \in 1 .. Len(Commands(r)) + 1
  /\ fdt \in [Fd -> Client \cup {NULL}] /\ client_sock \in Fd \cup {0}
  /\ conn \in [Client -> {"out", "connecting", "in", "gone"}]
  /\ typed \in [Client -> Line \cup {NULL}]
  /\ th \in [Slot -> [pc : {"none", "start", "recv", "done"}, sock : Fd \cup {0},
                      on : Client \cup {NULL}, mode : {"global", "wccp", "test"},
                      data : {NULL} \cup UNION {{l[i] : i \in DOMAIN l} : l \in Line}]]
  /\ \A t \in Slot : th[t].data # NULL => th[t].mode = "wccp"
  /\ lines \in 0 .. MaxLines /\ overwritten \in BOOLEAN /\ left \subseteq Client

(* Unless accept returned, with a client or without, before the thread     *)
(* made last had read client_sock (start_cli_server passes all threads the *)
(* same address), every client is served by its own thread and no other,   *)
(* that of a failed accept serves nobody, and a descriptor in use has a    *)
(* thread on it that will close it, unless its client just left:           *)
(* client_handler closes it for "quit" only, so it is never given back.    *)
OwnThread ==
  /\ TypeOK
  /\ ~ overwritten =>
       /\ \A t \in Slot : th[t].on \in {t, NULL}
       /\ \A d \in Fd : fdt[d] # NULL =>
            \/ fdt[d] \in left
            \/ LET t == th[fdt[d]]
               IN  t.pc = "start" \/ (t.pc = "recv" /\ t.sock = d /\ t.on = fdt[d])

(* Every line is taken up, whoever else connects and leaves meanwhile,     *)
(* unless client_sock was overwritten.                                     *)
LinesRead == \A c \in Client : typed[c] # NULL ~> typed[c] = NULL \/ overwritten

=============================================================================
