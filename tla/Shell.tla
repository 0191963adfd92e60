--------------------------------- MODULE Shell ---------------------------------
(***************************************************************************)
(* How the shell runs a command (sh.c), below init (init.c), as system     *)
(* calls of several processes: fork, pipe, dup, close, open, wait, exit.   *)
(*                                                                         *)
(* runcmd() turns a command into the calls that are left to make; fork()   *)
(* gives the child its own, and there may be no process left to fork.      *)
(* A program is what it does to descriptors 0 and 1.  The kernel's side    *)
(* (file.c, pipe.c, proc.c) is reduced to what these calls return.         *)
(***************************************************************************)
EXTENDS Integers, SequencesExt

CONSTANTS NPROC,    \* entries of ptable
          Sessions  \* sequences of lines typed at the shell: parsed commands, "cd", "eof"

ASSUME ShellAssumption == NPROC \in Nat /\ NPROC >= 2

Pids == 1..NPROC
NOFILE == 6
PIPESZ == 1      \* bytes a pipe holds

VARIABLES
  todo,     \* of each process: the calls it has yet to make
  parentOf, \* 0: the slot is free
  fds,      \* its descriptors: what each refers to
  pfd,      \* p[2] of runcmd()
  zombie,   \* it has exited and not been waited for
  inPipe,   \* bytes in each pipe
  shell,    \* the pid init waits for
  typed     \* the lines typed so far

shellVars == <<todo, parentOf, fds, pfd, zombie, inPipe, shell, typed>>

Closed == <<"closed", 0>>
Tty == <<"console", 0>>
File == <<"file", 0>>
PipeIds == 1..NPROC

\* A call: its name, a number, and the calls of the child for "fork".
Op(name, k) == <<name, k, <<>>>>
ForkTo(ops) == <<"fork", 0, ops>>
Run(cmd) == <<"run", 0, cmd>>

(***************************************************************************)
(* runcmd()                                                                *)
(***************************************************************************)

\* A command is <<"exec", program>>, <<"redir", fd, cmd>>, <<"list", left, right>>,
\* <<"pipe", left, right>>, <<"back", cmd>>, or <<"none">> for a line without words.
\* A program reads its input to the end, writes two bytes, or does both.
Program(prog) == (IF prog \in {"sink", "filter"} THEN <<Op("read", 0)>> ELSE <<>>)
                 \o (IF prog \in {"source", "filter"} THEN <<Op("write", 1), Op("write", 1)>> ELSE <<>>)
                 \o <<Op("exit", 0)>>

OntoLeavesEnd(fd, cmd) == <<Op("close", fd), Op("dup p", fd), Op("close p", fd), Run(cmd)>>

\* What a child of PIPE does first: its end of the pipe becomes descriptor fd.
Onto(fd, cmd) == <<Op("close", fd), Op("dup p", fd), Op("close p", 0), Op("close p", 1), Run(cmd)>>

PipeCmdKeepsEnd(left, right) ==
  <<Op("pipe", 0), ForkTo(Onto(1, left)), ForkTo(Onto(0, right)),
    Op("close p", 0), Op("wait", 0), Op("wait", 0), Op("exit", 0)>>

PipeCmd(left, right) ==
  <<Op("pipe", 0), ForkTo(Onto(1, left)), ForkTo(Onto(0, right)),
    Op("close p", 0), Op("close p", 1), Op("wait", 0), Op("wait", 0), Op("exit", 0)>>

ListCmd(left, right) == <<ForkTo(<<Run(left)>>), Op("wait", 0), Run(right)>>

\* The calls of runcmd(cmd).
RunCmd(cmd) ==
  CASE cmd[1] = "none" -> <<Op("exit", 0)>>
    [] cmd[1] = "exec" -> <<Op("exec", 0)>> \o Program(cmd[2])
    [] cmd[1] = "redir" -> <<Op("close", cmd[2]), Op("open", cmd[2]), Run(cmd[3])>>
    [] cmd[1] = "list" -> ListCmd(cmd[2], cmd[3])
    [] cmd[1] = "pipe" -> PipeCmd(cmd[2], cmd[3])
    [] cmd[1] = "back" -> <<ForkTo(<<Run(cmd[2])>>), Op("exit", 0)>>

\* main() of the shell, and of init: its loop is entered again by ShellLine and Wait.
ShellMain == <<Op("console", 0), Op("getcmd", 0)>>
InitMain == <<ForkTo(ShellMain), Op("reap", 0)>>

ShellInit ==
  /\ todo = [p \in Pids |-> IF p = 1 THEN InitMain ELSE <<>>]
  /\ parentOf = [p \in Pids |-> IF p = 1 THEN 1 ELSE 0]
  /\ fds = [p \in Pids |-> [d \in 0..NOFILE - 1 |-> IF p = 1 /\ d < 3 THEN Tty ELSE Closed]]
  /\ pfd = [p \in Pids |-> <<0, 0>>]
  /\ zombie = {}
  /\ inPipe = [k \in PipeIds |-> 0]
  /\ shell = 0 /\ typed = <<>>

(***************************************************************************)
(* The calls.                                                              *)
(***************************************************************************)

Now(p, name) == todo[p] # <<>> /\ Head(todo[p])[1] = name
Arg(p) == Head(todo[p])[2]
Goes(p, ops) == todo' = [todo EXCEPT ![p] = ops]
Rest(p) == Tail(todo[p])

\* fdalloc(): the lowest descriptor that is free.
Lowest(p) == Min({d \in 0..NOFILE - 1 : fds[p][d] = Closed})

Alive == {p \in Pids : parentOf[p] # 0 /\ p \notin zombie}
Refers(file) == {p \in Alive : \E d \in 0..NOFILE - 1 : fds[p][d] = file}
EndsOpen(k) == Refers(<<"r", k>>) \cup Refers(<<"w", k>>)

\* runcmd() begins; the shell opens the console until descriptors 0 to 2 are open;
\* exec() succeeds.
Start(p) ==
  /\ \/ Now(p, "run") /\ Goes(p, RunCmd(Head(todo[p])[3])) /\ UNCHANGED fds
     \/ /\ Now(p, "console")
        /\ fds' = [fds EXCEPT ![p] = [d \in DOMAIN @ |-> IF d < 3 /\ @[d] = Closed THEN Tty ELSE @[d]]]
        /\ Goes(p, Rest(p))
     \/ Now(p, "exec") /\ Goes(p, Rest(p)) /\ UNCHANGED fds
  /\ UNCHANGED <<parentOf, pfd, zombie, inPipe, shell, typed>>

\* exec() or open() of a file that is not there: the process says so and exits.
Fails(p) ==
  /\ Now(p, "exec") \/ Now(p, "open")
  /\ Goes(p, <<Op("exit", 0)>>)
  /\ UNCHANGED <<parentOf, fds, pfd, zombie, inPipe, shell, typed>>

\* The loop of main(): a line is a command to fork for, "cd", which the shell runs
\* itself, or the end of its input.
ShellLine(p, cmd) ==
  /\ Now(p, "getcmd")
  /\ typed' = Append(typed, cmd)
  /\ Goes(p, CASE cmd[1] = "cd" -> todo[p]
               [] cmd[1] = "eof" -> <<Op("exit", 0)>>
               [] OTHER -> <<ForkTo(<<Run(cmd)>>), Op("wait", 0), Op("getcmd", 0)>>)
  /\ UNCHANGED <<parentOf, fds, pfd, zombie, inPipe, shell>>

\* The lines a user may type next.
NextLines == {s[Len(typed) + 1] : s \in {t \in Sessions : Len(t) > Len(typed) /\ IsPrefix(typed, t)}}

FreeSlots == {q \in Pids : parentOf[q] = 0}

\* fork1(); without a slot the caller prints "fork" and exits.
Fork(p) ==
  /\ Now(p, "fork")
  /\ \/ \E c \in FreeSlots :
          /\ \A q \in FreeSlots : c <= q
          /\ todo' = [todo EXCEPT ![p] = Tail(@), ![c] = Head(todo[p])[3]]
          /\ parentOf' = [parentOf EXCEPT ![c] = p]
          /\ fds' = [fds EXCEPT ![c] = fds[p]]
          /\ pfd' = [pfd EXCEPT ![c] = pfd[p]]
          /\ shell' = IF p = 1 THEN c ELSE shell
     \/ /\ FreeSlots = {}
        /\ Goes(p, <<Op("exit", 0)>>)
        /\ UNCHANGED <<parentOf, fds, pfd, shell>>
  /\ UNCHANGED <<zombie, inPipe, typed>>

\* pipe(p)
MakePipe(p) ==
  LET k == Min({j \in PipeIds : EndsOpen(j) = {}})
      r == Lowest(p)
      w == Min({d \in 0..NOFILE - 1 : fds[p][d] = Closed /\ d # r})
  IN /\ Now(p, "pipe")
     /\ fds' = [fds EXCEPT ![p][r] = <<"r", k>>, ![p][w] = <<"w", k>>]
     /\ pfd' = [pfd EXCEPT ![p] = <<r, w>>]
     /\ inPipe' = [inPipe EXCEPT ![k] = 0]
     /\ Goes(p, Rest(p))
     /\ UNCHANGED <<parentOf, zombie, shell, typed>>

\* close(fd) and close(p[k]).
CloseFd(p) ==
  /\ \/ Now(p, "close") /\ fds' = [fds EXCEPT ![p][Arg(p)] = Closed]
     \/ Now(p, "close p") /\ fds' = [fds EXCEPT ![p][pfd[p][Arg(p) + 1]] = Closed]
  /\ Goes(p, Rest(p))
  /\ UNCHANGED <<parentOf, pfd, zombie, inPipe, shell, typed>>

\* dup(p[k]) and open(file): the lowest descriptor that is free.
Descriptor(p) ==
  /\ \/ Now(p, "dup p") /\ fds' = [fds EXCEPT ![p][Lowest(p)] = fds[p][pfd[p][Arg(p) + 1]]]
     \/ Now(p, "open") /\ fds' = [fds EXCEPT ![p][Lowest(p)] = File]
  /\ Goes(p, Rest(p))
  /\ UNCHANGED <<parentOf, pfd, zombie, inPipe, shell, typed>>

\* A read that returns a byte, to be repeated, or the end of the input.
Read(p) ==
  LET f == fds[p][Arg(p)] IN
  /\ Now(p, "read")
  /\ \/ /\ f[1] = "r" /\ inPipe[f[2]] > 0
        /\ inPipe' = [inPipe EXCEPT ![f[2]] = @ - 1]
        /\ UNCHANGED todo
     \/ /\ f[1] = "r" => inPipe[f[2]] = 0 /\ Refers(<<"w", f[2]>>) = {}
        /\ Goes(p, Rest(p))
        /\ UNCHANGED inPipe
  /\ UNCHANGED <<parentOf, fds, pfd, zombie, shell, typed>>

\* A write of a byte; without a reader it fails, and the program ends.
Write(p) ==
  LET f == fds[p][Arg(p)] IN
  /\ Now(p, "write")
  /\ \/ /\ f[1] = "w" /\ Refers(<<"r", f[2]>>) # {} /\ inPipe[f[2]] < PIPESZ
        /\ inPipe' = [inPipe EXCEPT ![f[2]] = @ + 1]
        /\ Goes(p, Rest(p))
     \/ /\ f[1] = "w" /\ Refers(<<"r", f[2]>>) = {}
        /\ Goes(p, <<Op("exit", 0)>>)
        /\ UNCHANGED inPipe
     \/ f[1] # "w" /\ Goes(p, Rest(p)) /\ UNCHANGED inPipe
  /\ UNCHANGED <<parentOf, fds, pfd, zombie, shell, typed>>

Children(p) == {c \in Pids \ {1} : parentOf[c] = p}

\* What wait() may return: a zombie child, or -1 when there is no child.
Reapable(p) == IF Children(p) = {} THEN {-1} ELSE Children(p) \cap zombie

\* wait().  init goes on reaping until it is its shell, and then starts another.
Wait(p) ==
  /\ Now(p, "wait") \/ Now(p, "reap")
  /\ \E c \in Reapable(p) :
       /\ parentOf' = [q \in Pids |-> IF q = c THEN 0 ELSE parentOf[q]]
       /\ zombie' = zombie \ {c}
       /\ Goes(p, IF Now(p, "wait") THEN Rest(p)
                  ELSE IF c \in {shell, -1} THEN InitMain ELSE todo[p])
  /\ UNCHANGED <<fds, pfd, inPipe, shell, typed>>

\* exit(): descriptors are closed, children go to init.
Exit(p) ==
  /\ Now(p, "exit")
  /\ Goes(p, <<>>)
  /\ fds' = [fds EXCEPT ![p] = [d \in DOMAIN @ |-> Closed]]
  /\ pfd' = [pfd EXCEPT ![p] = <<0, 0>>]
  /\ parentOf' = [c \in Pids |-> IF c \in Children(p) THEN 1 ELSE parentOf[c]]
  /\ zombie' = zombie \cup {p}
  /\ UNCHANGED <<inPipe, shell, typed>>

\* init that cannot fork a shell exits, and the kernel panics: "init exiting".
InitExiting == Now(1, "exit")

ShellNext ==
  /\ ~InitExiting
  /\ \E p \in Pids :
       \/ \E cmd \in NextLines : ShellLine(p, cmd)
       \/ Start(p) \/ Fails(p) \/ Fork(p) \/ MakePipe(p) \/ CloseFd(p) \/ Descriptor(p)
       \/ Read(p) \/ Write(p) \/ Wait(p) \/ Exit(p)

(***************************************************************************)
(* Properties.                                                             *)
(***************************************************************************)

\* A program starts with descriptors 0, 1 and 2 and nothing else: no end of a pipe is
\* left over from the pipelines, lists and redirections around it, which would keep a
\* reader from seeing the end of its input.
CleanDescriptors ==
  \A p \in Alive : Now(p, "exec") =>
    \A d \in 0..NOFILE - 1 : (fds[p][d] # Closed) = (d < 3)

Stuck(p) ==
  \/ Now(p, "getcmd") /\ NextLines = {}
  \/ (Now(p, "wait") \/ Now(p, "reap")) /\ Children(p) # {} /\ Children(p) \cap zombie = {}
  \/ /\ Now(p, "read")
     /\ LET f == fds[p][0] IN f[1] = "r" /\ inPipe[f[2]] = 0 /\ Refers(<<"w", f[2]>>) # {}
  \/ /\ Now(p, "write")
     /\ LET f == fds[p][1] IN f[1] = "w" /\ inPipe[f[2]] = PIPESZ /\ Refers(<<"r", f[2]>>) # {}

\* No line hangs the shell: when nobody can go on, everything the line started is
\* gone, waited for, and the shell reads the next one.
NoHang ==
  (\A p \in Alive : Stuck(p)) =>
    /\ zombie = {}
    /\ \A p \in Alive \ {1} : p = shell /\ Now(p, "getcmd")

================================================================================
