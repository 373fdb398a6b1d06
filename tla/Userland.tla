------------------------------ MODULE Userland ------------------------------
(***************************************************************************)
(* The programs the system boots into, on top of the kernel of Mt:         *)
(* src/init/init.c starts a shell and waits for it to exit, for ever;      *)
(* src/coreutils/sh.c reads a line, and either exits or starts a command   *)
(* and waits for it; a command is any program that ends without starting   *)
(* another.  A program only moves when its process is on the CPU.          *)
(***************************************************************************)
EXTENDS Mt

(* What pc says.  Of init: spawn, await_shell, report.  Of a child of      *)
(* init: load, then, as the shell, prompt, choose, await_command.  Of a    *)
(* child of the shell: command, end.                                       *)
VARIABLES
  pc,      \* where each program is: the next thing it does
  shell,   \* init's variable shell, as the incarnation it stands for
  born_by  \* whose child each process is

uvars == <<vars, pc, shell, born_by>>

UInit ==
  /\ Init
  /\ pc = [p \in Incarnation |-> "spawn"]
  /\ shell = 0
  /\ born_by = [p \in Incarnation |-> 0]

Self == ptab[cur_ctx].inc

AtLabel(l) == Alive /\ pc[Self] = l

Goto(l) == pc' = [pc EXCEPT ![Self] = l]

(* fork returns twice: the child goes on at one label, the parent at another. *)
ForkTo(child, parent) ==
  /\ SysFork
  /\ pc' = [pc EXCEPT ![Self] = parent, ![born + 1] = child]
  /\ born_by' = [born_by EXCEPT ![born + 1] = Self]

InitSpawns ==
  /\ AtLabel("spawn")
  /\ ForkTo("load", "await_shell")
  /\ shell' = born + 1

InitWaits ==
  /\ AtLabel("await_shell")
  /\ SysWaitpid
  /\ Goto("report")
  /\ UNCHANGED <<shell, born_by>>

(* printf("Shell exited, restarting\n"), and round the loop. *)
InitReports ==
  /\ AtLabel("report")
  /\ InUserMode
  /\ Goto("spawn")
  /\ UNCHANGED <<vars, shell, born_by>>

(* execve of the shell, or of a command, is entered, and loads the program *)
(* or fails; a program that could not be loaded ends.                      *)
Execs(from, to) ==
  /\ AtLabel(from)
  /\ \/ SysEnter("exec") /\ UNCHANGED pc
     \/ SysExecLoad /\ Goto(to)
     \/ cpu.at = "exec" /\ SysReturn /\ Goto("end")
  /\ UNCHANGED <<shell, born_by>>

(* The shell reads a line, *)
ShellReads ==
  /\ AtLabel("prompt")
  /\ \/ SysEnter("read") /\ UNCHANGED pc
     \/ SysReturn /\ Goto("choose")
  /\ UNCHANGED <<shell, born_by>>

(* which is the built-in command exit, *)
ShellExits ==
  /\ AtLabel("choose")
  /\ SysExit
  /\ UNCHANGED <<pc, shell, born_by>>

(* or names a program to run. *)
ShellSpawns ==
  /\ AtLabel("choose")
  /\ ForkTo("command", "await_command")
  /\ UNCHANGED shell

ShellWaits ==
  /\ AtLabel("await_command")
  /\ SysWaitpid
  /\ Goto("prompt")
  /\ UNCHANGED <<shell, born_by>>

Ends ==
  /\ AtLabel("end")
  /\ SysExit
  /\ UNCHANGED <<pc, shell, born_by>>

UTick == Tick /\ UNCHANGED <<pc, shell, born_by>>

UNext ==
  \/ InitSpawns \/ InitWaits \/ InitReports
  \/ Execs("load", "prompt") \/ Execs("command", "end")
  \/ ShellReads \/ ShellExits \/ ShellSpawns \/ ShellWaits
  \/ Ends
  \/ UTick

USpec == UInit /\ [][UNext]_uvars

-----------------------------------------------------------------------------
Exists(inc) == \E p \in Pid : ptab[p] # Null /\ ptab[p].inc = inc

(* When init says the shell exited, it did: src/init/init.c:32. *)
ShellExitedMeansExited ==
  AtLabel("report") /\ cpu.at = "user" => ~Exists(shell)

(* exit always finds somebody to switch to, so that the retry loop of      *)
(* crt0.nasm, which would call into the kernel from a freed slot, is never *)
(* reached by these programs.                                              *)
ExitNeverReturns == cur_ctx # 0 => ptab[cur_ctx] # Null

(* A process is only ever told of the exit of a child of its own, although *)
(* the kernel looks for the parent by a pid that may have been reused.     *)
NoStrangersExit ==
  \A p \in Pid : ptab[p] # Null /\ ptab[p].ppid # 0 /\ ptab[ptab[p].ppid] # Null =>
     born_by[ptab[p].inc] = ptab[ptab[p].ppid].inc

(* A shell goes on to its next prompt only when the command it started is  *)
(* gone.                                                                   *)
CommandDoneAtPrompt ==
  AtLabel("prompt") /\ cpu.at = "user" =>
     ~\E p \in Pid : ptab[p] # Null /\ born_by[ptab[p].inc] = Self
=============================================================================
