----------------------------- MODULE EgosSystem -----------------------------
(***************************************************************************)
(* The running system: the grass kernel with the programs of its processes *)
(* (apps/system/*.c, apps/user/*.c, library/servers/servers.c) and the     *)
(* user at the terminal.                                                   *)
(*                                                                         *)
(* pc[p] is where process p will continue when it next gets the hart; its  *)
(* next action runs up to and including its next system call.  sys_proc,   *)
(* sys_file and sys_dir are never preempted (intr_entry), so this is exact *)
(* for them; the shell and the apps may be preempted before each action.   *)
(***************************************************************************)
EXTENDS Grass, Sequences

CONSTANTS
    Lines,      \* the command lines the user may type
    CtrlC,      \* whether the user may type Ctrl+C
    NBlocks     \* blocks sys_proc reads to load an app (ELF header first)

GPID_FILE == 2
GPID_DIR  == 3

(* First word of every request and reply (library/servers/servers.h).      *)
PROC_SPAWN   == 0
PROC_EXIT    == 1
PROC_KILLALL == 2
CMD_OK       == 0
CMD_ERROR    == 1
FILE_READ    == 1
FILE_OK      == 0
DIR_LOOKUP   == 1
DIR_OK       == 0
DIR_ERROR    == 1
NOTE         == 3   \* "Finish GPID_... initialization": text, not a request

(* Command lines, by what sys_shell and sys_proc make of them.             *)
Line == {"cd", "cd ..", "cd yunhao", "cat", "cat &", "ls", "echo", "clock &",
         "crash1", "nosuch", "nosuch &", "killall", "too long"}
Background(l) == l \in {"cat &", "clock &", "nosuch &"}
InBin(l)      == l \notin {"nosuch", "nosuch &"}

(* The calls to the servers an app makes before it exits, and the writes   *)
(* of cd to the working directory; cat ends early when its file is not     *)
(* found, and crash1 dereferences a bad pointer.                           *)
Programs(l) ==
    CASE l = "cd"                 -> {<<"dir", "dir home", "set", "path home">>}
      [] l = "cd .."              -> {<<"dir ..", "set", "path ..">>}
      [] l = "cd yunhao"          -> {<<"dir yunhao", "set", "path yunhao">>}
      [] l \in {"cat", "cat &"}   -> {<<"dir", "file">>, <<"dir">>}
      [] l = "ls"                 -> {<<"file">>}
      [] l = "crash1"             -> {<<"fault">>}
      [] OTHER                    -> {<<>>}

SysContent == [type : 0..3, arg : Line \union {"bin/", "file", "text"}]

ASSUME SystemAssumption ==
    /\ Lines \subseteq Line /\ CtrlC \in BOOLEAN /\ NBlocks \in Nat \ {0}
    /\ Content = SysContent
    /\ GPID_DIR < GPID_SHELL

VARIABLES
    pc,          \* control state of each process
    sys_proc,    \* locals of sys_proc: sender, req, shell_waiting, app_pid,
                 \* and the blocks of the app still to be read
    sys_dir,     \* locals of sys_dir: sender and the name looked up
    line,        \* the shell's command line
    prog,        \* the calls each user app has still to make
    workdir      \* workdir_ino and workdir of struct grass, shared by all
                 \* processes, and the dir_ino local to each cd

localVars == <<pc, sys_proc, sys_dir, line, prog, workdir>>
sysVars   == <<grassVars, localVars>>

At(p, l)   == fatal = "none" /\ curr_pid = p /\ pc[p] = l
Goto(p, l) == pc' = [pc EXCEPT ![p] = l]
Pack(t, a) == [type |-> t, arg |-> a]

Received(p) == sc[p].msg.content
Sender(p)   == sc[p].msg.sender

SysInit ==
    /\ Init
    /\ pc = [p \in Pids |-> CASE p = GPID_PROCESS            -> "spawn"
                              [] p \in {GPID_FILE, GPID_DIR} -> "init"
                              [] p = GPID_SHELL              -> "cmd"
                              [] OTHER                       -> "main"]
    /\ \E w \in BOOLEAN :   \* shell_waiting is not initialised
          sys_proc = [sender |-> 0, req |-> "cd", shell_waiting |-> w,
                      app_pid |-> 0, blocks |-> 0]
    /\ sys_dir = [sender |-> 0, name |-> "file"]
    /\ line = "cd"
    /\ prog = [p \in Pids |-> <<>>]
    /\ workdir = [ino |-> 0, path |-> <<"unset">>, dir_ino |-> [p \in Pids |-> 0]]

-----------------------------------------------------------------------------
(* apps/system/sys_proc.c                                                  *)

(* sys_spawn of sys_file, sys_dir and sys_shell, read straight from disk;  *)
(* after each of the first two, wait for its notification.                 *)
BootAlloc ==
    /\ At(GPID_PROCESS, "spawn") /\ ProcAlloc
    /\ Goto(GPID_PROCESS, "spawn_load") /\ UNCHANGED <<sys_proc, sys_dir, line, prog, workdir>>

BootLoad ==
    /\ At(GPID_PROCESS, "spawn_load") /\ ElfLoad(proc_nprocs)
    /\ Goto(GPID_PROCESS, "spawn_ready") /\ UNCHANGED <<sys_proc, sys_dir, line, prog, workdir>>

BootReady ==
    /\ At(GPID_PROCESS, "spawn_ready") /\ ProcReady(proc_nprocs)
    /\ Goto(GPID_PROCESS, IF proc_nprocs = GPID_SHELL THEN "recv" ELSE "recv_note")
    /\ UNCHANGED <<sys_proc, sys_dir, line, prog, workdir>>

BootRecv ==
    /\ At(GPID_PROCESS, "recv_note") /\ sys_recv
    /\ Goto(GPID_PROCESS, "spawn") /\ UNCHANGED <<sys_proc, sys_dir, line, prog, workdir>>

ProcRecv ==
    /\ At(GPID_PROCESS, "recv") /\ sys_recv
    /\ Goto(GPID_PROCESS, "dispatch") /\ UNCHANGED <<sys_proc, sys_dir, line, prog, workdir>>

(* PROC_SPAWN begins with dir_lookup(0, "bin/"); PROC_EXIT and            *)
(* PROC_KILLALL free the processes.                                        *)
ProcDispatch ==
    /\ At(GPID_PROCESS, "dispatch")
    /\ sys_proc' = [sys_proc EXCEPT !.sender = Sender(GPID_PROCESS),
                                    !.req = Received(GPID_PROCESS).arg]
    /\ CASE Received(GPID_PROCESS).type = PROC_SPAWN ->
              /\ sys_send(GPID_DIR, Pack(DIR_LOOKUP, "bin/"))
              /\ Goto(GPID_PROCESS, "recv_bin")
         [] Received(GPID_PROCESS).type = PROC_EXIT ->
              /\ ProcFree(Sender(GPID_PROCESS))
              /\ Goto(GPID_PROCESS, "notify")
         [] Received(GPID_PROCESS).type = PROC_KILLALL ->
              /\ ProcFreeAll
              /\ Goto(GPID_PROCESS, "recv")
         [] OTHER -> Panic("sys_proc") /\ UNCHANGED pc
    /\ UNCHANGED <<sys_dir, line, prog, workdir>>

(* after PROC_EXIT: the shell hears of the app it is waiting for.  The     *)
(* reply shares its buffer with the request, so its type is PROC_EXIT.     *)
ProcNotify_never ==
    /\ At(GPID_PROCESS, "notify")
    /\ Goto(GPID_PROCESS, "recv")
    /\ UNCHANGED <<grassVars, sys_proc, sys_dir, line, prog, workdir>>
ProcNotify ==
    /\ At(GPID_PROCESS, "notify")
    /\ IF sys_proc.shell_waiting /\ sys_proc.app_pid = sys_proc.sender
       THEN sys_send(GPID_SHELL, Pack(PROC_EXIT, "text"))
       ELSE UNCHANGED grassVars
    /\ Goto(GPID_PROCESS, "recv")
    /\ UNCHANGED <<sys_proc, sys_dir, line, prog, workdir>>

(* the sys_recv of dir_lookup and file_read *)
ProcAwait ==
    /\ \E l \in {"recv_bin", "recv_app", "recv_blk"} :
          /\ At(GPID_PROCESS, l) /\ sys_recv
          /\ Goto(GPID_PROCESS, CASE l = "recv_bin" -> "lookup_app"
                                  [] l = "recv_app" -> "alloc"
                                  [] l = "recv_blk" -> "got_blk")
    /\ UNCHANGED <<sys_proc, sys_dir, line, prog, workdir>>

(* app_spawn: "bin/" has been looked up, now dir_lookup(bin_ino, argv[0]) *)
ProcLookupApp ==
    /\ At(GPID_PROCESS, "lookup_app")
    /\ IF Sender(GPID_PROCESS) # GPID_DIR
       THEN Panic("dir_lookup") /\ UNCHANGED pc
       ELSE /\ sys_send(GPID_DIR, Pack(DIR_LOOKUP, sys_proc.req))
            /\ Goto(GPID_PROCESS, "recv_app")
    /\ UNCHANGED <<sys_proc, sys_dir, line, prog, workdir>>

(* app_spawn: not found, or proc_alloc *)
ProcAllocApp ==
    /\ At(GPID_PROCESS, "alloc")
    /\ CASE Sender(GPID_PROCESS) # GPID_DIR ->
              Panic("dir_lookup") /\ UNCHANGED <<pc, sys_proc>>
         [] Sender(GPID_PROCESS) = GPID_DIR /\ Received(GPID_PROCESS).type # DIR_OK ->
              /\ Goto(GPID_PROCESS, "reply_error")
              /\ UNCHANGED <<grassVars, sys_proc>>
         [] OTHER ->
              /\ ProcAlloc
              /\ Goto(GPID_PROCESS, "read")
              /\ sys_proc' = [sys_proc EXCEPT !.app_pid = NextPid, !.blocks = NBlocks]
    /\ UNCHANGED <<sys_dir, line, prog, workdir>>

(* elf_load of an app: app_read each block through sys_file, mapping the   *)
(* app's pages once the header is in.                                      *)
ProcRead ==
    /\ At(GPID_PROCESS, "read")
    /\ sys_send(GPID_FILE, Pack(FILE_READ, "file"))
    /\ Goto(GPID_PROCESS, "recv_blk")
    /\ UNCHANGED <<sys_proc, sys_dir, line, prog, workdir>>

LastBlock_first == sys_proc.blocks <= NBlocks
LastBlock == sys_proc.blocks = 1

ProcGotBlock ==
    /\ At(GPID_PROCESS, "got_blk")
    /\ IF Sender(GPID_PROCESS) # GPID_FILE
       THEN Panic("file_read") /\ UNCHANGED <<pc, sys_proc>>
       ELSE /\ IF sys_proc.blocks = NBlocks
               THEN ElfLoad(sys_proc.app_pid)
               ELSE UNCHANGED grassVars
            /\ Goto(GPID_PROCESS, IF LastBlock THEN "ready" ELSE "read")
            /\ sys_proc' = [sys_proc EXCEPT !.blocks = @ - 1]
    /\ UNCHANGED <<sys_dir, line, prog, workdir>>

ProcReadyApp ==
    /\ At(GPID_PROCESS, "ready") /\ ProcReady(sys_proc.app_pid)
    /\ \E s \in Programs(sys_proc.req) : prog' = [prog EXCEPT ![sys_proc.app_pid] = s]
    /\ Goto(GPID_PROCESS, "reply_ok")
    /\ UNCHANGED <<sys_proc, sys_dir, line, workdir>>

(* the reply to PROC_SPAWN; app_pid is still the previous app's when       *)
(* app_spawn failed                                                        *)
ProcReply ==
    /\ \E l \in {"reply_ok", "reply_error"} :
          /\ At(GPID_PROCESS, l)
          /\ sys_send(GPID_SHELL,
                      Pack(IF l = "reply_ok" THEN CMD_OK ELSE CMD_ERROR, "text"))
    /\ sys_proc' = [sys_proc EXCEPT !.shell_waiting = ~Background(sys_proc.req)]
    /\ Goto(GPID_PROCESS, "recv")
    /\ UNCHANGED <<sys_dir, line, prog, workdir>>

SysProc ==
    \/ BootAlloc \/ BootLoad \/ BootReady \/ BootRecv
    \/ ProcRecv \/ ProcDispatch \/ ProcNotify \/ ProcAwait \/ ProcLookupApp
    \/ ProcAllocApp \/ ProcRead \/ ProcGotBlock \/ ProcReadyApp \/ ProcReply

-----------------------------------------------------------------------------
(* apps/system/sys_file.c and sys_dir.c                                    *)

Servers == {GPID_FILE, GPID_DIR}

ServerInit(s) ==
    /\ At(s, "init") /\ sys_send(GPID_PROCESS, Pack(NOTE, "text"))
    /\ Goto(s, "recv") /\ UNCHANGED <<sys_proc, sys_dir, line, prog, workdir>>

ServerRecv(s) ==
    /\ At(s, "recv") /\ sys_recv
    /\ Goto(s, "serve") /\ UNCHANGED <<sys_proc, sys_dir, line, prog, workdir>>

FileServe ==
    /\ At(GPID_FILE, "serve")
    /\ IF Received(GPID_FILE).type = FILE_READ
       THEN /\ sys_send(Sender(GPID_FILE), Pack(FILE_OK, "text"))
            /\ Goto(GPID_FILE, "recv")
       ELSE Panic("sys_file") /\ UNCHANGED pc
    /\ UNCHANGED <<sys_proc, sys_dir, line, prog, workdir>>

(* dir_do_lookup reads the directory's block through sys_file *)
DirServe_forgets ==
    /\ At(GPID_DIR, "serve")
    /\ IF Received(GPID_DIR).type = DIR_LOOKUP
       THEN /\ sys_dir' = [sys_dir EXCEPT !.name = Received(GPID_DIR).arg]
            /\ sys_send(GPID_FILE, Pack(FILE_READ, "file"))
            /\ Goto(GPID_DIR, "recv_blk")
       ELSE Panic("sys_dir") /\ UNCHANGED <<pc, sys_dir>>
    /\ UNCHANGED <<sys_proc, line, prog, workdir>>
DirServe ==
    /\ At(GPID_DIR, "serve")
    /\ IF Received(GPID_DIR).type = DIR_LOOKUP
       THEN /\ sys_dir' = [sender |-> Sender(GPID_DIR), name |-> Received(GPID_DIR).arg]
            /\ sys_send(GPID_FILE, Pack(FILE_READ, "file"))
            /\ Goto(GPID_DIR, "recv_blk")
       ELSE Panic("sys_dir") /\ UNCHANGED <<pc, sys_dir>>
    /\ UNCHANGED <<sys_proc, line, prog, workdir>>

DirAwait ==
    /\ At(GPID_DIR, "recv_blk") /\ sys_recv
    /\ Goto(GPID_DIR, "reply") /\ UNCHANGED <<sys_proc, sys_dir, line, prog, workdir>>

DirReply ==
    /\ At(GPID_DIR, "reply")
    /\ IF Sender(GPID_DIR) # GPID_FILE
       THEN Panic("file_read") /\ UNCHANGED pc
       ELSE /\ sys_send(sys_dir.sender,
                        Pack(IF InBin(sys_dir.name) THEN DIR_OK ELSE DIR_ERROR, "text"))
            /\ Goto(GPID_DIR, "recv")
    /\ UNCHANGED <<sys_proc, sys_dir, line, prog, workdir>>

-----------------------------------------------------------------------------
(* apps/system/sys_shell.c                                                 *)

(* tty_read is in progress: tty_recv_intr() leaves the input alone *)
is_reading == pc[GPID_SHELL] = "tty"

ShellCommand ==
    /\ At(GPID_SHELL, "cmd")
    /\ \/ /\ line = "killall"
          /\ sys_send(GPID_PROCESS, Pack(PROC_KILLALL, "text"))
          /\ Goto(GPID_SHELL, "prompt")
       \/ /\ line = "too long"           \* parse_request returns -1
          /\ UNCHANGED grassVars
          /\ Goto(GPID_SHELL, "prompt")
       \/ /\ line \notin {"killall", "too long"}
          /\ sys_send(GPID_PROCESS, Pack(PROC_SPAWN, line))
          /\ Goto(GPID_SHELL, "recv_reply")
    /\ UNCHANGED <<sys_proc, sys_dir, line, prog, workdir>>

ShellAwaitReply ==
    /\ At(GPID_SHELL, "recv_reply") /\ sys_recv
    /\ Goto(GPID_SHELL, "got_reply") /\ UNCHANGED <<sys_proc, sys_dir, line, prog, workdir>>

(* a foreground command that was started is waited for *)
ShellGotReply_nowait ==
    /\ At(GPID_SHELL, "got_reply") /\ Goto(GPID_SHELL, "prompt")
    /\ UNCHANGED <<grassVars, sys_proc, sys_dir, line, prog, workdir>>
ShellGotReply ==
    /\ At(GPID_SHELL, "got_reply")
    /\ IF Received(GPID_SHELL).type = CMD_OK /\ ~Background(line)
       THEN sys_recv
       ELSE UNCHANGED grassVars
    /\ Goto(GPID_SHELL, "prompt")
    /\ UNCHANGED <<sys_proc, sys_dir, line, prog, workdir>>

ShellPrompt ==
    /\ At(GPID_SHELL, "prompt") /\ Goto(GPID_SHELL, "tty")
    /\ UNCHANGED <<grassVars, sys_proc, sys_dir, line, prog, workdir>>

(* The user types a line; an empty one is prompted for again.  MaxPid      *)
(* bounds the apps that are ever started.                                  *)
ShellReadLine ==
    /\ At(GPID_SHELL, "tty")
    /\ \/ \E l \in Lines :
             /\ proc_nprocs < MaxPid \/ ~InBin(l) \/ l \in {"killall", "too long"}
             /\ line' = l
             /\ Goto(GPID_SHELL, "cmd")
       \/ Goto(GPID_SHELL, "prompt") /\ UNCHANGED line
    /\ UNCHANGED <<grassVars, sys_proc, sys_dir, prog, workdir>>

Shell == ShellCommand \/ ShellAwaitReply \/ ShellGotReply \/ ShellPrompt

-----------------------------------------------------------------------------
(* apps/user/*.c with library/servers/servers.c and apps/app.s             *)

UserPids == GPID_USER_START..MaxPid

(* the server a call is sent to, and the one the reply must come from *)
IsLookup(call) == call \in {"dir", "dir home", "dir ..", "dir yunhao"}
Callee_file(call) == GPID_FILE
Callee(call)   == IF IsLookup(call) THEN GPID_DIR ELSE GPID_FILE
ServerOf(call) == IF IsLookup(call) THEN GPID_DIR ELSE GPID_FILE
Request(call)  == Pack(IF IsLookup(call) THEN DIR_LOOKUP ELSE FILE_READ, "file")

(* The directories 0: /, 1: /home and 2: /home/yunhao (tools/mkfs.c): what *)
(* a lookup of cd finds from the working directory d, and their paths.     *)
Found(call, d) ==
    CASE call = "dir .."     -> IF d = 2 THEN 1 ELSE 0
      [] call = "dir yunhao" -> IF d = 1 THEN 2 ELSE -1
      [] call = "dir home"   -> 2
      [] OTHER               -> 0
PathOf(d) == SubSeq(<<"home", "yunhao">>, 1, d)

CdSteps == {"set", "path home", "path ..", "path yunhao"}

(* dir_lookup or file_read; a bad access; or exit, once main returns *)
AppCall(p) ==
    /\ At(p, "main")
    /\ CASE prog[p] = <<>> ->              \* exit() loops until it is freed
              sys_send(GPID_PROCESS, Pack(PROC_EXIT, "text")) /\ Goto(p, "spin")
         [] prog[p] = <<"fault">> ->
              fault /\ UNCHANGED pc
         [] OTHER ->
              /\ Head(prog[p]) \notin CdSteps
              /\ sys_send(Callee(Head(prog[p])), Request(Head(prog[p]))) /\ Goto(p, "recv")
    /\ workdir' = IF prog[p] = <<>> THEN workdir
                  ELSE [workdir EXCEPT !.dir_ino[p] = Found(Head(prog[p]), workdir.ino)]
    /\ UNCHANGED <<sys_proc, sys_dir, line, prog>>

AppAwait(p) ==
    /\ At(p, "recv") /\ sys_recv
    /\ Goto(p, "got") /\ UNCHANGED <<sys_proc, sys_dir, line, prog, workdir>>

(* FATAL in an app stops that app only: it loops, and is preempted *)
AppGot(p) ==
    /\ At(p, "got")
    /\ Goto(p, IF Sender(p) = ServerOf(Head(prog[p])) THEN "main" ELSE "spin")
    /\ prog' = [prog EXCEPT ![p] = Tail(@)]
    /\ UNCHANGED <<grassVars, sys_proc, sys_dir, line, workdir>>

(* apps/user/cd.c: the inode, unless the directory was not found, *)
CdSetIno_unchecked(p) ==
    /\ At(p, "main") /\ prog[p] # <<>> /\ Head(prog[p]) = "set"
    /\ workdir' = [workdir EXCEPT !.ino = IF workdir.dir_ino[p] = -1 THEN @ ELSE workdir.dir_ino[p]]
    /\ prog' = [prog EXCEPT ![p] = Tail(@)]
    /\ UNCHANGED <<grassVars, pc, sys_proc, sys_dir, line>>
CdSetIno(p) ==
    /\ At(p, "main") /\ prog[p] # <<>> /\ Head(prog[p]) = "set"
    /\ IF workdir.dir_ino[p] = -1
       THEN /\ prog' = [prog EXCEPT ![p] = <<>>]
            /\ workdir' = [workdir EXCEPT !.dir_ino[p] = 0]
       ELSE /\ prog' = [prog EXCEPT ![p] = Tail(@)]
            /\ workdir' = [workdir EXCEPT !.ino = workdir.dir_ino[p], !.dir_ino[p] = 0]
    /\ UNCHANGED <<grassVars, pc, sys_proc, sys_dir, line>>

(* and then the path: replaced, shortened or extended *)
CdSetPath(p) ==
    /\ At(p, "main") /\ prog[p] # <<>>
    /\ \/ /\ Head(prog[p]) = "path home"
          /\ workdir' = [workdir EXCEPT !.path = <<"home", "yunhao">>]
       \/ /\ Head(prog[p]) = "path .."
          /\ workdir' = [workdir EXCEPT !.path = SubSeq(@, 1, Len(@) - 1)]
       \/ /\ Head(prog[p]) = "path yunhao"
          /\ workdir' = [workdir EXCEPT !.path = Append(@, "yunhao")]
    /\ prog' = [prog EXCEPT ![p] = <<>>]
    /\ UNCHANGED <<grassVars, pc, sys_proc, sys_dir, line>>

App(p) == AppCall(p) \/ AppAwait(p) \/ AppGot(p) \/ CdSetIno(p) \/ CdSetPath(p)

-----------------------------------------------------------------------------
(* intr_entry; where an app was when Ctrl+C killed it does not matter *)
Timer ==
    \E b \in {FALSE, CtrlC} :
        /\ intr_entry(b /\ ~is_reading)
        /\ IF b /\ ~is_reading /\ curr_pid \in UserPids
           THEN /\ pc' = [pc EXCEPT ![curr_pid] = "main"]
                /\ prog' = [prog EXCEPT ![curr_pid] = <<>>]
                /\ workdir' = [workdir EXCEPT !.dir_ino[curr_pid] = 0]
                /\ UNCHANGED <<sys_proc, sys_dir, line>>
           ELSE UNCHANGED localVars

SysNext ==
    \/ SysProc
    \/ \E s \in Servers : ServerInit(s) \/ ServerRecv(s)
    \/ FileServe \/ DirServe \/ DirAwait \/ DirReply
    \/ Shell \/ ShellReadLine
    \/ \E p \in UserPids : App(p)
    \/ Timer
    \/ Halted /\ UNCHANGED localVars

SysSpec == SysInit /\ [][SysNext]_sysVars

(* The hart keeps executing: a process that has it makes progress, and the *)
(* timer ends the time slice of a shell or an app.  A time slice is long   *)
(* enough that a process which is given the hart again and again makes its *)
(* next call.  Nothing obliges the user to type.                           *)
Fairness ==
    /\ WF_sysVars(SysProc)
    /\ WF_sysVars(FileServe \/ DirServe \/ DirAwait \/ DirReply)
    /\ WF_sysVars(\E s \in Servers : ServerInit(s) \/ ServerRecv(s))
    /\ SF_sysVars(Shell)
    /\ \A p \in UserPids : SF_sysVars(App(p))
    /\ WF_sysVars(Timer)

FairSpec == SysSpec /\ Fairness

-----------------------------------------------------------------------------
(* Properties                                                              *)

Alive(p) == \E i \in Slots : pid[i] = p /\ status[i] # "UNUSED"

(* No FATAL is reached. *)
NoFatal == fatal = "none"

(* When the shell is back at its prompt the foreground command it started  *)
(* is gone: it is told of the end of the app it waits for and of no other. *)
PromptAfterExit ==
    pc[GPID_SHELL] \in {"tty", "cmd"} => \A p \in UserPids : ~Alive(p)

(* At the prompt the path the shell shows is that of the directory         *)
(* lookups start from, although cd writes the two one after the other.     *)
(* (A Ctrl+C that kills cd between the two writes does leave them apart.)  *)
WorkdirAgrees == is_reading => workdir.path = PathOf(workdir.ino)

(* An app's call to a server is answered by that server, although sys_recv *)
(* takes a message from anyone (the check in dir_lookup and file_read).    *)
ReplyFromServer ==
    \A i \in Slots :
        pid[i] \in UserPids /\ status[i] \in Schedulable /\ pc[pid[i]] = "got"
        => Sender(pid[i]) = ServerOf(Head(prog[pid[i]]))

(* An app runs only once all of its image has been read from sys_file.     *)
LoadedBeforeRun ==
    sys_proc.blocks > 0 => \A i \in Slots :
        pid[i] = sys_proc.app_pid /\ status[i] # "UNUSED" => status[i] = "LOADING"

(* sys_proc and sys_dir only ever get the reply they asked for: the checks *)
(* in dir_lookup and file_read never fail.                                 *)
RepliesMatch == fatal \notin {"dir_lookup", "file_read"}

(* Some process can always run: the check in proc_yield never fails.       *)
SomeoneRuns == fatal # "proc_yield"

(* sys_send returns only once its message has been taken.                  *)
SendCompletes ==
    [][\A i \in Slots :
          status[i] = "WAIT_TO_SEND" /\ status'[i] \in Schedulable
          => receiver_pid[i] = curr_pid /\ sc'[curr_pid].msg = sc[pid[i]].msg]_sysVars

(* A fault of an app does not stop the kernel.                             *)
FaultContained == fatal # "proc_syscall"

(* Every command the shell is given ends with the shell reading again.     *)
CommandsEnd == pc[GPID_SHELL] = "cmd" ~> is_reading
-----------------------------------------------------------------------------
(* The inductive invariant behind LoadedBeforeRun and ReplyFromServer.  It *)
(* speaks of the processes as Rendezvous sees them: what each is blocked   *)
(* in, where it is in its program, and who is owed an answer.              *)

Arg == Line \union {"bin/", "file", "text"}

LocalTypeOK ==
    /\ pc = [p \in Pids |-> pc[p]] /\ prog = [p \in Pids |-> prog[p]]
    /\ sys_proc \in [sender : Pids, req : Arg, shell_waiting : BOOLEAN,
                     app_pid : Nat, blocks : 0..NBlocks]
    /\ sys_dir \in [sender : Pids, name : Arg]
    /\ line \in Line

(* a pid that was given to a process which has been made ready *)
Started(p) == p \in 1..proc_nprocs /\ ~Loading(p)

(* server s has taken a request of q and not yet got rid of the answer *)
Owes(s, q) ==
    \/ pc[s] = "serve" /\ absState[s] = "idle" /\ absBox[s].sender = q
    \/ s = GPID_DIR /\ pc[s] \in {"recv_blk", "reply"} /\ sys_dir.sender = q
    \/ pc[s] = "recv" /\ absState[s] = "sending" /\ absTarget[s] = q

(* app q has sent its request to s and waits for the answer *)
Awaits(q, s) ==
    /\ s = ServerOf(Head(prog[q]))
    /\ \/ pc[q] = "recv" /\ absState[q] = "idle"
       \/ pc[q] = "got" /\ absState[q] = "receiving"

(* A server owes an answer only to a process that was started, and only to *)
(* an app that waits for its answer and for no other, unless it is gone.   *)
OwedWait(s, q) ==
    Owes(s, q) => /\ Started(q)
                  /\ q \in UserPids => absState[q] = "none" \/ Awaits(q, s)

AppInv(q) ==
    /\ ~Started(q) => pc[q] = "main"
    /\ CASE pc[q] = "main" -> absState[q] \in {"none", "idle"}
         [] pc[q] = "recv" -> /\ absState[q] # "receiving"
                              /\ absState[q] = "sending" =>
                                    absTarget[q] = ServerOf(Head(prog[q]))
         [] pc[q] = "got"  -> /\ absState[q] # "sending"
                              /\ absState[q] = "idle" =>
                                    absBox[q].sender = ServerOf(Head(prog[q]))
         [] OTHER          -> /\ pc[q] = "spin" /\ absState[q] # "receiving"
                              /\ absState[q] = "sending" => absTarget[q] = GPID_PROCESS

ServerInv(s) ==
    /\ ~Started(s) => pc[s] = "init"
    /\ CASE pc[s] = "init"  -> absState[s] \in {"none", "idle"}
         [] pc[s] = "recv"  -> absState[s] # "receiving"
         [] pc[s] = "serve" -> absState[s] # "sending"
         [] OTHER           -> /\ s = GPID_DIR
                               /\ \/ /\ pc[s] = "recv_blk" /\ absState[s] # "receiving"
                                     /\ absState[s] = "sending" => absTarget[s] = GPID_FILE
                                  \/ pc[s] = "reply" /\ absState[s] # "sending"

(* whom sys_proc and the shell send to; no further process has a program *)
OtherInv(p) ==
    absState[p] = "sending" =>
        \/ p = GPID_PROCESS /\ absTarget[p] \in {GPID_FILE, GPID_DIR, GPID_SHELL}
        \/ p = GPID_SHELL /\ absTarget[p] = GPID_PROCESS

ProcInv(p) ==
    /\ absState[p] = "sending" => absBox[p].sender = p
    /\ \/ p \in UserPids /\ AppInv(p)
       \/ p \in Servers /\ ServerInv(p) /\ \A q \in Pids : OwedWait(p, q)
       \/ p \notin UserPids \union Servers /\ OtherInv(p)

(* while blocks are read, the app they belong to does not exist *)
LoadInv ==
    /\ sys_proc.blocks > 0 <=> pc[GPID_PROCESS] \in {"read", "recv_blk", "got_blk"}
    /\ sys_proc.blocks > 0 /\ sys_proc.app_pid \in Pids => absState[sys_proc.app_pid] = "none"

(* Unless a command that faults can be typed, none is on its way to being  *)
(* run: it is not in the shell's line, in a message that is being sent, in *)
(* a request sys_proc has taken, nor in the program of a process.  (What a *)
(* fault does depends on the call left in the syscall area, excp_entry.)   *)
Calls == {"dir", "dir home", "dir ..", "dir yunhao", "file"} \union CdSteps

MessagesHarmless ==
    /\ \A p \in Pids : absState[p] = "sending" => absBox[p].content.arg # "crash1"
    /\ pc[GPID_PROCESS] = "dispatch" /\ absState[GPID_PROCESS] = "idle"
          => absBox[GPID_PROCESS].content.arg # "crash1"

ProgramsHarmless ==
    /\ \A p \in Pids : prog[p] \in Seq(Calls)
    /\ \A p \in UserPids : pc[p] \in {"recv", "got"} => prog[p] # <<>>

NoFaultAhead ==
    /\ line # "crash1" /\ sys_proc.req # "crash1"
    /\ MessagesHarmless /\ ProgramsHarmless

BaseInv == KernelInv /\ LocalTypeOK /\ LoadInv

(* Where each program is agrees with what the kernel has it blocked in:    *)
(* an app that has called a server is sending to it, or waits for the      *)
(* answer which that server, and no other, owes it; and a server owes no   *)
(* answer to an app that would take it for something else.                 *)
AnswersAwaited == \A p \in Pids : ProcInv(p)

SystemInv == BaseInv /\ NoFaultAhead /\ AnswersAwaited
=============================================================================
