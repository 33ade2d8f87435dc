------------------------------ MODULE Terminal ------------------------------
(***************************************************************************)
(* From the keyboard to a command: the UART, the line editor of            *)
(* earth/dev_tty.c, the kernel's poll for Ctrl+C, the shell's loop, its    *)
(* parse_request, and the lookup of the command in /bin.                   *)
(*                                                                         *)
(* What sys_proc does with the request is the subject of EgosSystem; here  *)
(* a command is started, refused or not found in one step.  The line       *)
(* "killall" is not of this alphabet (EgosSystem has it).                  *)
(***************************************************************************)
EXTENDS Integers, Sequences, SequencesExt, FiniteSetsExt

CONSTANTS
    LEN,            \* the len of tty_read (256)
    CMD_ARG_LEN,    \* 32
    CMD_NARGS,      \* 16
    Fifo,           \* bound: characters typed and not yet taken
    MaxTyped        \* bound: characters typed for one line

(* The characters of the alphabet; NUL ends a string, and OLD is whatever  *)
(* an earlier line left in a cell of the buffer.                           *)
ETX     == "^C"     \* 0x03
CR      == "CR"     \* 0x0d
DEL     == "^?"     \* 0x7f
NUL     == "NUL"
OLD     == "?"
Printed == {"a", "8", "&", " "}
Char    == Printed \union {ETX, CR, DEL}

(* A directory is a text of names and inode numbers (tools/mkfs.c): here   *)
(* /bin, inode 6, with the programs aa, inode 8, and a, inode 7.           *)
Bin      == <<".", " ", " ", "6", " ", "a", "a", " ", " ", "8", " ",
              "a", " ", " ", "7", " ">>
Entries  == [ino : {6}, name : {<<".">>}] \union [ino : {8}, name : {<<"a", "a">>}]
            \union [ino : {7}, name : {<<"a">>}]
Numbers  == {<<"6">>, <<"7">>, <<"8">>}
Programs == {7, 8}

(* A name is shorter than the text it is looked up in: dir_do_lookup       *)
(* subtracts their lengths as unsigned numbers.                            *)
ASSUME TerminalAssumption ==
    /\ LEN \in Nat /\ LEN > 1
    /\ {CMD_ARG_LEN, CMD_NARGS, Fifo, MaxTyped} \subseteq Nat \ {0}
    /\ CMD_ARG_LEN <= Len(Bin)

VARIABLES
    fifo,           \* characters the UART holds
    is_reading,     \* tty_read is in progress
    buf, i,         \* the shell's buffer and tty_read's index
    screen,         \* what is shown after the prompt
    input,          \* ghost: the characters given to the current tty_read
    shell,          \* the shell's control state
    req,            \* the request parse_request makes of the line
    apps            \* the commands running, in the foreground or not

vars == <<fifo, is_reading, buf, i, screen, input, shell, req, apps>>

-----------------------------------------------------------------------------
(* Strings in arrays indexed from 0                                        *)

strlen(b)  == Min({k \in DOMAIN b : b[k] = NUL})
Str(b)     == [k \in 1..strlen(b) |-> b[k - 1]]
Prefix(n)  == [k \in 1..n |-> buf[k - 1]]

(* memset(req->argv, 0, ...) *)
NoArgs == [argv |-> [n \in 0..CMD_NARGS - 1 |-> [k \in 0..CMD_ARG_LEN - 1 |-> NUL]],
           nargs |-> 0, idx |-> 0, ret |-> 0]

(* char buf[256] = "cd": here "a", the rest of the array is zero *)
Init ==
    /\ fifo = <<>> /\ is_reading = FALSE
    /\ buf = [k \in 0..LEN - 1 |-> IF k = 0 THEN "a" ELSE NUL]
    /\ i = 0 /\ screen = <<>> /\ input = <<"a">>
    /\ shell = "cmd" /\ req = NoArgs /\ apps = {}

-----------------------------------------------------------------------------
(* earth/dev_tty.c                                                         *)

(* A character arrives.  One that arrives while the shell handles a line   *)
(* is as good as one that arrives just after: what may take it is the same *)
Type(c) ==
    /\ Len(fifo) < Fifo /\ shell \in {"prompt", "prompted", "read", "wait"}
    /\ is_reading => Len(input) < MaxTyped
    /\ fifo' = Append(fifo, c)
    /\ input' = IF is_reading THEN Append(input, c) ELSE input
    /\ UNCHANGED <<is_reading, buf, i, screen, shell, req, apps>>

(* earth/modules/uart/uart.c: a character can be read *)
uart_has_data_full == Len(fifo) = Fifo
uart_has_data == Len(fifo) > 0

(* The shell prints the prompt, *)
Prompt ==
    /\ shell = "prompt" /\ shell' = "prompted"
    /\ screen' = <<>>
    /\ UNCHANGED <<fifo, is_reading, buf, i, input, req, apps>>

(* and calls tty_read, which sets is_reading.  Until then the timer        *)
(* handler may still take what the user types at the prompt.               *)
StartRead ==
    /\ shell = "prompted" /\ shell' = "read"
    /\ is_reading' = TRUE /\ i' = 0 /\ input' = fifo
    /\ UNCHANGED <<fifo, buf, screen, req, apps>>

(* tty_read returns n; the shell prompts again while it is 0.  The ghost   *)
(* keeps the characters of the line: those taken, without the Enter.       *)
Return(b, n, taken) ==
    /\ buf' = IF n = 0 THEN [k \in 0..LEN - 1 |-> OLD] ELSE b
    /\ is_reading' = FALSE /\ i' = 0 /\ screen' = <<>>
    /\ shell' = IF n = 0 THEN "prompt" ELSE "cmd"
    /\ input' = IF n = 0 THEN <<>> ELSE taken

Taken == SubSeq(input, 1, Len(input) - Len(fifo))

Interrupted(b) ==
    /\ Head(fifo) = ETX
    /\ Return([b EXCEPT ![0] = NUL, ![i] = NUL], 0, Taken)

Entered(b) ==
    /\ Head(fifo) = CR
    /\ Return([b EXCEPT ![i] = NUL], i, Taken)

Erased_always(b) ==      \* "\b \b" at the start of the line too
    /\ Head(fifo) = DEL /\ buf' = b
    /\ i' = IF i > 0 THEN i - 1 ELSE 0
    /\ screen' = IF screen = <<>> THEN <<DEL>> ELSE Front(screen)
    /\ UNCHANGED <<is_reading, shell, input>>
Erased(b) ==
    /\ Head(fifo) = DEL /\ buf' = b
    /\ i' = IF i > 0 THEN i - 1 ELSE 0
    /\ screen' = IF i > 0 THEN Front(screen) ELSE screen
    /\ UNCHANGED <<is_reading, shell, input>>

(* a character of the line; a full buffer ends the line without an Enter *)
Stored(b) ==
    /\ Head(fifo) \in Printed
    /\ \/ /\ i + 1 < LEN - 1
          /\ buf' = b /\ i' = i + 1 /\ screen' = Append(screen, Head(fifo))
          /\ UNCHANGED <<is_reading, shell, input>>
       \/ /\ i + 1 = LEN - 1
          /\ Return([b EXCEPT ![LEN - 1] = NUL], LEN - 1, Append(Taken, Head(fifo)))

(* One turn of tty_read's loop, from uart0_getc.                           *)
tty_read ==
    /\ is_reading /\ uart_has_data
    /\ fifo' = Tail(fifo)
    /\ LET b == [buf EXCEPT ![i] = Head(fifo)]
       IN  Interrupted(b) \/ Entered(b) \/ Erased(b) \/ Stored(b)
    /\ UNCHANGED <<req, apps>>

(* tty_recv_intr, called by intr_entry for the timer interrupts of the     *)
(* shell and the apps: the character is gone, whatever it is, and a Ctrl+C *)
(* kills the app that has the hart.                                        *)
Kills_later(p) == Head(fifo) = ETX /\ p = "background"
Kills(p) == Head(fifo) = ETX /\ p \in apps

poll(p) ==
    /\ fifo' = Tail(fifo)
    /\ apps' = IF Kills(p) THEN apps \ {p} ELSE apps
    /\ shell' = IF Kills(p) /\ shell = "wait" THEN "prompt" ELSE shell
    /\ UNCHANGED <<is_reading, buf, i, screen, input, req>>

tty_recv_intr_always(p) == uart_has_data /\ poll(p)
tty_recv_intr(p) == ~is_reading /\ uart_has_data /\ poll(p)

-----------------------------------------------------------------------------
(* apps/system/sys_shell.c: parse_request, over the characters of the line *)

InWord_early(r, c) ==    \* ++idx >= CMD_ARG_LEN - 1
    [r EXCEPT !.argv[r.nargs][r.idx] = c, !.idx = @ + 1,
              !.ret = IF r.idx + 1 >= CMD_ARG_LEN - 1 THEN -1 ELSE 0]
InWord(r, c) ==
    [r EXCEPT !.argv[r.nargs][r.idx] = c, !.idx = @ + 1,
              !.ret = IF r.idx + 1 >= CMD_ARG_LEN THEN -1 ELSE 0]
EndWord(r) ==
    [r EXCEPT !.argv[r.nargs][r.idx] = NUL, !.idx = 0, !.nargs = @ + 1,
              !.ret = IF r.nargs + 1 >= CMD_NARGS THEN -1 ELSE 0]
Scan(r, c) ==
    CASE r.ret # 0  -> r
      [] r.ret = 0 /\ c # " " -> InWord(r, c)
      [] r.ret = 0 /\ c = " " -> IF r.idx # 0 THEN EndWord(r) ELSE r

argc(r) == IF r.idx # 0 THEN r.nargs + 1 ELSE r.nargs

(* the test of the shell and of sys_proc, for argc > 0 *)
Background(r) == r.argv[argc(r) - 1][0] = "&"

(* apps/system/sys_dir.c: dir_do_lookup, with atoi of a one-digit number   *)
atoi(text, k) ==
    LET rest == {n \in k..Len(text) : text[n] # " "}
        c    == IF rest = {} THEN NUL ELSE text[Min(rest)]
    IN  CASE c = "6" -> 6 [] c = "7" -> 7 [] c = "8" -> 8 [] OTHER -> 0

Matches_suffix(text, name, k) ==
    /\ \A n \in DOMAIN name : text[k + n] = name[n]
    /\ text[k + Len(name) + 1] = " "
Matches(text, name, k) ==
    /\ \A n \in DOMAIN name : text[k + n] = name[n]
    /\ text[k + Len(name) + 1] = " "
    /\ k = 0 \/ text[k] = " "
dir_do_lookup(text, name) ==
    LET found == {k \in 0..Len(text) - Len(name) - 1 : Matches(text, name, k)}
    IN  IF found = {} THEN -1 ELSE atoi(text, Min(found) + Len(name) + 1)

-----------------------------------------------------------------------------
(* The line and the request are dead once the command has been handled:    *)
(* tty_read and parse_request write them anew.                             *)
Forget == buf' = [k \in 0..LEN - 1 |-> OLD] /\ input' = <<>> /\ req' = NoArgs

(* The shell's loop: parse_request goes over the line, *)
parse_request ==
    /\ shell = "cmd"
    /\ \/ /\ i < strlen(buf)
          /\ req' = Scan(req, buf[i]) /\ i' = i + 1
          /\ shell' = IF req'.ret = 0 THEN "cmd" ELSE "refused"
       \/ /\ i = strlen(buf)
          /\ i' = 0 /\ shell' = "spawn" /\ UNCHANGED req
    /\ UNCHANGED <<fifo, is_reading, buf, screen, input, apps>>

(* "too many arguments or argument too long" *)
Refuse ==
    /\ shell = "refused" /\ shell' = "prompt" /\ i' = 0
    /\ Forget
    /\ UNCHANGED <<fifo, is_reading, screen, apps>>

(* and the command looked up, started, and waited for when it runs in the  *)
(* foreground.  A blank line has no arguments: its argv[0] is empty and is *)
(* found to be /bin itself, and an inode number of the text is found to be *)
(* inode 0; sys_proc then takes the text of a directory for a program.     *)
Spawn ==
    /\ shell = "spawn"
    /\ \E ino \in {dir_do_lookup(Bin, Str(req.argv[0]))} :
          \/ /\ ino = -1
             /\ shell' = "prompt" /\ UNCHANGED apps
          \/ /\ ino \in Programs
             /\ apps' = apps \union {IF Background(req) THEN "background" ELSE "foreground"}
             /\ shell' = IF Background(req) THEN "prompt" ELSE "wait"
          \/ /\ ino \notin Programs \union {-1}
             /\ shell' = "stopped" /\ UNCHANGED apps
    /\ Forget
    /\ UNCHANGED <<fifo, is_reading, i, screen>>

Exit(p) ==
    /\ shell # "stopped" /\ p \in apps /\ apps' = apps \ {p}
    /\ shell' = IF p = "foreground" /\ shell = "wait" THEN "prompt" ELSE shell
    /\ UNCHANGED <<fifo, is_reading, buf, i, screen, input, req>>

(* uart0_getc waits for a character; a stopped system stays stopped *)
Wait == (shell = "stopped" \/ (shell = "read" /\ ~uart_has_data)) /\ UNCHANGED vars

Next ==
    \/ \E c \in Char : Type(c)
    \/ Prompt \/ StartRead \/ tty_read \/ parse_request \/ Refuse \/ Spawn \/ Wait
    \/ \E p \in apps : shell # "stopped" /\ tty_recv_intr(p)
    \/ shell \notin {"wait", "stopped"} /\ tty_recv_intr("shell")
    \/ \E p \in apps : Exit(p)

(* The shell is scheduled again and again, and so are the apps, until the  *)
(* timer ends their time slices.  The user need not type, nor an app exit. *)
Spec ==
    /\ Init /\ [][Next]_vars
    /\ WF_vars(Prompt \/ StartRead \/ tty_read \/ parse_request \/ Refuse \/ Spawn)
    /\ WF_vars(\E p \in apps : shell # "stopped" /\ tty_recv_intr(p))

-----------------------------------------------------------------------------
(* Reference definitions                                                   *)

(* what is left of the characters typed, each DEL removing the one before *)
Edited(s) ==
    LET Edit(l, c) == IF c # DEL THEN Append(l, c)
                      ELSE SubSeq(l, 1, Len(l) - 1)
        line[n \in 0..Len(s)] == IF n = 0 THEN <<>> ELSE Edit(line[n - 1], s[n])
    IN  line[Len(s)]

(* the words of a line, in order, and those with a blank after them *)
Starts(l) == {k \in DOMAIN l : l[k] # " " /\ (k = 1 \/ l[k - 1] = " ")}
End(l, k) == Max({n \in k..Len(l) : \A m \in k..n : l[m] # " "})
Start(l, n) == CHOOSE k \in Starts(l) : Cardinality({m \in Starts(l) : m <= k}) = n
Words(l)  == [n \in 1..Cardinality(Starts(l)) |->
                 SubSeq(l, Start(l, n), End(l, Start(l, n)))]
Ended(l)  == {k \in Starts(l) : End(l, k) < Len(l)}

TooMuch(l) ==
    \/ \E w \in ToSet(Words(l)) : Len(w) >= CMD_ARG_LEN
    \/ Cardinality(Ended(l)) >= CMD_NARGS

-----------------------------------------------------------------------------
(* Properties                                                              *)

(* The line handed to the shell is what the UART held when tty_read began  *)
(* and what was typed from then on, edited by the backspaces: tty_recv_intr*)
(* takes nothing of it, and no remains of an earlier line or of an erased  *)
(* character are left in it.                                               *)
LineAsTyped ==
    /\ is_reading     => Prefix(i) = Edited(Taken)
    /\ shell = "cmd" => Str(buf) = Edited(input)

(* The echo of tty_read keeps the screen equal to the line being edited.   *)
EchoAgrees == is_reading => screen = Prefix(i)

(* parse_request gives the words of the line, and refuses it exactly when  *)
(* a word fills its array or CMD_NARGS words are followed by a blank.      *)
ParsedAsWords ==
    /\ shell = "spawn" =>
          /\ [n \in 1..argc(req) |-> Str(req.argv[n - 1])] = Words(Str(buf))
          /\ ~TooMuch(Str(buf))
    /\ shell = "refused" => TooMuch(Str(buf))

(* A command that is an entry of the directory is found there; of the      *)
(* others dir_do_lookup finds none, except the inode numbers of the text,  *)
(* which it takes for names: what follows one is a name, and atoi of it 0. *)
FoundByName ==
    shell = "spawn" /\ argc(req) > 0 =>
        LET w     == Str(req.argv[0])
            named == {e \in Entries : e.name = w}
            ino   == dir_do_lookup(Bin, w)
        IN  /\ \A e \in named : ino = e.ino
            /\ named = {} => ino = IF w \in Numbers THEN 0 ELSE -1

(* Enter or Ctrl+C, typed while tty_read is in progress, ends it.          *)
ReadEnds ==
    is_reading /\ {ETX, CR} \intersect ToSet(fifo) # {} ~> ~is_reading

(* Ctrl+C, typed while the shell waits for a command, gives the shell back *)
(* whatever was typed ahead of it, unless the command ends first.          *)
CtrlCReturns == shell = "wait" /\ ETX \in ToSet(fifo) ~> shell # "wait"
=============================================================================
