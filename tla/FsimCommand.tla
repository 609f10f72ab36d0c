---------------------------- MODULE FsimCommand ----------------------------
(***************************************************************************)
(* The fdo.command module: RunCommand of the owner service has the device  *)
(* run a command, Command of the device starts the process and reports its *)
(* output and exit code while the process runs on its own.                 *)
(*                                                                         *)
(* Output is a sequence of "line", text up to and with a newline, and      *)
(* "part", text without one.                                               *)
(***************************************************************************)
EXTENDS ServiceInfoModules

CONSTANTS
    MaxOutput,              \* pieces of output of a process
    MaxSignals              \* signals the owner service sends

ASSUME CommandAssumption == MaxOutput \in Nat /\ MaxSignals \in Nat

VARIABLES
    cmOwner,                \* RunCommand
    signals,                \* signals sent to it so far
    cmd,                    \* Command; buf is what stdout holds
    process                 \* the process it started last

commandVars == <<cmOwner, signals, cmd, process>>

\* What is sent: nothing, the command (1), execute (2).  MayFail and whether there
\* is a Stdout are chosen when the module starts.
NewCommand ==
    [mayFail |-> FALSE, stdout |-> FALSE, sent |-> 0, out |-> <<>>, exit |-> Nil, done |-> FALSE, sig |-> FALSE]

ResetCmd == [named |-> FALSE, mayFail |-> FALSE, stdout |-> FALSE, started |-> FALSE, buf |-> <<>>]

CommandInit ==
    /\ cmOwner = NewCommand
    /\ signals = 0
    /\ cmd = ResetCmd
    /\ process = [st |-> "none", code |-> 0, output |-> <<>>]

------------------------------------------------------------------------------
(* Device: Command.                                                          *)

\* reset kills the process.
reset ==
    /\ cmd' = ResetCmd
    /\ process' = IF cmd.started /\ process.st = "run" THEN [process EXCEPT !.st = "killed"] ELSE process

\* Transition resets only when the module becomes inactive.
CommandActive ==
    /\ handleActive("command")
    /\ UNCHANGED commandVars

CommandParameter ==
    /\ \/ /\ Received("command", "command")
          /\ cmd' = [ResetCmd EXCEPT !.named = TRUE]
          /\ process' = IF cmd.started /\ process.st = "run" THEN [process EXCEPT !.st = "killed"] ELSE process
       \/ /\ Received("command", "args")
          /\ UNCHANGED <<cmd, process>>
       \/ /\ Received("command", "may_fail")
          /\ cmd' = [cmd EXCEPT !.mayFail = TRUE] /\ UNCHANGED process
       \/ /\ Received("command", "return_stdout")
          /\ cmd' = [cmd EXCEPT !.stdout = TRUE] /\ UNCHANGED process
    /\ Handled(<<>>)
    /\ UNCHANGED <<cmOwner, signals>>

\* A process that cannot be started leaves a cmd without a process; the reset
\* that follows the error panics on it, which ends the device's program.
CommandExecute ==
    /\ Received("command", "execute")
    /\ ~cmd.started
    /\ \/ /\ Handled(<<>>)
          /\ cmd' = [cmd EXCEPT !.started = TRUE]
          /\ process' = [st |-> "run", code |-> 0, output |-> <<>>]
       \/ /\ Over("panic")
          /\ UNCHANGED <<cmd, process>>
    /\ UNCHANGED <<cmOwner, signals>>

\* A signal ends the process or is ignored by it; one for a process that is not
\* there is an error.
CommandSignal ==
    /\ Received("command", "sig")
    /\ \/ /\ cmd.started /\ process.st = "run"
          /\ Handled(<<>>)
          /\ process' \in {process, [process EXCEPT !.st = "exit", !.code = -1]}
          /\ UNCHANGED cmd
       \/ /\ ~(cmd.started /\ process.st = "run")
          /\ DeviceFails
          /\ reset
    /\ UNCHANGED <<cmOwner, signals>>

Positions(s, piece) == {i \in 1..Len(s) : s[i] = piece}

\* The values for the lines the buffer holds, each with a newline more than it
\* had; what follows the last newline has been read from the buffer and is dropped.
cborEncodeBuffer ==
    LET ends  == SetToSortSeq(Positions(cmd.buf, "line"), <)
        lines == [i \in DOMAIN ends |->
                     Append(SubSeq(cmd.buf, IF i = 1 THEN 1 ELSE ends[i - 1] + 1, ends[i]), "newline")]
    IN  IF lines = <<>> THEN <<>> ELSE <<KV("command", "stdout", lines)>>

\* Whether the process has exited is asked before its output is read.  Wait has
\* an error for every exit code but 0.
CommandYield_OutputFirst ==              \* mutant: the exit is asked for after the output is read
    /\ Yields("command")
    /\ IF cmd.started
       THEN /\ Yielded(Append(IF cmd.stdout THEN cborEncodeBuffer ELSE <<>>, KV("command", "exitcode", 0)))
            /\ cmd' = ResetCmd
            /\ process' = [process EXCEPT !.st = "exit", !.code = 0,
                             !.output = IF process.st = "run" THEN Append(@, "line") ELSE @]
       ELSE Yielded(<<>>) /\ UNCHANGED <<cmd, process>>
    /\ UNCHANGED <<cmOwner, signals>>

CommandYield ==
    /\ Yields("command")
    /\ LET exited == cmd.started /\ process.st = "exit"
           output == IF cmd.stdout THEN cborEncodeBuffer ELSE <<>>
       IN  \/ /\ exited /\ process.code # 0
              /\ DeviceFails
              /\ reset
           \/ /\ exited /\ process.code = 0
              /\ Yielded(Append(output, KV("command", "exitcode", 0)))
              /\ reset
           \/ /\ cmd.started /\ ~exited
              /\ Yielded(output)
              /\ cmd' = [cmd EXCEPT !.buf = IF cmd.stdout THEN <<>> ELSE @]
              /\ UNCHANGED process
           \/ /\ ~cmd.started
              /\ Yielded(<<>>)
              /\ UNCHANGED <<cmd, process>>
    /\ UNCHANGED <<cmOwner, signals>>

\* The process prints and exits.
ProcessStep ==
    /\ process.st = "run"
    /\ \/ /\ Len(process.output) < MaxOutput
          /\ \E piece \in {"line", "part"} :
                /\ process' = [process EXCEPT !.output = Append(@, piece)]
                /\ cmd' = IF cmd.started /\ cmd.stdout THEN [cmd EXCEPT !.buf = Append(@, piece)] ELSE cmd
       \/ /\ process' \in {[process EXCEPT !.st = "exit", !.code = c] : c \in {0, 1}}
          /\ UNCHANGED cmd
    /\ UNCHANGED <<exchangeVars, cmOwner, signals>>

------------------------------------------------------------------------------
(* Owner: RunCommand.                                                        *)

\* One value is decoded and written; a second one in the message is an error of
\* the exchange.
CommandHandleInfo ==
    /\ \/ /\ HandleInfo("command", "active")
          /\ InfoHandled /\ UNCHANGED cmOwner
       \/ /\ HandleInfo("command", "stdout")
          /\ cmOwner' = [cmOwner EXCEPT !.out = @ \o toOwner[1].val[1]]
          /\ \/ Len(toOwner[1].val) = 1 /\ InfoHandled
             \/ Len(toOwner[1].val) > 1 /\ OwnerFails
       \/ /\ HandleInfo("command", "exitcode")
          /\ InfoHandled
          /\ cmOwner' = [cmOwner EXCEPT !.exit = toOwner[1].val, !.done = TRUE]
    /\ UNCHANGED <<signals, cmd, process>>

\* The arguments may fill the first message; then, with the parameters, execute.
CommandProduceInfo ==
    /\ ProduceInfo("command")
    /\ \/ /\ cmOwner.sent = 0
          /\ \E mayFail, stdout \in BOOLEAN :
                cmOwner' = [cmOwner EXCEPT !.mayFail = mayFail, !.stdout = stdout, !.sent = 1]
          /\ Produced(<<KV("command", "active", TRUE), KV("command", "command", TRUE),
                        KV("command", "args", TRUE)>>, TRUE, FALSE)
       \/ /\ cmOwner.sent = 1
          /\ cmOwner' = [cmOwner EXCEPT !.sent = 2]
          /\ Produced(<<KV("command", "args", TRUE)>>
                      \o (IF cmOwner.mayFail THEN <<KV("command", "may_fail", TRUE)>> ELSE <<>>)
                      \o (IF cmOwner.stdout THEN <<KV("command", "return_stdout", TRUE)>> ELSE <<>>)
                      \o <<KV("command", "execute", Nil)>>, FALSE, FALSE)
       \/ /\ cmOwner.sent = 2
          /\ Produced(IF cmOwner.sig THEN <<KV("command", "sig", TRUE)>> ELSE <<>>, FALSE, cmOwner.done)
          /\ cmOwner' = IF cmOwner.done THEN NewCommand ELSE [cmOwner EXCEPT !.sig = FALSE]
    /\ UNCHANGED <<signals, cmd, process>>

OwnerSignals ==
    /\ Current("command") /\ ~cmOwner.sig
    /\ signals < MaxSignals
    /\ signals' = signals + 1
    /\ cmOwner' = [cmOwner EXCEPT !.sig = TRUE]
    /\ UNCHANGED <<exchangeVars, cmd, process>>

CommandStep ==
    \/ CommandActive \/ CommandParameter \/ CommandExecute \/ CommandSignal \/ CommandYield
    \/ ProcessStep \/ CommandHandleInfo \/ CommandProduceInfo \/ OwnerSignals

------------------------------------------------------------------------------
(* Properties.                                                               *)

Printed(output) == FlattenSeq([i \in DOMAIN output |-> <<output[i], "newline">>])

\* An exit code reaches the owner only once the process has exited with it, and
\* by then the owner has the output, if the process printed whole lines: output
\* printed just before the exit is not lost.
OutputBeforeExit ==
    [][cmOwner.exit = Nil /\ cmOwner'.exit # Nil =>
          /\ process.st = "exit" /\ process.code = cmOwner'.exit
          /\ cmOwner.stdout /\ Positions(process.output, "part") = {} => cmOwner.out = Printed(process.output)]_<<cmOwner, process>>
=============================================================================
