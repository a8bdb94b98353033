------------------------------ MODULE BashTool ------------------------------
(***************************************************************************)
(* One call of the bash tool (tools/tools.go: execBash; llm/typed_bash.go) *)
(* and what the model is told of it: its verdict, and its output, of which *)
(* a head, a tail and a file remain when it is long.                       *)
(*                                                                         *)
(* A command runs under a deadline and under the turn's context.  It may   *)
(* leave a descendant behind that still holds its output's pipe, and       *)
(* cmd.Run waits for the end of that.  A byte starts a rune or continues   *)
(* one.                                                                    *)
(***************************************************************************)
EXTENDS Naturals, Sequences, SequencesExt

CONSTANTS
    MaxSize,   \* maxSize: bytes shown of a command's output
    CapSize,   \* llmResultMaxBytes: bytes of any tool's result
    MaxOutput  \* bound: bytes that a command writes

ASSUME BashAssumption == MaxSize \in Nat \ {0} /\ CapSize \in Nat /\ MaxOutput \in Nat

VARIABLES
    bash,      \* the call: "idle", "run", "over"
    proc,      \* its process: "none", "up", "zombie", then "ended", "killed" or, killed when
               \* it was one, "late"
    status,    \* the exit code of one that ended
    held,      \* a descendant holds the pipe
    ctx,       \* "live", or what ended it first: "deadline" or "canceled"
    out,       \* the output so far
    told       \* the result: [kind, head, tail, file]

bashVars == <<bash, proc, status, held, ctx, out, told>>

Reaped == {"ended", "killed", "late"}
Byte == {"start", "cont"}
NoFile == <<"none">>
Tell(kind, head, tail, file) == [kind |-> kind, head |-> head, tail |-> tail, file |-> file]
Untold == Tell("none", <<>>, <<>>, NoFile)

BashTypeOK ==
    /\ bash \in {"idle", "run", "over"} /\ proc \in {"none", "up", "zombie"} \cup Reaped
    /\ status \in {0, 1} /\ held \in BOOLEAN /\ ctx \in {"live", "deadline", "canceled"}
    /\ out \in Seq(Byte) /\ Len(out) <= MaxOutput
    /\ told.kind \in {"none", "output", "exit", "timed out", "canceled", "not started"}

BashInit ==
    /\ bash = "idle" /\ proc = "none" /\ status = 0 /\ held = FALSE /\ ctx = "live"
    /\ out = <<>> /\ told = Untold

-----------------------------------------------------------------------------
(* What is shown of an output *)

RuneStarts(s) == {i \in DOMAIN s : s[i] = "start"}

\* Faults: the cut is where the limit is; the tail begins where the limit has it.
FaultHead(s, limit) == SubSeq(s, 1, limit)
FaultTail(s, limit) == SubSeq(s, Len(s) - limit + 1, Len(s))

\* The first bytes, as many as are whole runes when the next begins one.
Head8(s, limit) ==
    LET cuts == {i \in 0 .. limit : i = 0 \/ s[i + 1] = "start"}
    IN  SubSeq(s, 1, CHOOSE i \in cuts : \A j \in cuts : j <= i)

\* The last bytes, from where one begins a rune.
Tail8(s, limit) ==
    LET from == {i \in Len(s) - limit + 1 .. Len(s) + 1 : i = Len(s) + 1 \/ s[i] = "start"}
    IN  SubSeq(s, CHOOSE i \in from : \A j \in from : i <= j, Len(s))

\* truncateWithOverflow: head and tail, and a file of all of it.
Overflowed(kind) == Tell(kind, Head8(out, MaxSize \div 2), Tail8(out, MaxSize \div 2), out)

\* Fault: the head has all that is shown.
FaultShown(kind, disk) ==
    IF Len(out) <= MaxSize THEN Tell(kind, out, <<>>, NoFile)
    ELSE Tell(kind, Head8(out, MaxSize), Tail8(out, MaxSize \div 2), IF disk THEN out ELSE NoFile)

\* The head alone when the file cannot be written.
Shown(kind, disk) ==
    IF Len(out) <= MaxSize THEN Tell(kind, out, <<>>, NoFile)
    ELSE IF ~disk THEN Tell(kind, Head8(out, MaxSize), <<>>, NoFile)
    ELSE Overflowed(kind)

\* capLLMResult, of any tool's result.
CapLLMResult(s) == IF Len(s) <= CapSize THEN s ELSE Head8(s, CapSize)

-----------------------------------------------------------------------------
(* The call *)

\* A context that is over spawns nothing; a process may fail to start.
RunBash ==
    /\ bash = "idle"
    /\ \/ /\ ctx = "live" /\ bash' = "run" /\ proc' = "up" /\ UNCHANGED told
       \/ /\ bash' = "over" /\ UNCHANGED proc
          /\ told' = Tell(IF ctx = "live" THEN "not started" ELSE "canceled", <<>>, <<>>, NoFile)
    /\ UNCHANGED <<status, held, ctx, out>>

Put(byte) ==
    /\ bash = "run" /\ (proc = "up" \/ held) /\ Len(out) < MaxOutput
    /\ out' = Append(out, byte)
    /\ UNCHANGED <<bash, proc, status, held, ctx, told>>

\* A descendant is left with the pipe; it ends, or closes it.
Hold == proc = "up" /\ held' = TRUE /\ UNCHANGED <<bash, proc, status, ctx, out, told>>
LetGo == held /\ held' = FALSE /\ UNCHANGED <<bash, proc, status, ctx, out, told>>

BashExits(code) ==
    /\ proc = "up"
    /\ proc' = "zombie" /\ status' = code
    /\ UNCHANGED <<bash, held, ctx, out, told>>

BashReaped == proc = "zombie" /\ proc' = "ended" /\ UNCHANGED <<bash, status, held, ctx, out, told>>

\* The timeout of the call, which starts with it, and the end of the turn or Esc.
CtxEnds(why) ==
    /\ ctx = "live"
    /\ bash = "run" \/ (bash = "idle" /\ why = "canceled")
    /\ ctx' = why
    /\ UNCHANGED <<bash, proc, status, held, out, told>>
Expire == CtxEnds("deadline")
Stop == CtxEnds("canceled")

\* Fault: an expired deadline is only said.
FaultKill ==
    /\ proc = "up" /\ ctx = "canceled"
    /\ proc' = "killed"
    /\ UNCHANGED <<bash, status, held, ctx, out, told>>

\* exec.CommandContext kills bash, and no descendant.  A zombie can be killed too: Run's
\* error is the context's then, whatever the exit code.
Kill ==
    /\ proc \in {"up", "zombie"} /\ ctx # "live"
    /\ proc' = IF proc = "up" THEN "killed" ELSE "late"
    /\ UNCHANGED <<bash, status, held, ctx, out, told>>

\* Fault: the context is asked before the command's error.
FaultVerdict(disk) ==
    CASE ctx = "deadline" -> Tell("timed out", <<>>, <<>>, NoFile)
      [] ctx = "canceled" -> Tell("canceled", <<>>, <<>>, NoFile)
      [] status = 0 -> Shown("output", disk)
      [] OTHER -> Shown("exit", disk)

\* An error is laid on the context, if that is over by now, and then costs the output, which
\* Execute does not pass on.
Verdict(disk) ==
    CASE proc = "ended" /\ status = 0 -> Shown("output", disk)
      [] ctx = "deadline" -> Tell("timed out", <<>>, <<>>, NoFile)
      [] ctx = "canceled" -> Tell("canceled", <<>>, <<>>, NoFile)
      [] OTHER -> Shown("exit", disk)

\* cmd.Run returns when the process is gone and the pipe has no writer.
BashCallEnds ==
    /\ bash = "run" /\ proc \in Reaped /\ ~held
    /\ bash' = "over"
    /\ \E disk \in BOOLEAN : told' = Verdict(disk)
    /\ UNCHANGED <<proc, status, held, ctx, out>>

BashNext ==
    \/ RunBash \/ Hold \/ LetGo \/ BashReaped \/ Expire \/ Stop \/ Kill \/ BashCallEnds
    \/ \E byte \in Byte : Put(byte)
    \/ \E code \in {0, 1} : BashExits(code)

\* Time passes, the kernel kills, and the call goes on.  The command owes nothing.
BashFairness == WF_bashVars(Expire) /\ WF_bashVars(Kill \/ BashReaped) /\ WF_bashVars(BashCallEnds)

-----------------------------------------------------------------------------
(* Properties *)

\* A success is told as one, however late the call returns; a failure with its code, if it
\* returns in time; a killed command as that for which it was killed.
VerdictIsTrue ==
    bash = "over" /\ proc # "none" =>
        /\ told.kind = "output" <=> proc = "ended" /\ status = 0
        /\ told.kind = "exit" => ctx = "live" /\ proc = "ended"
        /\ proc \in {"killed", "late"} => told.kind = IF ctx = "deadline" THEN "timed out" ELSE "canceled"
        /\ ~held

\* Valid UTF-8: no rune without a start, none of more than four bytes.
Valid(s) ==
    /\ s # <<>> => s[1] = "start"
    /\ \A i \in DOMAIN s : s[i] = "cont" => \E j \in RuneStarts(s) : j < i /\ i - j <= 3

\* A part of a valid text ends with a whole rune when the rest begins with one.
WholeHead(head, s, limit) ==
    /\ IsPrefix(head, s) /\ Len(head) <= limit
    /\ Valid(s) => (head = s \/ s[Len(head) + 1] = "start") /\ Len(head) + 3 >= limit

\* What is shown of a long output are its ends, no rune of them cut and none shown twice, and
\* all of it is in the file that is named; so for the cap on every tool's result.
OutputIsTold ==
    /\ told.kind \in {"output", "exit"} =>
        /\ told.tail = <<>> /\ told.file = NoFile =>
            told.head = out \/ WholeHead(told.head, out, MaxSize)
        /\ told.file # NoFile =>
            /\ told.file = out
            /\ WholeHead(told.head, out, MaxSize \div 2)
            /\ IsSuffix(told.tail, out)
            /\ Valid(out) => Valid(told.tail) /\ Len(told.tail) + 3 >= MaxSize \div 2
            /\ Len(told.head) + Len(told.tail) <= MaxSize
    /\ CapLLMResult(out) = out \/ WholeHead(CapLLMResult(out), out, CapSize)

\* A call returns, if every descendant lets go of the pipe.  The timeout does not end one
\* that is held.
BashReturns == ([]<>~held) => (bash = "run" ~> bash = "over")

\* What the model is told of a command is so, and it is told in the end.
CommandIsTold == [](BashTypeOK /\ VerdictIsTrue /\ OutputIsTold) /\ BashReturns
=============================================================================
