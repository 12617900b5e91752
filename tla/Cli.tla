-------------------------------- MODULE Cli ---------------------------------
(***************************************************************************)
(* One featherquant process as its caller sees it: `main` of cli.py around *)
(* `quantize_model`, the progress events the engine emits, the reporter    *)
(* that turns them into a bar, the manifest left behind, the exit code.    *)
(*                                                                         *)
(* Abstractions.                                                           *)
(*  - The manifest is its status and the set of tensors it has a hash for; *)
(*    Engine relates it to the bytes of the output.                        *)
(*  - Whatever ends a process with an exception (RuntimeError, sys.exit,   *)
(*    KeyboardInterrupt, a broken pipe in a reporter) is Raise, except     *)
(*    that making the reporter and entering the try is one step.           *)
(***************************************************************************)
EXTENDS Integers, Sequences

CONSTANT Out    \* Out[i]: packed bytes of tensor i

VARIABLES
    pc,        \* what the process does next; "out" when there is none
    code,      \* exit code of the last process; "none" while one runs
    args,      \* its arguments
    status,    \* status of the manifest
    banked,    \* the tensors the manifest has a hash for
    resuming,  \* the local of quantize_model
    next,      \* the tensor that is streamed
    part,      \* how many of its bytes the ChunkDone events have reported
    bar,       \* the progress bar: total and completed
    live,      \* the live view of the process's Dashboard is on
    reported   \* the process has written its --report

job == <<status, banked>>
streaming == <<resuming, next, part, bar>>
cliVars == <<pc, code, args, job, streaming, live, reported>>

ASSUME OutAssumption == Out \in Seq(Nat \ {0})

Tensors == 1 .. Len(Out)

\* Bytes of the first n tensors.
UpTo[n \in 0 .. Len(Out)] == IF n = 0 THEN 0 ELSE UpTo[n - 1] + Out[n]

\* Sizes are halves of a unit, so that 0.5GB is one of them.  parse_size takes
\* what is a number, with a unit or in bytes, and comes to at least a MiB.
Units == {"bare", "B", "K", "M", "G", "T"}
MiB(size) ==
    CASE size.unit \in {"bare", "B"} -> size.halves \div (2 * 1024 * 1024)
      [] size.unit = "K" -> size.halves \div (2 * 1024)
      [] size.unit = "M" -> size.halves \div 2
      [] size.unit = "G" -> size.halves * 512
      [] size.unit = "T" -> size.halves * 512 * 1024
Sizes == [halves : Nat, unit : Units \cup {"junk"}]
Parses(size) == size.unit \in Units /\ MiB(size) >= 1

CommandLines == [dir : BOOLEAN, vocab : BOOLEAN, size : Sizes,
                 resume : BOOLEAN, report : BOOLEAN, ui : {"rich", "plain", "none"}]

CliInit ==
    /\ pc = "out" /\ code = "none"
    /\ args = [dir |-> FALSE, vocab |-> FALSE, size |-> [halves |-> 4, unit |-> "G"],
               resume |-> FALSE, report |-> FALSE, ui |-> "plain"]
    /\ status = "absent" /\ banked = {}
    /\ resuming = FALSE /\ next = 1 /\ part = 0
    /\ bar = [total |-> 0, completed |-> 0]
    /\ live = FALSE /\ reported = FALSE

\* argparse, then the reporter of the mode.
Main(a) ==
    /\ pc = "out"
    /\ args' = a
    /\ IF Parses(a.size) THEN pc' = "read" /\ code' = "none" /\ live' = (a.ui = "rich")
                         ELSE pc' = "out" /\ code' = "2" /\ live' = FALSE
    /\ resuming' = FALSE /\ next' = 1 /\ part' = 0
    /\ bar' = [total |-> 0, completed |-> 0]
    /\ reported' = FALSE
    /\ UNCHANGED job

\* Mutant: the live view is only stopped on JobDone.
RaiseLive ==
    /\ pc # "out"
    /\ pc' = "out" /\ code' = "1"
    /\ UNCHANGED <<args, job, streaming, live, reported>>

\* An exception leaves quantize_model, or what follows it; main's finally
\* closes the reporter.
Raise ==
    /\ pc # "out"
    /\ pc' = "out" /\ code' = "1" /\ live' = FALSE
    /\ UNCHANGED <<args, job, streaming, reported>>

Kill ==
    /\ pc # "out"
    /\ pc' = "out" /\ code' = "137"
    /\ UNCHANGED <<args, job, streaming, live, reported>>

\* A directory needs a vocab GGUF (else Raise); --resume without a manifest
\* starts afresh.
ReadModel ==
    /\ pc = "read"
    /\ args.dir => args.vocab
    /\ resuming' = (args.resume /\ status # "absent")
    /\ pc' = IF resuming' THEN "verify" ELSE "jobstart"
    /\ UNCHANGED <<code, args, job, next, part, bar, live, reported>>

\* _prepare_resume: s is the first tensor without a hash or with a bad one.  A
\* complete job is refused (Raise).
Verify(s) ==
    /\ pc = "verify"
    /\ status # "complete"
    /\ 1 .. s - 1 \subseteq banked
    /\ next' = s
    /\ pc' = "jobstart"
    /\ UNCHANGED <<code, args, job, resuming, part, bar, live, reported>>

\* Mutant: the bar starts behind the last tensor the manifest has a hash for.
JobStartBanked ==
    /\ pc = "jobstart"
    /\ LET last == CHOOSE n \in banked \cup {0} : \A m \in banked : m <= n
       IN  bar' = [total |-> UpTo[Len(Out)],
                   completed |-> IF resuming THEN UpTo[last] ELSE 0]
    /\ pc' = "tensor"
    /\ UNCHANGED <<code, args, job, resuming, next, part, live, reported>>

\* The budget is sized, a fresh header written, and JobStart emitted: the bar
\* starts at the tensors before the first one to write.
JobStart ==
    /\ pc = "jobstart"
    /\ bar' = [total |-> UpTo[Len(Out)], completed |-> UpTo[next - 1]]
    /\ pc' = "tensor"
    /\ UNCHANGED <<code, args, job, resuming, next, part, live, reported>>

\* A fresh run replaces the manifest when its first tensor begins.
TensorStart ==
    /\ pc = "tensor"
    /\ next \in Tensors
    /\ part' = 0
    /\ IF resuming \/ next > 1 THEN UNCHANGED job
       ELSE status' = "in_progress" /\ banked' = {}
    /\ pc' = "chunk"
    /\ UNCHANGED <<code, args, resuming, next, bar, live, reported>>

ChunkDone(n) ==
    /\ pc = "chunk"
    /\ part + n <= Out[next]
    /\ part' = part + n
    /\ bar' = [bar EXCEPT !.completed = @ + n]
    /\ UNCHANGED <<pc, code, args, job, resuming, next, live, reported>>

\* Hash, save, TensorDone.
Commit ==
    /\ pc = "chunk"
    /\ part = Out[next]
    /\ banked' = banked \cup {next}
    /\ next' = next + 1
    /\ pc' = "tensor"
    /\ UNCHANGED <<code, args, status, resuming, part, bar, live, reported>>

Complete ==
    /\ pc = "tensor"
    /\ next \notin Tensors
    /\ status' = "complete"
    /\ pc' = "report"
    /\ UNCHANGED <<code, args, banked, streaming, live, reported>>

\* Mutant: a report that cannot be written is only worth a warning.
WriteReportMaybe ==
    /\ pc = "report"
    /\ reported' \in {FALSE, args.report}
    /\ live' = FALSE
    /\ pc' = "return"
    /\ UNCHANGED <<code, args, job, streaming>>

\* The report, if it was asked for; then JobDone, which closes the Dashboard.
WriteReport ==
    /\ pc = "report"
    /\ reported' = args.report
    /\ live' = FALSE
    /\ pc' = "return"
    /\ UNCHANGED <<code, args, job, streaming>>

\* reporter.close, the summary, the end of main.
Return ==
    /\ pc = "return"
    /\ live' = FALSE
    /\ pc' = "out" /\ code' = "0"
    /\ UNCHANGED <<args, job, streaming, reported>>

CliStep ==
    \/ ReadModel
    \/ \E s \in 1 .. Len(Out) + 1 : Verify(s)
    \/ JobStart \/ TensorStart
    \/ /\ pc = "chunk"
       /\ \E n \in 1 .. Out[next] : ChunkDone(n)
    \/ Commit \/ Complete \/ WriteReport \/ Return
    \/ Raise \/ Kill
-----------------------------------------------------------------------------
\* Every variable of the process has its type.
CliTypeOK ==
    /\ pc \in {"out", "read", "verify", "jobstart", "tensor", "chunk", "report", "return"}
    /\ code \in {"none", "0", "1", "2", "137"}
    /\ args \in CommandLines
    /\ status \in {"absent", "in_progress", "complete"} /\ banked \subseteq Tensors
    /\ resuming \in BOOLEAN /\ next \in 1 .. Len(Out) + 1 /\ part \in Nat
    /\ bar \in [total : Nat, completed : Nat]
    /\ live \in BOOLEAN /\ reported \in BOOLEAN

\* "byte-accurate bar" (ui.py:71): what the events add up to never passes the
\* planned total, and is the total when the last tensor is committed, also in
\* a run resumed before tensors that had been committed.
BarHonest ==
    /\ bar.completed <= bar.total
    /\ pc \in {"report", "return"} => bar.completed = bar.total

\* A process that was not killed has restored the terminal, "even on error"
\* (cli.py:95); and exit code 0 says that the job is complete, every tensor
\* committed, and a report that was asked for written.
CleanExit ==
    pc = "out" /\ code # "137" =>
        /\ ~live
        /\ code = "0" => /\ status = "complete" /\ banked = Tensors
                         /\ args.report => reported
=============================================================================
