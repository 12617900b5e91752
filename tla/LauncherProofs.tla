--------------------------- MODULE LauncherProofs ---------------------------
(***************************************************************************)
(* What holds of the launcher and of the process it becomes for any        *)
(* tensors, command lines and edits.  The proofs need little arithmetic:   *)
(* they follow the locals of quantize_model against the manifest, and the  *)
(* dependencies against the stamp.                                         *)
(***************************************************************************)
EXTENDS Launcher, Numbers

After == {"model", "vocab", "ram", "resume", "exec"}

\* An install of edit e misses no edit but those made while it ran.
Latest(e) == e >= 1 /\ e + 1 .. project \subseteq raced

\* The launcher: what is installed, what the stamp says, where it stands.
VenvInv ==
    /\ project \in Nat \ {0}
    /\ stamp \in Nat /\ deps \in Int
    /\ stamp <= project /\ deps <= project /\ -deps <= project
    /\ UpToDate => Latest(deps)
    /\ lpc \in {"sync", "install"} => ~UpToDate
    /\ lpc = "install" => Latest(-deps)
    /\ lpc = "touch" => Latest(deps)
    /\ lpc = "ready" => deps >= 1
    /\ lpc \in After => deps >= 0
    /\ lpc # "idle" => pc = "out"
    /\ pc # "out" => deps >= 1

\* Init establishes it.
LEMMA VenvInit == Init => VenvInv
BY SMT DEF Init, CliInit, VenvInv, NoDeps, UpToDate, After, Latest

\* A step of the process leaves the launcher alone.
LEMMA VenvCli == VenvInv /\ CliStep /\ UNCHANGED <<launch, edits, venv>> => VenvInv'
<1> SUFFICES ASSUME VenvInv, CliStep, UNCHANGED <<launch, edits, venv>> PROVE VenvInv'
    OBVIOUS
<1>1. pc # "out"
    BY SMT DEF CliStep, ReadModel, Verify, JobStart, TensorStart, ChunkDone, Commit, Complete,
           WriteReport, Return, Raise, Kill
<1> QED
    BY <1>1, SMT DEF VenvInv, launch, edits, venv, UpToDate, After, Latest

\* Every step keeps it.
LEMMA VenvNext == VenvInv /\ [Next]_vars => VenvInv'
<1> SUFFICES ASSUME VenvInv, [Next]_vars PROVE VenvInv'
    OBVIOUS
<1> USE DEF VenvInv, UpToDate, After, Latest, edits
<1>1. ASSUME NEW m, NEW c, Launch(m, c) PROVE VenvInv'
    BY <1>1, SMT DEF Launch, venv, venv
<1>2. CASE Die
    BY <1>2, SMT DEF Die, venv, venv
<1>3. CASE EnsureVenv
    BY <1>3, SMT DEF EnsureVenv, NoDeps, cliVars
<1>4. CASE CheckStamp
    BY <1>4, SMT DEF CheckStamp, venv, cliVars
<1>5. CASE BeginInstall
    BY <1>5, SMT DEF BeginInstall, PartialDeps, cliVars
<1>6. CASE Install
    BY <1>6, SMT DEF Install, cliVars
<1>7. CASE Touch
    BY <1>7, SMT DEF Touch, cliVars
<1>8. CASE Ready
    BY <1>8, SMT DEF Ready, venv, cliVars
<1>9. ASSUME NEW dir \in BOOLEAN, AskModel(dir) PROVE VenvInv'
    BY <1>9, SMT DEF AskModel, venv, cliVars
<1>10. CASE AskVocab
    BY <1>10, SMT DEF AskVocab, venv, cliVars
<1>11. ASSUME NEW reply \in SizeReplies, AskRam(reply) PROVE VenvInv'
    BY <1>11, SMT DEF AskRam, venv, cliVars
<1>12. ASSUME NEW yes \in BOOLEAN, AskResume(yes) PROVE VenvInv'
    BY <1>12, SMT DEF AskResume, venv, cliVars
<1>13. CASE Exec
    BY <1>13, SMT DEF Exec, venv, NoDeps
<1>14. CASE CliStep /\ UNCHANGED <<launch, edits, venv>>
    BY <1>14, VenvCli
<1>15. CASE EditProject
    BY <1>15, SMT DEF EditProject, venv, launch, cliVars
<1>16. ASSUME NEW kept \in BOOLEAN, LoseVenv(kept) PROVE VenvInv'
    BY <1>16, SMT DEF LoseVenv, NoDeps, launch, cliVars
<1>17. CASE UNCHANGED vars
    BY <1>17, SMT DEF vars, launch, venv, cliVars
<1> HIDE DEF VenvInv, UpToDate, After, Latest, edits
<1> QED
    BY <1>1, <1>2, <1>3, <1>4, <1>5, <1>6, <1>7, <1>8, <1>9, <1>10, <1>11, <1>12, <1>13,
       <1>14, <1>15, <1>16, <1>17 DEF Next

\* For any edits, at any time, and for interrupted and failed installs and lost
\* environments: a stamp that is up to date vouches for a whole install, from
\* which no edit is missing but those made while it ran; and no process runs on
\* half an install (bootstrap, featherquant.sh:71-85).
THEOREM StampVouches == Spec => []StampIsTrue
<1>1. VenvInv => StampIsTrue
    BY SMT DEF VenvInv, StampIsTrue, Latest
<1> QED
    BY <1>1, VenvInit, VenvNext, PTL DEF Spec
-----------------------------------------------------------------------------
(* The process: the manifest against the locals of quantize_model.  The    *)
(* wizard's offer is part of it, because a fresh run may replace a         *)
(* manifest only when nobody wanted to resume from it.                     *)

\* A run without --resume, which a wizard user asked for.
GivenUp(resume) == ~resume /\ (mode = "wizard" => declined)

\* A fresh run that has not saved yet.
Fresh == pc \in {"jobstart", "tensor"} /\ ~resuming /\ next = 1

\* The manifest belongs to the run: it was resumed from, or saved by it.
Owned == pc = "chunk" \/ (pc \in {"jobstart", "tensor"} /\ (resuming \/ next # 1))

JobInv ==
    /\ status \in {"absent", "in_progress", "complete"} /\ banked \subseteq Tensors
    /\ next \in 1 .. Len(Out) + 1
    /\ resuming \in BOOLEAN /\ declined \in BOOLEAN /\ args.resume \in BOOLEAN
    /\ "resume" \in DOMAIN cmd /\ cmd.resume \in BOOLEAN
    /\ status = "absent" => banked = {}
    /\ lpc # "idle" => pc = "out"
    /\ lpc = "exec" => status = "absent" \/ cmd.resume \/ GivenUp(cmd.resume)
    /\ pc = "read" => next = 1 /\ (status = "absent" \/ args.resume \/ GivenUp(args.resume))
    /\ pc = "verify" => resuming /\ status # "absent"
    /\ Fresh => status = "absent" \/ GivenUp(args.resume)
    /\ pc = "chunk" => next \in Tensors
    /\ pc \in {"jobstart", "tensor", "chunk"} => 1 .. next - 1 \subseteq banked
    /\ Owned => status = "in_progress"

\* Init establishes it.
LEMMA JobInit == Init => JobInv
<1> SUFFICES ASSUME Init PROVE JobInv
    OBVIOUS
<1>1. /\ args.resume = FALSE /\ cmd.resume = FALSE /\ "resume" \in DOMAIN cmd
      /\ pc = "out" /\ lpc = "idle" /\ status = "absent" /\ banked = {} /\ next = 1
      /\ resuming = FALSE /\ declined = FALSE
    BY SMT DEF Init, CliInit, WizardArgs
<1>2. next \in 1 .. Len(Out) + 1
    BY <1>1, OutAssumption, SMT
<1> QED
    BY <1>1, <1>2, Zenon DEF JobInv, Fresh, Owned, GivenUp

\* Steps of the process keep it.
LEMMA JobCli == JobInv /\ CliStep /\ UNCHANGED <<launch, edits, venv>> => JobInv'
<1> SUFFICES ASSUME JobInv, CliStep, UNCHANGED <<launch, edits, venv>> PROVE JobInv'
    OBVIOUS
<1> USE OutAssumption DEF JobInv, Fresh, Owned, GivenUp, launch, job, streaming
<1>1. CASE ReadModel
    <2>1. /\ pc = "read" /\ UNCHANGED <<args, status, banked, next>>
          /\ resuming' = FALSE \/ (resuming' = TRUE /\ status # "absent")
          /\ resuming' = FALSE => status = "absent" \/ ~args.resume
          /\ pc' = IF resuming' THEN "verify" ELSE "jobstart"
        BY <1>1, Zenon DEF ReadModel
    <2>2. CASE resuming' = FALSE
        <3>1. /\ pc' = "jobstart" /\ lpc = "idle" /\ next' = 1
              /\ lpc' = lpc /\ mode' = mode /\ cmd' = cmd /\ declined' = declined
              /\ args' = args /\ status' = status /\ banked' = banked
            BY <2>1, <2>2, SMT
        <3>0. status = "absent" \/ (~args.resume /\ (mode = "wizard" => declined))
            BY <2>1, <2>2, Zenon
        <3>2. status' = "absent" \/ (~args'.resume /\ (mode' = "wizard" => declined'))
            BY <3>1, <3>0
        <3>3. 1 .. next' - 1 \subseteq banked'
            BY <3>1, SMT
        <3>4. /\ next' \in 1 .. Len(Out) + 1 /\ status \in {"absent", "in_progress", "complete"}
              /\ banked \subseteq Tensors /\ declined \in BOOLEAN /\ args.resume \in BOOLEAN
              /\ "resume" \in DOMAIN cmd /\ cmd.resume \in BOOLEAN
              /\ status = "absent" => banked = {}
            BY <2>1, <3>1, Zenon
        <3> QED
            BY <2>2, <3>1, <3>2, <3>3, <3>4, Zenon
    <2>3. CASE resuming' = TRUE
        BY <2>1, <2>3, SMT
    <2> QED
        BY <2>1, <2>2, <2>3
<1>2. ASSUME NEW s \in 1 .. Len(Out) + 1, Verify(s) PROVE JobInv'
    BY <1>2, SMT DEF Verify
<1>3. CASE JobStart
    BY <1>3, SMT DEF JobStart
<1>4. CASE TensorStart
    <2>1. CASE resuming \/ next > 1
        <3>1. /\ pc = "tensor" /\ pc' = "chunk" /\ next' = next /\ next \in Tensors
              /\ resuming' = resuming /\ args' = args /\ cmd' = cmd
              /\ lpc' = lpc /\ mode' = mode /\ declined' = declined
              /\ status' = status /\ banked' = banked
            BY <1>4, <2>1, SMT DEF TensorStart
        <3>2. status = "in_progress"
            BY <2>1, <3>1, SMT
        <3> QED
            BY <3>1, <3>2, Zenon
    <2>2. CASE ~(resuming \/ next > 1)
        <3>1. /\ next = 1 /\ next' = 1 /\ pc' = "chunk" /\ lpc = "idle"
              /\ status' = "in_progress" /\ banked' = {} /\ next \in Tensors
              /\ resuming' = resuming /\ args' = args /\ cmd' = cmd
              /\ lpc' = lpc /\ mode' = mode /\ declined' = declined
            BY <1>4, <2>2, SMT DEF TensorStart
        <3>2. 1 .. next' - 1 \subseteq banked'
            BY <3>1, SMT
        <3> QED
            BY <3>1, <3>2, Zenon
    <2> QED
        BY <2>1, <2>2, Zenon
<1>5. ASSUME NEW n, ChunkDone(n) PROVE JobInv'
    BY <1>5, SMT DEF ChunkDone
<1>6. CASE Commit
    BY <1>6, SMT DEF Commit, Tensors
<1>7. CASE Complete
    BY <1>7, SMT DEF Complete, Tensors
<1>8. CASE WriteReport
    BY <1>8, SMT DEF WriteReport
<1>9. CASE Return
    BY <1>9, SMT DEF Return
<1>10. CASE Raise
    BY <1>10, SMT DEF Raise
<1>11. CASE Kill
    BY <1>11, SMT DEF Kill
<1> HIDE DEF JobInv
<1> QED
    BY <1>1, <1>2, <1>3, <1>4, <1>5, <1>6, <1>7, <1>8, <1>9, <1>10, <1>11 DEF CliStep

\* Every step keeps it.
LEMMA JobNext == JobInv /\ [Next]_vars => JobInv'
<1> SUFFICES ASSUME JobInv, [Next]_vars PROVE JobInv'
    OBVIOUS
<1> USE DEF JobInv, Fresh, Owned, GivenUp, job, streaming, cliVars, launch
<1>1. ASSUME NEW m, NEW c, "resume" \in DOMAIN c, c.resume \in BOOLEAN, Launch(m, c)
      PROVE  JobInv'
    <2>1. /\ pc = "out" /\ pc' = pc /\ lpc' = "venv" /\ cmd' = c /\ declined' = FALSE
          /\ args' = args /\ resuming' = resuming /\ next' = next
          /\ status' = status /\ banked' = banked
        BY <1>1, Zenon DEF Launch
    <2> QED
        BY <1>1, <2>1, Zenon
<1>2. CASE Die
    BY <1>2, SMT DEF Die
<1>3. CASE EnsureVenv \/ CheckStamp \/ BeginInstall \/ Install \/ Touch
    BY <1>3, SMT DEF EnsureVenv, CheckStamp, BeginInstall, Install, Touch
<1>4. CASE Ready
    BY <1>4, SMT DEF Ready
<1>5. ASSUME NEW dir \in BOOLEAN, AskModel(dir) PROVE JobInv'
    BY <1>5, SMT DEF AskModel
<1>6. CASE AskVocab
    BY <1>6, SMT DEF AskVocab
<1>7. ASSUME NEW reply \in SizeReplies, AskRam(reply) PROVE JobInv'
    BY <1>7, SMT DEF AskRam
<1>8. ASSUME NEW yes \in BOOLEAN, AskResume(yes) PROVE JobInv'
    <2>1. /\ pc = "out" /\ pc' = pc /\ lpc' = "exec" /\ mode' = mode
          /\ args' = args /\ resuming' = resuming /\ next' = next
          /\ status' = status /\ banked' = banked
        BY <1>8, SMT DEF AskResume
    <2>2. CASE status = "absent"
        <3>1. cmd' = cmd /\ declined' = declined
            BY <1>8, <2>2, Zenon DEF AskResume
        <3> QED
            BY <2>1, <2>2, <3>1, Zenon
    <2>3. CASE status # "absent"
        <3>1. cmd' = [cmd EXCEPT !.resume = yes] /\ declined' = ~yes
            BY <1>8, <2>3, Zenon DEF AskResume
        <3>2. "resume" \in DOMAIN cmd' /\ cmd'.resume = yes
            BY <3>1, Zenon
        <3>3. cmd'.resume \in BOOLEAN /\ declined' \in BOOLEAN
              /\ (cmd'.resume \/ (~cmd'.resume /\ declined'))
            BY <1>8, <3>1, <3>2, Zenon
        <3> QED
            BY <2>1, <3>2, <3>3, Zenon
    <2> QED
        BY <2>2, <2>3
<1>9. CASE Exec
    <2>1. /\ lpc = "exec" /\ lpc' = "idle" /\ mode' = mode /\ cmd' = cmd /\ declined' = declined
          /\ args' = cmd /\ resuming' = FALSE /\ next' = 1 /\ status' = status /\ banked' = banked
        BY <1>9, Zenon DEF Exec, Main
    <2>2. pc' = "read" \/ pc' = "out"
        BY <1>9, Zenon DEF Exec, Main
    <2>3. next' \in 1 .. Len(Out) + 1
        BY <2>1, OutAssumption, SMT
    <2>4. status = "absent" \/ cmd.resume \/ (~cmd.resume /\ (mode = "wizard" => declined))
        BY <2>1, Zenon
    <2> QED
        BY <2>1, <2>2, <2>3, <2>4, Zenon
<1>10. CASE CliStep /\ UNCHANGED <<launch, edits, venv>>
    BY <1>10, JobCli
<1>11. CASE EditProject
    BY <1>11, SMT DEF EditProject
<1>12. ASSUME NEW kept \in BOOLEAN, LoseVenv(kept) PROVE JobInv'
    BY <1>12, SMT DEF LoseVenv
<1>13. CASE UNCHANGED vars
    BY <1>13, SMT DEF vars
<1>14. "resume" \in DOMAIN WizardArgs /\ WizardArgs.resume \in BOOLEAN
    BY SMT DEF WizardArgs
<1>15. \A c \in Commands : "resume" \in DOMAIN c /\ c.resume \in BOOLEAN
    BY CommandsAssumption, SMT DEF CommandLines
<1> HIDE DEF JobInv
<1> QED
    BY <1>1, <1>2, <1>3, <1>4, <1>5, <1>6, <1>7, <1>8, <1>9, <1>10, <1>11, <1>12, <1>13,
       <1>14, <1>15 DEF Next

\* The manifest keeps what it records.
Kept == banked \subseteq banked' /\ (status = "complete" => UNCHANGED job)

\* What a step of the process may do to the manifest.
LEMMA KeptOrGivenUp ==
    JobInv /\ CliStep => Kept \/ (~args.resume /\ (mode = "wizard" => declined))
<1> SUFFICES ASSUME JobInv, CliStep PROVE Kept \/ (~args.resume /\ (mode = "wizard" => declined))
    OBVIOUS
<1>1. CASE TensorStart
    <2>1. CASE resuming \/ next > 1
        BY <1>1, <2>1, SMT DEF TensorStart, Kept, job
    <2>2. CASE status = "absent" /\ ~(resuming \/ next > 1)
        BY <2>2, <1>1, SMT DEF JobInv, TensorStart, Kept, job
    <2>3. CASE status # "absent" /\ ~(resuming \/ next > 1)
        <3>1. next = 1
            BY <1>1, <2>3, SMT DEF TensorStart, Tensors
        <3>2. Fresh
            BY <1>1, <2>3, <3>1, Zenon DEF TensorStart, Fresh
        <3> QED
            BY <2>3, <3>2, Zenon DEF JobInv, GivenUp
    <2> QED
        BY <2>1, <2>2, <2>3
<1>2. CASE Commit
    BY <1>2, SMT DEF JobInv, Owned, Commit, Kept, job
<1>3. CASE Complete
    BY <1>3, SMT DEF Complete, Kept, job
<1>4. CASE UNCHANGED job
    BY <1>4, SMT DEF Kept, job
<1>5. CliStep => TensorStart \/ Commit \/ Complete \/ UNCHANGED job
    BY SMT DEF CliStep, ReadModel, Verify, JobStart, ChunkDone, WriteReport, Return, Raise, Kill, job
<1> QED
    BY <1>1, <1>2, <1>3, <1>4, <1>5

\* Only the process writes the manifest.
LEMMA OnlyProcessSaves == [Next]_vars => CliStep \/ UNCHANGED job
BY SMT DEF Next, vars, cliVars, launch, venv, job, Launch, Die, EnsureVenv, CheckStamp, BeginInstall, Install,
       Touch, Ready, AskModel, AskVocab, AskRam, AskResume, Exec, Main, EditProject, LoseVenv

\* For any tensors and command lines, whatever is killed or fails, recorded work
\* is dropped only by a process without --resume, and when the wizard started
\* it, after its offer was declined (featherquant.sh:214-222, engine.py:202).
THEOREM OnlyGivenUpWorkIsLost == Spec => ProgressOnlyGivenUp
<1>1. JobInv /\ [Next]_vars =>
        [ \/ banked \subseteq banked' /\ (status = "complete" => UNCHANGED job)
          \/ ~args.resume /\ (mode = "wizard" => declined) ]_vars
    <2> SUFFICES ASSUME JobInv, [Next]_vars
                 PROVE  Kept \/ (~args.resume /\ (mode = "wizard" => declined))
        BY DEF Kept
    <2>1. CASE CliStep
        BY <2>1, KeptOrGivenUp
    <2>2. CASE UNCHANGED job
        BY <2>2, SMT DEF Kept, job
    <2> QED
        BY <2>1, <2>2, OnlyProcessSaves
<1> QED
    BY <1>1, JobInit, JobNext, PTL DEF Spec, ProgressOnlyGivenUp
-----------------------------------------------------------------------------
(* How a process ends.                                                     *)

ExitInv ==
    /\ CleanExit
    /\ lpc # "idle" => pc = "out" /\ ~live /\ code # "0"
    /\ pc \in {"report", "return"} => status = "complete" /\ banked = Tensors
    /\ pc = "return" => ~live /\ (args.report => reported)

\* Init establishes it.
LEMMA ExitInit == Init => ExitInv
BY Zenon DEF Init, CliInit, ExitInv, CleanExit

\* Steps of the process keep it.
LEMMA ExitCli == JobInv /\ ExitInv /\ CliStep /\ UNCHANGED <<launch, edits, venv>> => ExitInv'
<1> SUFFICES ASSUME JobInv, ExitInv, CliStep, UNCHANGED <<launch, edits, venv>> PROVE ExitInv'
    OBVIOUS
<1> USE DEF ExitInv, CleanExit
<1>1. CASE Complete
    <2>1. banked = Tensors
        <3>1. /\ next \in 1 .. Len(Out) + 1 /\ next \notin 1 .. Len(Out)
              /\ 1 .. next - 1 \subseteq banked /\ banked \subseteq 1 .. Len(Out)
            BY <1>1, Zenon DEF Complete, JobInv, Tensors
        <3>2. Len(Out) \in Nat
            BY OutAssumption, SMT
        <3>3. next - 1 = Len(Out)
            BY <3>1, <3>2, SMT
        <3> QED
            BY <3>1, <3>3, Zenon DEF Tensors
    <2> QED
        BY <1>1, <2>1, SMT DEF Complete, launch
<1>2. CASE WriteReport
    BY <1>2, SMT DEF WriteReport, job, launch
<1>3. CASE Return
    BY <1>3, SMT DEF Return, job, launch
<1>4. CASE Raise
    BY <1>4, SMT DEF Raise, launch
<1>5. CASE Kill
    BY <1>5, SMT DEF Kill, launch
<1>6. CASE \/ ReadModel \/ (\E s \in 1 .. Len(Out) + 1 : Verify(s)) \/ JobStart \/ TensorStart
          \/ (\E n \in 1 .. Out[next] : ChunkDone(n)) \/ Commit
    <2>1. pc # "out" /\ pc' \notin {"out", "report", "return"} /\ lpc' = lpc
        BY <1>6, SMT DEF ReadModel, Verify, JobStart, TensorStart, ChunkDone, Commit, launch
    <2> QED
        BY <2>1, SMT
<1> QED
    BY <1>1, <1>2, <1>3, <1>4, <1>5, <1>6 DEF CliStep

\* Every step keeps it.
LEMMA ExitNext == JobInv /\ ExitInv /\ [Next]_vars => ExitInv'
<1> SUFFICES ASSUME JobInv, ExitInv, [Next]_vars PROVE ExitInv'
    OBVIOUS
<1> USE DEF ExitInv, CleanExit, job, cliVars, launch
<1>1. ASSUME NEW m, NEW c, Launch(m, c) PROVE ExitInv'
    BY <1>1, SMT DEF Launch
<1>2. CASE Die
    BY <1>2, SMT DEF Die
<1>3. CASE Exec
    BY <1>3, SMT DEF Exec, Main
<1>4. CASE CliStep /\ UNCHANGED <<launch, edits, venv>>
    BY <1>4, ExitCli
<1>5. CASE UNCHANGED cliVars /\ (lpc' # "idle" => lpc # "idle")
    BY <1>5, SMT
<1>6. UNCHANGED vars => UNCHANGED cliVars /\ lpc' = lpc
    BY SMT DEF vars
<1>7. EnsureVenv \/ CheckStamp \/ BeginInstall \/ Install \/ Touch \/ Ready \/ AskVocab \/ EditProject
        => UNCHANGED cliVars /\ (lpc' # "idle" => lpc # "idle")
    BY SMT DEF EnsureVenv, CheckStamp, BeginInstall, Install, Touch, Ready, AskVocab, EditProject
<1>8. /\ \A dir : AskModel(dir) => UNCHANGED cliVars /\ lpc # "idle"
      /\ \A reply : AskRam(reply) => UNCHANGED cliVars /\ lpc # "idle"
      /\ \A yes : AskResume(yes) => UNCHANGED cliVars /\ lpc # "idle"
      /\ \A kept : LoseVenv(kept) => UNCHANGED cliVars /\ lpc' = lpc
    BY SMT DEF AskModel, AskRam, AskResume, LoseVenv
<1> HIDE DEF ExitInv, CleanExit, job, cliVars, launch
<1> QED
    BY <1>1, <1>2, <1>3, <1>4, <1>5, <1>6, <1>7, <1>8 DEF Next

\* A process that was not killed has restored the terminal, and exit code 0
\* says that everything is committed and the report written (cli.py:81-98).
THEOREM ExitsCleanly == Spec => []CleanExit
<1>1. ExitInv => CleanExit
    BY DEF ExitInv
<1> QED
    BY <1>1, JobInit, JobNext, ExitInit, ExitNext, PTL DEF Spec
-----------------------------------------------------------------------------
(* Types.                                                                  *)

\* The recursive definition of UpTo defines a function, and it never falls.
LEMMA UpToDefined ==
    /\ Len(Out) \in Nat
    /\ UpTo \in [0 .. Len(Out) -> Nat]
    /\ UpTo[0] = 0
    /\ \A i \in 1 .. Len(Out) : UpTo[i] = UpTo[i - 1] + Out[i]
    /\ \A i, j \in 0 .. Len(Out) : i <= j => UpTo[i] <= UpTo[j]
<1>1. Len(Out) \in Nat /\ Out \in [1 .. Len(Out) -> Nat]
    BY OutAssumption
<1>2. PICK f : IsSums(f, Out, Len(Out))
    BY <1>1, Sums
<1>3. IsSums(UpTo, Out, Len(Out))
    BY <1>2, Zenon DEF IsSums, UpTo
<1> QED
    BY <1>1, <1>3, SumsOf

\* What the fields of a command line are, and that each may be replaced.
LEMMA CommandTypes ==
    /\ WizardArgs \in CommandLines /\ WizardArgs.size \in Sizes
    /\ \A c \in CommandLines : c.size \in Sizes /\ c.report \in BOOLEAN
    /\ \A c \in CommandLines, b \in BOOLEAN :
         /\ [c EXCEPT !.dir = b] \in CommandLines
         /\ [c EXCEPT !.vocab = b] \in CommandLines
         /\ [c EXCEPT !.resume = b] \in CommandLines
    /\ \A c \in CommandLines, size \in Sizes :
         [c EXCEPT !.size = size] \in CommandLines
    /\ \A size \in Sizes : RamOf(size) \in Sizes
<1>1. [halves |-> 4, unit |-> "G"] \in Sizes
    BY SMT DEF Sizes, Units
<1>2. WizardArgs \in CommandLines /\ WizardArgs.size \in Sizes
    BY <1>1, SMT DEF WizardArgs, CommandLines
<1>3. \A c \in CommandLines : c.size \in Sizes /\ c.report \in BOOLEAN
    BY SMT DEF CommandLines
<1>4. ASSUME NEW c \in CommandLines, NEW b \in BOOLEAN
      PROVE  /\ [c EXCEPT !.dir = b] \in CommandLines
             /\ [c EXCEPT !.vocab = b] \in CommandLines
             /\ [c EXCEPT !.resume = b] \in CommandLines
    BY SMT DEF CommandLines
<1>5. ASSUME NEW c \in CommandLines, NEW size \in Sizes
      PROVE  [c EXCEPT !.size = size] \in CommandLines
    BY SMT DEF CommandLines
<1>6. ASSUME NEW size \in Sizes PROVE RamOf(size) \in Sizes
    <2>1. "G" \in Units \cup {"junk"}
        BY DEF Units
    <2> QED
        BY <2>1, SMT DEF Sizes, RamOf
<1> QED
    BY <1>2, <1>3, <1>4, <1>5, <1>6

\* Init establishes the types.
LEMMA TypeInit == Init => TypeOK
<1> SUFFICES ASSUME Init PROVE TypeOK
    OBVIOUS
<1>1. Len(Out) \in Nat
    BY UpToDefined
<1>2. WizardArgs \in CommandLines /\ WizardArgs.size \in Sizes
    BY CommandTypes
<1>3. args.size \in Sizes
    BY <1>2, SMT DEF Init, CliInit, WizardArgs
<1>4. args \in CommandLines
    BY <1>3, SMT DEF Init, CliInit, CommandLines
<1>5. CliTypeOK
    <2>1. resuming \in BOOLEAN /\ live \in BOOLEAN /\ reported \in BOOLEAN
        BY Zenon DEF Init, CliInit
    <2> QED
        BY <1>1, <1>4, <2>1, SMT DEF Init, CliInit, CliTypeOK
<1>6. declined \in BOOLEAN /\ python \in BOOLEAN
    BY Zenon DEF Init
<1> QED
    BY <1>2, <1>5, <1>6, EditsAssumption, SMT DEF Init, CliInit, TypeOK, NoDeps

\* Steps of the process keep them.
LEMMA TypeCli == JobInv /\ CliTypeOK /\ CliStep => CliTypeOK'
<1> SUFFICES ASSUME JobInv, CliTypeOK, CliStep PROVE CliTypeOK'
    OBVIOUS
<1> USE OutAssumption DEF CliTypeOK, job, streaming
<1>1. CASE ReadModel
    BY <1>1, SMT DEF ReadModel
<1>2. ASSUME NEW s \in 1 .. Len(Out) + 1, Verify(s) PROVE CliTypeOK'
    BY <1>2, SMT DEF Verify
<1>3. CASE JobStart
    <2>1. UpTo[Len(Out)] \in Nat /\ UpTo[next - 1] \in Nat
        <3>1. Len(Out) \in 0 .. Len(Out) /\ next - 1 \in 0 .. Len(Out)
            BY UpToDefined
        <3> QED
            BY <3>1, UpToDefined
    <2> QED
        BY <1>3, <2>1, SMT DEF JobStart
<1>4. CASE TensorStart
    <2>1. /\ pc' = "chunk" /\ part' = 0 /\ UNCHANGED <<code, args, resuming, next, bar, live, reported>>
          /\ UNCHANGED job \/ (status' = "in_progress" /\ banked' = {})
        BY <1>4, Zenon DEF TensorStart
    <2> QED
        BY <2>1, SMT
<1>5. ASSUME pc = "chunk", NEW n \in 1 .. Out[next], ChunkDone(n) PROVE CliTypeOK'
    <2>1. n \in Nat
        BY SMT DEF JobInv, Tensors
    <2>2. /\ bar \in [total : Nat, completed : Nat] /\ part \in Nat
          /\ bar' = [bar EXCEPT !.completed = @ + n] /\ part' = part + n
        BY <1>5, Zenon DEF ChunkDone
    <2>3. bar' \in [total : Nat, completed : Nat] /\ part' \in Nat
        BY ONLY <2>1, <2>2, SMT
    <2> QED
        BY <1>5, <2>3, SMT DEF ChunkDone
<1>6. CASE Commit
    BY <1>6, SMT DEF Commit, JobInv, Tensors
<1>7. CASE Complete
    BY <1>7, SMT DEF Complete
<1>8. CASE WriteReport
    <2>1. reported' \in BOOLEAN /\ live' \in BOOLEAN
        BY <1>8, CommandTypes, Zenon DEF WriteReport
    <2> QED
        BY <1>8, <2>1, SMT DEF WriteReport
<1>9. CASE Return
    <2>1. live' \in BOOLEAN
        BY <1>9, Zenon DEF Return
    <2> QED
        BY <1>9, <2>1, SMT DEF Return
<1>10. CASE Raise
    <2>1. live' \in BOOLEAN
        BY <1>10, Zenon DEF Raise
    <2> QED
        BY <1>10, <2>1, SMT DEF Raise
<1>11. CASE Kill
    BY <1>11, SMT DEF Kill
<1> HIDE DEF CliTypeOK
<1> QED
    BY <1>1, <1>2, <1>3, <1>4, <1>5, <1>6, <1>7, <1>8, <1>9, <1>10, <1>11 DEF CliStep

\* Every step keeps them.
LEMMA TypeNext == JobInv /\ TypeOK /\ [Next]_vars => TypeOK'
<1> SUFFICES ASSUME JobInv, TypeOK, [Next]_vars PROVE TypeOK'
    OBVIOUS
<1> USE EditsAssumption DEF TypeOK, edits
<1>1. ASSUME NEW m \in {"args", "wizard"}, NEW c \in CommandLines, Launch(m, c) PROVE TypeOK'
    <2>1. c.size \in Sizes
        BY CommandTypes
    <2>2. live' \in BOOLEAN /\ declined' \in BOOLEAN
        BY <1>1, Zenon DEF Launch
    <2> QED
        BY <1>1, <2>1, <2>2, SMT DEF Launch, CliTypeOK, job, streaming, venv
<1>2. CASE Die
    BY <1>2, SMT DEF Die, CliTypeOK, job, streaming, venv
<1>3. CASE EnsureVenv \/ CheckStamp \/ BeginInstall \/ Install \/ Touch \/ Ready
    <2>1. /\ python' \in BOOLEAN /\ UNCHANGED <<cliVars, mode, cmd, declined, project>>
          /\ raced' = raced \/ raced' = {}
        BY <1>3, Zenon DEF EnsureVenv, CheckStamp, BeginInstall, Install, Touch, Ready, venv, edits
    <2>2. /\ lpc' \in {"stamp", "sync", "install", "touch", "ready", "model", "exec"} /\ lpc # "idle"
          /\ deps' \in -MaxEdits .. MaxEdits /\ stamp' \in 0 .. MaxEdits
        BY <1>3, SMT DEF EnsureVenv, CheckStamp, BeginInstall, Install, Touch, Ready, NoDeps,
               PartialDeps, venv
    <2>3. raced' \subseteq 1 .. MaxEdits
        BY <2>1, Zenon
    <2>4. mode' = mode /\ cmd' = cmd /\ declined' = declined /\ project' = project /\ pc' = pc
        BY <2>1, Zenon DEF cliVars
    <2>5. CliTypeOK'
        BY <2>1, SMT DEF cliVars, CliTypeOK, job, streaming
    <2> QED
        BY <2>1, <2>2, <2>3, <2>4, <2>5, SMT
<1>4. ASSUME NEW dir \in BOOLEAN, AskModel(dir) PROVE TypeOK'
    <2>1. cmd' \in CommandLines
        BY <1>4, CommandTypes, Zenon DEF AskModel
    <2> QED
        BY <1>4, <2>1, SMT DEF AskModel, cliVars, CliTypeOK, job, streaming, venv
<1>5. CASE AskVocab
    <2>1. cmd' \in CommandLines
        BY <1>5, CommandTypes, Zenon DEF AskVocab
    <2> QED
        BY <1>5, <2>1, SMT DEF AskVocab, cliVars, CliTypeOK, job, streaming, venv
<1>6. ASSUME NEW reply \in SizeReplies, AskRam(reply) PROVE TypeOK'
    <2>1. reply \in Sizes
        BY SizeRepliesAssumption
    <2>3. cmd' \in CommandLines
        BY <1>6, <2>1, CommandTypes, Zenon DEF AskRam
    <2> QED
        BY <1>6, <2>3, SMT DEF AskRam, cliVars, CliTypeOK, job, streaming, venv
<1>7. ASSUME NEW yes \in BOOLEAN, AskResume(yes) PROVE TypeOK'
    <2>1. cmd' \in CommandLines /\ declined' \in BOOLEAN
        BY <1>7, CommandTypes, Zenon DEF AskResume
    <2> QED
        BY <1>7, <2>1, SMT DEF AskResume, cliVars, CliTypeOK, job, streaming, venv
<1>8. CASE Exec
    <2>1. live' \in BOOLEAN /\ resuming' \in BOOLEAN /\ reported' \in BOOLEAN
        BY <1>8, Zenon DEF Exec, Main
    <2>2. 1 \in 1 .. Len(Out) + 1
        BY UpToDefined
    <2> QED
        BY <1>8, <2>1, <2>2, SMT DEF Exec, Main, CliTypeOK, job, venv
<1>9. CASE CliStep /\ UNCHANGED <<launch, edits, venv>>
    <2>1. CliTypeOK' /\ JobInv'
        BY <1>9, TypeCli, JobCli
    <2> QED
        BY <1>9, <2>1, SMT DEF JobInv, launch, venv
<1>10. CASE EditProject
    BY <1>10, SMT DEF EditProject, cliVars, CliTypeOK, job, streaming, launch, venv
<1>11. ASSUME NEW kept \in BOOLEAN, LoseVenv(kept) PROVE TypeOK'
    <2>1. python' \in BOOLEAN
        BY <1>11, Zenon DEF LoseVenv
    <2> QED
        BY <1>11, <2>1, SMT DEF LoseVenv, NoDeps, cliVars, CliTypeOK, job, streaming, launch, venv
<1>12. CASE UNCHANGED vars
    BY <1>12, SMT DEF vars, cliVars, CliTypeOK, job, streaming, launch, venv
<1>13. WizardArgs \in CommandLines
    BY CommandTypes
<1> HIDE DEF TypeOK, edits
<1> QED
    BY <1>1, <1>2, <1>3, <1>4, <1>5, <1>6, <1>7, <1>8, <1>9, <1>10, <1>11, <1>12, <1>13,
       CommandsAssumption DEF Next

\* For any tensors, command lines, answers and edits every variable has its type.
THEOREM TypeCorrect == Spec => []TypeOK
BY JobInit, JobNext, TypeInit, TypeNext, PTL DEF Spec
-----------------------------------------------------------------------------
(* The bar.                                                                *)

\* The bar stands where the locals of the run are.
BarInv ==
    /\ bar.completed <= bar.total
    /\ pc = "tensor" => bar.completed = UpTo[next - 1]
    /\ pc = "chunk" => /\ part <= Out[next]
                       /\ bar.completed = UpTo[next - 1] + part
    /\ pc \in {"tensor", "chunk"} => bar.total = UpTo[Len(Out)]
    /\ pc \in {"report", "return"} => bar.completed = bar.total

\* Steps of the process keep it.
LEMMA BarCli == JobInv /\ CliTypeOK /\ BarInv /\ CliStep => BarInv'
<1> SUFFICES ASSUME JobInv, CliTypeOK, BarInv, CliStep PROVE BarInv'
    OBVIOUS
<1>1. /\ next \in 1 .. Len(Out) + 1 /\ Len(Out) \in Nat
      /\ pc = "chunk" => next \in 1 .. Len(Out)
      /\ bar \in [total : Nat, completed : Nat] /\ part \in Nat
    BY OutAssumption, SMT DEF JobInv, CliTypeOK, Tensors
<1>2. /\ UpTo[next - 1] \in Nat /\ UpTo[Len(Out)] \in Nat /\ UpTo[next - 1] <= UpTo[Len(Out)]
      /\ next \in 1 .. Len(Out) => /\ UpTo[next] = UpTo[next - 1] + Out[next]
                                   /\ Out[next] \in Nat /\ UpTo[next] <= UpTo[Len(Out)]
    <2>1. next - 1 \in 0 .. Len(Out) /\ Len(Out) \in 0 .. Len(Out) /\ next - 1 <= Len(Out)
        BY <1>1
    <2>2. next \in 1 .. Len(Out) => next \in 0 .. Len(Out) /\ next <= Len(Out) /\ Out[next] \in Nat
        BY <1>1, OutAssumption
    <2> QED
        BY <2>1, <2>2, UpToDefined
<1>3. CASE JobStart
    BY <1>1, <1>2, <1>3, SMT DEF JobStart, BarInv
<1>4. CASE TensorStart
    <2>1. /\ pc = "tensor" /\ pc' = "chunk" /\ part' = 0 /\ bar' = bar /\ next' = next
          /\ next \in 1 .. Len(Out)
        BY <1>4, Zenon DEF TensorStart, Tensors
    <2> QED
        BY <1>1, <1>2, <2>1, SMT DEF BarInv
<1>5. ASSUME pc = "chunk", NEW n \in 1 .. Out[next], ChunkDone(n) PROVE BarInv'
    <2>1. /\ pc' = "chunk" /\ next' = next /\ part' = part + n /\ part + n <= Out[next]
          /\ bar'.total = bar.total /\ bar'.completed = bar.completed + n
        BY <1>1, <1>5, SMT DEF ChunkDone
    <2>2. n \in Nat
        BY <1>1, <1>2, <1>5
    <2> QED
        BY <1>1, <1>2, <1>5, <2>1, <2>2, SMT DEF BarInv
<1>6. CASE Commit
    <2>1. pc = "chunk" /\ pc' = "tensor" /\ part = Out[next] /\ next' = next + 1 /\ bar' = bar
        BY <1>6, Zenon DEF Commit
    <2>2. next' - 1 = next
        BY <1>1, <2>1
    <2> QED
        BY <1>1, <1>2, <2>1, <2>2, SMT DEF BarInv
<1>7. CASE Complete
    <2>1. pc = "tensor" /\ pc' = "report" /\ bar' = bar /\ next \notin 1 .. Len(Out)
        BY <1>7, SMT DEF Complete, Tensors, streaming
    <2>2. next - 1 = Len(Out)
        BY <1>1, <2>1, SMT
    <2> QED
        BY <2>1, <2>2, <1>1, SMT DEF BarInv
<1>8. CASE WriteReport
    BY <1>8, SMT DEF WriteReport, streaming, BarInv
<1>9. CASE ReadModel \/ (\E s \in 1 .. Len(Out) + 1 : Verify(s)) \/ Return \/ Raise \/ Kill
    <2>1. bar' = bar /\ pc' \notin {"tensor", "chunk", "report", "return"}
        BY <1>9, SMT DEF ReadModel, Verify, Return, Raise, Kill, streaming
    <2> QED
        BY <2>1, SMT DEF BarInv
<1> QED
    BY <1>3, <1>4, <1>5, <1>6, <1>7, <1>8, <1>9 DEF CliStep

\* Every step keeps it.
LEMMA BarNext == JobInv /\ TypeOK /\ BarInv /\ [Next]_vars => BarInv'
<1> SUFFICES ASSUME JobInv, TypeOK, BarInv, [Next]_vars PROVE BarInv'
    OBVIOUS
<1>1. CASE CliStep
    BY <1>1, BarCli DEF TypeOK
<1>2. CASE Exec
    <2>1. pc' \notin {"tensor", "chunk", "report", "return"} /\ bar'.completed <= bar'.total
        BY <1>2, SMT DEF Exec, Main
    <2> QED
        BY <2>1, Zenon DEF BarInv
<1>3. CASE UNCHANGED <<pc, next, part, bar>>
    BY <1>3, SMT DEF BarInv
<1>4. [Next]_vars => CliStep \/ Exec \/ UNCHANGED <<pc, next, part, bar>>
    BY SMT DEF Next, vars, cliVars, streaming, Launch, Die, EnsureVenv, CheckStamp, BeginInstall, Install, Touch,
           Ready, AskModel, AskVocab, AskRam, AskResume, EditProject, LoseVenv
<1> QED
    BY <1>1, <1>2, <1>3, <1>4

\* For any tensors, what the events add up to never passes the planned total,
\* and is the total once the last tensor is committed, also in a run resumed
\* before tensors that had been committed (engine.py:266-272, ui.py:106-111).
THEOREM BarAddsUp == Spec => []BarHonest
<1>1. Init => BarInv
    BY SMT DEF Init, CliInit, BarInv
<1>2. BarInv => BarHonest
    BY DEF BarInv, BarHonest
<1> QED
    BY <1>1, <1>2, BarNext, JobInit, JobNext, TypeInit, TypeNext, PTL DEF Spec
=============================================================================
