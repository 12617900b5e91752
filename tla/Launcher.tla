------------------------------ MODULE Launcher ------------------------------
(***************************************************************************)
(* featherquant.sh: the bootstrap of the virtual environment with its      *)
(* stamp file, the wizard, and the exec of the command line, composed with *)
(* the process it becomes (Cli).                                           *)
(*                                                                         *)
(* Abstractions.                                                           *)
(*  - pyproject.toml is the number of its last edit; a stamp is the edit   *)
(*    that was the last one when it was touched, 0 when there is none, so  *)
(*    `-nt` compares the two.  `uv pip install` reads the file once, when  *)
(*    it begins (BeginInstall).                                            *)
(*  - A prompt that asks again changes nothing and is no step.  Format and *)
(*    output path take any answer; there is one output path.               *)
(*  - Nothing else runs on the output, and the test seams are off.         *)
(***************************************************************************)
EXTENDS Cli

CONSTANTS
    Commands,   \* command lines given to the launcher
    SizeReplies,\* what may be typed at the RAM prompt
    MaxEdits    \* bound on edits of pyproject.toml

VARIABLES
    lpc,        \* what the launcher does next; "idle" before and after exec
    mode,       \* "args" or "wizard"
    cmd,        \* the command line that is being built
    declined,   \* the offer to resume was declined
    project,    \* the last edit of pyproject.toml
    python,     \* the interpreter of the venv is there
    deps,       \* the edit whose dependencies are installed, negative while
                \* its install has begun and not ended
    stamp,      \* the last edit when the stamp was touched
    raced       \* the edits made since the last install began and before it
                \* was vouched for: a history variable, for StampIsTrue only

launch == <<lpc, mode, cmd, declined>>
edits == <<project, raced>>
venv == <<python, deps, stamp>>
vars == <<cliVars, launch, edits, venv>>

ASSUME EditsAssumption == MaxEdits \in Nat \ {0}
ASSUME CommandsAssumption == Commands \subseteq CommandLines
ASSUME SizeRepliesAssumption == SizeReplies \subseteq Sizes

NoDeps == 0             \* nothing is installed
PartialDeps(e) == -e    \* the install of edit e has begun

WizardArgs == [dir |-> FALSE, vocab |-> FALSE, size |-> [halves |-> 4, unit |-> "G"],
               resume |-> FALSE, report |-> FALSE, ui |-> "rich"]

Init ==
    /\ CliInit
    /\ lpc = "idle" /\ mode = "args" /\ cmd = WizardArgs
    /\ declined = FALSE
    /\ project = 1 /\ raced = {}
    /\ python = FALSE /\ deps = NoDeps /\ stamp = 0

Launch(m, c) ==
    /\ lpc = "idle" /\ pc = "out"
    /\ mode' = m /\ cmd' = c /\ declined' = FALSE
    /\ lpc' = "venv" /\ code' = "none" /\ live' = FALSE
    /\ UNCHANGED <<pc, args, job, streaming, reported, edits, venv>>

\* die, a failing command under set -e, or a closed standard input.
Die ==
    /\ lpc # "idle"
    /\ lpc' = "idle" /\ code' = "1"
    /\ UNCHANGED <<pc, args, job, streaming, live, reported>>
    /\ UNCHANGED <<mode, cmd, declined, edits, venv>>

\* uv venv clears what the directory held.
EnsureVenv ==
    /\ lpc = "venv"
    /\ python' = TRUE
    /\ IF python THEN UNCHANGED <<deps, stamp>> ELSE deps' = NoDeps /\ stamp' = 0
    /\ lpc' = "stamp"
    /\ UNCHANGED <<cliVars, mode, cmd, declined, edits>>

UpToDate == stamp # 0 /\ stamp >= project

\* Mutant: the stamp is touched before the install.
TouchFirst ==
    /\ lpc = "stamp"
    /\ IF UpToDate THEN lpc' = "ready" /\ UNCHANGED stamp
       ELSE lpc' = "sync" /\ stamp' = project
    /\ UNCHANGED <<cliVars, mode, cmd, declined, edits, python, deps>>

\* No stamp, or a pyproject.toml newer than it: install.
CheckStamp ==
    /\ lpc = "stamp"
    /\ lpc' = IF UpToDate THEN "ready" ELSE "sync"
    /\ UNCHANGED <<cliVars, mode, cmd, declined, edits, venv>>

\* uv, which may have to be installed itself, has read pyproject.toml.
BeginInstall ==
    /\ lpc = "sync"
    /\ deps' = PartialDeps(project)
    /\ raced' = {}
    /\ lpc' = "install"
    /\ UNCHANGED <<cliVars, mode, cmd, declined, project, python, stamp>>

Install ==
    /\ lpc = "install"
    /\ deps' = -deps
    /\ lpc' = "touch"
    /\ UNCHANGED <<cliVars, mode, cmd, declined, edits, python, stamp>>

\* The stamp is newer than every edit so far, read by the install or not.
Touch ==
    /\ lpc = "touch"
    /\ stamp' = project
    /\ lpc' = "ready"
    /\ UNCHANGED <<cliVars, mode, cmd, declined, edits, python, deps>>

Ready ==
    /\ lpc = "ready"
    /\ lpc' = IF mode = "args" THEN "exec" ELSE "model"
    /\ UNCHANGED <<cliVars, mode, cmd, declined, edits, venv>>

\* A file, or a directory that holds a checkpoint.
AskModel(dir) ==
    /\ lpc = "model"
    /\ cmd' = [cmd EXCEPT !.dir = dir]
    /\ lpc' = IF dir THEN "vocab" ELSE "ram"
    /\ UNCHANGED <<cliVars, mode, declined, edits, venv>>

\* A vocab GGUF that exists, or is generated on the spot.
AskVocab ==
    /\ lpc = "vocab"
    /\ cmd' = [cmd EXCEPT !.vocab = TRUE]
    /\ lpc' = "ram"
    /\ UNCHANGED <<cliVars, mode, declined, edits, venv>>

\* The size handed on: bare numbers mean GB.
RamOf(reply) == IF reply.unit = "bare" THEN [reply EXCEPT !.unit = "G"] ELSE reply

\* A bare number, or one with a unit; anything else is asked again.
AskRam(reply) ==
    /\ lpc = "ram"
    /\ reply.unit \in {"bare", "K", "M", "G", "T"}
    /\ cmd' = [cmd EXCEPT !.size = RamOf(reply)]
    /\ lpc' = "resume"
    /\ UNCHANGED <<cliVars, mode, declined, edits, venv>>

\* Mutant: resuming is offered for interrupted jobs only.
AskResumeInterrupted(yes) ==
    /\ lpc = "resume"
    /\ IF status = "in_progress"
       THEN cmd' = [cmd EXCEPT !.resume = yes] /\ declined' = ~yes
       ELSE UNCHANGED <<cmd, declined>>
    /\ lpc' = "exec"
    /\ UNCHANGED <<cliVars, mode, edits, venv>>

\* A manifest, of a complete job too, makes the wizard offer to resume.
AskResume(yes) ==
    /\ lpc = "resume"
    /\ IF status # "absent"
       THEN cmd' = [cmd EXCEPT !.resume = yes] /\ declined' = ~yes
       ELSE UNCHANGED <<cmd, declined>>
    /\ lpc' = "exec"
    /\ UNCHANGED <<cliVars, mode, edits, venv>>

\* Mutant: the command is run by the launcher, which waits for it.
ExecAndWait ==
    /\ lpc = "exec"
    /\ python /\ deps # NoDeps
    /\ Main(cmd)
    /\ UNCHANGED <<launch, edits, venv>>

\* run_cmd: without an entry point that runs, the launcher dies (Die).
Exec ==
    /\ lpc = "exec"
    /\ python /\ deps # NoDeps
    /\ Main(cmd)
    /\ lpc' = "idle"
    /\ UNCHANGED <<mode, cmd, declined, edits, venv>>
-----------------------------------------------------------------------------
(* What happens around the launcher.                                       *)

EditProject ==
    /\ project < MaxEdits
    /\ project' = project + 1
    /\ raced' = IF lpc \in {"install", "touch"} THEN raced \cup {project'} ELSE raced
    /\ UNCHANGED <<cliVars, launch, venv>>

\* The venv is deleted, or the interpreter it links to goes away.
LoseVenv(kept) ==
    /\ lpc \in {"idle", "model", "vocab", "ram", "resume"} /\ pc = "out"
    /\ python' = FALSE
    /\ IF kept THEN UNCHANGED <<deps, stamp>> ELSE deps' = NoDeps /\ stamp' = 0
    /\ UNCHANGED <<cliVars, launch, edits>>

Next ==
    \/ \E c \in Commands : Launch("args", c)
    \/ Launch("wizard", WizardArgs)
    \/ Die
    \/ EnsureVenv \/ CheckStamp \/ BeginInstall \/ Install \/ Touch \/ Ready
    \/ \E dir \in BOOLEAN : AskModel(dir)
    \/ AskVocab
    \/ \E reply \in SizeReplies : AskRam(reply)
    \/ \E yes \in BOOLEAN : AskResume(yes)
    \/ Exec
    \/ CliStep /\ UNCHANGED <<launch, edits, venv>>
    \/ EditProject
    \/ \E kept \in BOOLEAN : LoseVenv(kept)

Spec == Init /\ [][Next]_vars
-----------------------------------------------------------------------------
\* Every variable has its type.
TypeOK ==
    /\ CliTypeOK
    /\ lpc \in {"idle", "venv", "stamp", "sync", "install", "touch", "ready",
                "model", "vocab", "ram", "resume", "exec"}
    /\ lpc # "idle" => pc = "out"
    /\ mode \in {"args", "wizard"} /\ cmd \in CommandLines
    /\ declined \in BOOLEAN
    /\ project \in 1 .. MaxEdits /\ raced \subseteq 1 .. MaxEdits
    /\ python \in BOOLEAN /\ deps \in -MaxEdits .. MaxEdits /\ stamp \in 0 .. MaxEdits

\* A stamp that is up to date vouches for a whole install, and no edit is
\* missing from it but those made while it ran: "Re-sync only when pyproject
\* changed since the last successful install" (featherquant.sh:78).  It holds
\* whatever install was interrupted, failed or lost its interpreter before, and
\* no process runs on half an install.
StampIsTrue ==
    /\ UpToDate => deps >= 1 /\ deps + 1 .. project \subseteq raced
    /\ pc # "out" => deps \in 1 .. project

\* Recorded work is dropped only by a process started without --resume, and
\* when the wizard started it, after the offer to resume was declined.
ProgressOnlyGivenUp ==
    [][ \/ banked \subseteq banked' /\ (status = "complete" => UNCHANGED job)
        \/ ~args.resume /\ (mode = "wizard" => declined) ]_vars
=============================================================================
