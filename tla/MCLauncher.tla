----------------------------- MODULE MCLauncher -----------------------------
(***************************************************************************)
(* Two tensors; command lines with and without --resume and --report, for  *)
(* both kinds of models and reporters; sizes of nothing to 2 GB, bytes     *)
(* that are enough and bytes that are not, and what is no size.            *)
(***************************************************************************)
EXTENDS Launcher

MCOut == <<1, 2>>

Size(n, u) == [halves |-> n, unit |-> u]
Command(dir, vocab, size, resume, report, ui) ==
    [dir |-> dir, vocab |-> vocab, size |-> size, resume |-> resume, report |-> report, ui |-> ui]

MCCommands ==
    {Command(FALSE, FALSE, Size(4, "G"), resume, report, ui) :
        resume \in BOOLEAN, report \in BOOLEAN, ui \in {"rich", "plain"}}
    \cup {Command(TRUE, FALSE, Size(4, "G"), TRUE, FALSE, "none"),
          Command(TRUE, TRUE, Size(1, "T"), TRUE, TRUE, "rich"),
          Command(FALSE, FALSE, Size(4 * 1024 * 1024, "bare"), TRUE, FALSE, "rich"),
          Command(FALSE, FALSE, Size(4, "bare"), TRUE, FALSE, "rich")}

MCSizeReplies ==
    {Size(4, "bare"), Size(0, "bare"), Size(1, "M"), Size(3, "M"), Size(1024, "K"),
     Size(4, "B"), Size(4, "junk")}
=============================================================================
