----------------------------- MODULE Workspaces -----------------------------
(***************************************************************************)
(* Which workspace an invocation of vik works in (workflow/loader.rs,      *)
(* utils/paths.rs, workspace/mod.rs), and what follows for daemons: the    *)
(* state file, and so the daemon that run -d refuses to double and that    *)
(* stop ends, is found through the spelling of the workflow argument, the  *)
(* caller's directory and environment, and the text of the file now.       *)
(*                                                                         *)
(* A path is a sequence of components from the root directory, a component *)
(* a sequence of characters.  No symbolic links.  One command is one step; *)
(* races between commands are the module Daemon.  Operators named Mut_...  *)
(* are seeded faults.                                                      *)
(***************************************************************************)
EXTENDS Naturals, SequencesExt

CONSTANTS
    Files,       \* the workflow files, by absolute path without . and ..
    Arguments,   \* WORKFLOW arguments in use: [cwd, abs, path]
    Envs,        \* environments of the callers: [home, vikHome]; home is <<>> and
                 \* vikHome, a sequence of one raw path, is empty if unset
    Roots,       \* what an author may write as workspace.root: [kind, abs, path]
    Obstacles,   \* paths where something other than a directory is
    MayEdit      \* bound: whether workflow files are edited

VARIABLES
    text,     \* [Files -> the workspace.root written there, and validity]
    dirs,     \* the directories that exist
    daemons,  \* the live daemons: [file, root], root the workspace of each
    records,  \* the state files, each with the daemon it was written by
    last      \* the last command and what it did

vars == <<text, dirs, daemons, records, last>>

-----------------------------------------------------------------------------
(* Paths.                                                                  *)

Dot    == <<".">>
DotDot == <<".", ".">>
Tilde  == <<"~">>
DotVik == <<".", "vik">>

Step(acc, c) ==
    CASE c = DotDot -> IF acc = <<>> THEN acc ELSE Front(acc)
      [] c = Dot    -> acc
      [] OTHER      -> Append(acc, c)

\* Component by component, without a look at the file system.
CanonicalizeFrom(from, path) == FoldLeft(Step, from, path)

\* The file or directory that the operating system finds.
Located(path) == CanonicalizeFrom(<<>>, path)

\* An absolute argument passes as it is.
Canonicalize(arg) == IF arg.abs THEN arg.path ELSE CanonicalizeFrom(arg.cwd, arg.path)

Absolute(p) == [ok |-> TRUE, path |-> p]
NoPath == [ok |-> FALSE, path |-> <<>>]

\* expand_tilde and resolve_from: an optional absolute path.
ResolveFrom(from, raw, env) ==
    IF raw.abs THEN Absolute(raw.path)
    ELSE IF raw.path # <<>> /\ Head(raw.path) = Tilde
         THEN IF env.home = <<>> THEN NoPath ELSE Absolute(env.home \o Tail(raw.path))
         ELSE Absolute(CanonicalizeFrom(from, raw.path))

DefaultHome(env) ==
    IF env.vikHome # <<>> THEN env.vikHome[1]
    ELSE IF env.home # <<>> THEN [abs |-> TRUE, path |-> Append(env.home, DotVik)]
    ELSE [abs |-> FALSE, path |-> <<Tilde, DotVik>>]

\* The workspace section: left out, without a root, or with one.
HomeSetting(root, env) ==
    CASE root.kind = "omitted" -> [abs |-> FALSE, path |-> <<DotVik>>]
      [] root.kind = "null"    -> DefaultHome(env)
      [] OTHER                 -> [abs |-> root.abs, path |-> root.path]

\* Every separator of the path becomes a dash.
PathKey(path) == FlattenSeq([i \in DOMAIN path |-> <<"-">> \o path[i]])

Mut_KeyByName(path, root, env) ==
    LET home == ResolveFrom(Front(path), HomeSetting(root, env), env) IN
    IF home.ok THEN Absolute(Located(home.path) \o <<<<"workflows">>, Last(path)>>) ELSE NoPath

\* from_schema_unchecked, with the root located.
WorkspaceRoot(path, root, env) ==
    LET home == ResolveFrom(Front(path), HomeSetting(root, env), env) IN
    IF home.ok THEN Absolute(Located(home.path) \o <<<<"workflows">>, PathKey(path)>>)
    ELSE NoPath

-----------------------------------------------------------------------------
(* Commands.                                                               *)

Init ==
    /\ text \in [Files -> [root : Roots, valid : {TRUE}]]
    /\ dirs = {Front(f) : f \in Files}
    /\ daemons = {}
    /\ records = {}
    /\ last = [cmd |-> "none"]

\* Workflow::try_from on the file that the argument names: for every command
\* but doctor.  An invalid file ends the command with status 1.
Promoted(arg, env) ==
    LET path == Canonicalize(arg)
        doc  == text[Located(path)]
    IN IF doc.valid THEN WorkspaceRoot(path, doc.root, env) ELSE NoPath

Report(cmd, arg, result, stopped) ==
    last' = [cmd |-> cmd, file |-> Located(Canonicalize(arg)),
             result |-> result, stopped |-> stopped]

Refused(arg, env) ==
    /\ ~Promoted(arg, env).ok
    /\ \E cmd \in {"run", "stop"} : Report(cmd, arg, "refused", {})
    /\ UNCHANGED <<text, dirs, daemons, records>>

Above(path) == {SubSeq(path, 1, n) : n \in 0 .. Len(path)}

\* Workspace::ensure_root.
EnsureRoot(root) ==
    /\ Above(root) \cap Obstacles = {}
    /\ dirs' = dirs \cup Above(root)

EnsureRootFails(arg, env) ==
    /\ Promoted(arg, env).ok
    /\ Above(Promoted(arg, env).path) \cap Obstacles # {}
    /\ Report("run", arg, "no_root", {})
    /\ UNCHANGED <<text, dirs, daemons, records>>

Recorded(root) == {r \in records : r.root = root}

\* vik run -d, once the check for a live daemon has found none.
RunDetached(arg, env) ==
    LET root == Promoted(arg, env).path IN
    /\ Promoted(arg, env).ok
    /\ EnsureRoot(root)
    /\ Recorded(root) \cap daemons = {}
    /\ daemons' = daemons \cup {[file |-> Located(Canonicalize(arg)), root |-> root]}
    /\ records' = (records \ Recorded(root)) \cup {[file |-> Located(Canonicalize(arg)), root |-> root]}
    /\ Report("run", arg, "started", {})
    /\ UNCHANGED text

AlreadyRunning(arg, env) ==
    LET root == Promoted(arg, env).path IN
    /\ Promoted(arg, env).ok
    /\ EnsureRoot(root)
    /\ Recorded(root) \cap daemons # {}
    /\ Report("run", arg, "already_running", {})
    /\ UNCHANGED <<text, daemons, records>>

\* vik stop or uninstall: the daemon on record, if it lives, ends
\* and the record goes.
Stop(arg, env) ==
    LET found == Recorded(Promoted(arg, env).path) IN
    /\ Promoted(arg, env).ok
    /\ daemons' = daemons \ found
    /\ records' = records \ found
    /\ Report("stop", arg, IF found = {} THEN "not_installed" ELSE "stopped",
              {d.file : d \in found \cap daemons})
    /\ UNCHANGED <<text, dirs>>

\* A crash: the record stays.
DaemonDies(d) ==
    /\ daemons' = daemons \ {d}
    /\ last' = [cmd |-> "crash"]
    /\ UNCHANGED <<text, dirs, records>>

\* The author saves another version of the file, a daemon on it or not.
Edit(f) ==
    /\ MayEdit
    /\ \E root \in Roots, valid \in BOOLEAN :
        text' = [text EXCEPT ![f] = [root |-> root, valid |-> valid]]
    /\ last' = [cmd |-> "edit"]
    /\ UNCHANGED <<dirs, daemons, records>>

Next ==
    \/ \E arg \in Arguments, env \in Envs :
        \/ Refused(arg, env) \/ EnsureRootFails(arg, env)
        \/ RunDetached(arg, env) \/ AlreadyRunning(arg, env) \/ Stop(arg, env)
    \/ \E f \in Files : Edit(f)
    \/ \E d \in daemons : DaemonDies(d)

Spec == Init /\ [][Next]_vars

-----------------------------------------------------------------------------
(* Properties.                                                             *)

\* Some spellings of the two files make one key, as those of one file may and
\* those of /a/b/w and /a/b-w do.
OneKey(f, g) ==
    \E a, b \in Arguments :
        /\ Located(Canonicalize(a)) = f /\ Located(Canonicalize(b)) = g
        /\ PathKey(Canonicalize(a)) = PathKey(Canonicalize(b))

\* A stop never ends the daemon of another workflow file, however both are
\* spelled and wherever both keep their home, unless their keys are the same.
StopsOwnDaemon == last.cmd = "stop" => \A f \in last.stopped : OneKey(f, last.file)

\* ... and a start is refused only by a daemon of the same file or key.
RefusedByOwnDaemon ==
    last.cmd = "run" /\ last.result = "already_running" =>
        \E d \in daemons : OneKey(d.file, last.file)

\* docs/usage/configuration.md: the key "keeps workflows from colliding when
\* they share one workspace home".  The code does not keep this.
WorkflowsKeepApart == last.cmd = "stop" => last.stopped \subseteq {last.file}

\* docs/usage/service-daemon.md: uninstall (or stop) stops a running daemon
\* if one is present, whoever asks from wherever; so a file never has two.
StopReachesDaemon ==
    last.cmd = "stop" => \A d \in daemons : d.file # last.file

=============================================================================
