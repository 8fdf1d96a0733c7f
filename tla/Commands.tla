------------------------------- MODULE Commands -------------------------------
(***************************************************************************)
(* The paths a command line names, and where they are (`plan`, `resolve`   *)
(* and `split` of reducers/workspace.py).  A path is the sequence of its   *)
(* parts, `/` the empty one.  A token that can be a path has its start     *)
(* ("/", "~" or "."), its parts and its looks: "dir" ends in a slash, "dot" *)
(* is `.`, `..` or `/`, "file" has an extension, "word" is a bare word,    *)
(* "path" the rest; any other token (`_ok` refuses it) is None.            *)
(*                                                                         *)
(* The words of a line are split and unquoted already.  A simple command   *)
(* is its verb, one for all that are read alike, its operands and flags    *)
(* (`_scan`), its redirections, its wrappers and the script it is given.   *)
(***************************************************************************)
EXTENDS Reducers

CONSTANTS MaxItems  \* MAX_ITEMS: the paths kept of a line

Token(from, parts, looks) == [at |-> from, segs |-> parts, looks |-> looks]
Here == Token(".", <<>>, "dot")
Nowhere == Token("?", <<>>, "dir")  \* "\0": the directory is not known

\* `add`, `_ok`: a bare word is no path where operands cannot be trusted.
Ok(t, bare) == /\ t # None
               /\ CASE bare = "any"  -> TRUE
                    [] bare = "file" -> t.looks \notin {"word", "dot"}
                    [] bare = "path" -> t.at # "." \/ Len(t.segs) > 1 \/ t.looks \in {"dir", "dot", "path"}
Item(op, t, dir, base, bare) == [op |-> op, tok |-> t, dir |-> dir, base |-> base, bare |-> bare]
Each(op, ts, dir, base)      == [i \in DOMAIN ts |-> Item(op, ts[i], dir, base, "any")]
\* The operands of a command split on its spaces may be pieces of a program.
Pieces(op, ts, base, shell)  == [i \in DOMAIN ts |-> Item(op, ts[i], FALSE, base, IF shell THEN "any" ELSE "file")]
\* `_named`.
AllNamed(ts, base)           == [i \in DOMAIN ts |-> Item("n", ts[i], FALSE, base, "path")]
Flags(c, ks) == LET has == SelectSeq(ks, LAMBDA k : k \in DOMAIN c.opt) IN [i \in DOMAIN has |-> c.opt[has[i]]]
Has(c, ks)   == c.flags \cap ks # {} \/ DOMAIN c.opt \cap ks # {}
Beyond(ts)     == IF ts = <<>> THEN <<>> ELSE Tail(ts)
OrHere(ts)   == IF ts = <<>> THEN <<Here>> ELSE ts

\* `posixpath.join` of where a `cd` left the command and where it goes.
Moved(base, t) == IF base = None \/ t.at # "." THEN t ELSE [t EXCEPT !.at = base.at, !.segs = base.segs \o @]
\* `cd`: to a place that is known from where it is, home, or nowhere that is known.
AfterCd(c, base) ==
  IF "-" \in c.flags THEN Nowhere
  ELSE IF c.args = <<>> THEN IF c.verb = "cd" THEN Token("~", <<>>, "dir") ELSE base
  ELSE IF c.args[1] = None \/ (base = Nowhere /\ c.args[1].at = ".") THEN Nowhere
  ELSE Moved(base, c.args[1])

TarItems(c, base) ==
  LET into == Flags(c, <<"-C">>)
      pack == Each(IF "c" \in c.flags THEN "w" ELSE "r", Flags(c, <<"-f">>), FALSE, base)
  IN pack \o IF "x" \in c.flags THEN Each("w", OrHere(into), TRUE, base)
             ELSE Each("r", into, TRUE, base)
                  \o Each(IF "c" \in c.flags THEN "r" ELSE "n", c.args, FALSE, IF into = <<>> \/ into[1] = None THEN base ELSE Moved(base, into[1]))

\* git's operands are where `-C` says; what it leaves for the commands that follow, too.
GitAt(c, base) == LET to == Flags(c, <<"-C">>) IN IF to = <<>> \/ to[1] = None THEN base ELSE Moved(base, to[1])
GitOp(c) == CASE "rm" \in c.flags -> (IF "--cached" \in c.flags THEN "n" ELSE "d")
              [] c.flags \cap {"mv", "restore", "checkout"} # {} -> "w" [] OTHER -> "n"
GitItems(c, base) ==
  Each("r", Flags(c, <<"-C">>), TRUE, base) \o Each("n", Flags(c, <<"--git-dir", "--work-tree">>), TRUE, GitAt(c, base))
    \o CASE "clone" \in c.flags -> Each("w", SubSeq(c.args, 2, Min({2, Len(c.args)})), TRUE, GitAt(c, base))
         [] c.flags \cap {"rm", "mv", "add", "restore"} # {} \/ {"checkout", "--"} \subseteq c.flags -> Each(GitOp(c), c.args, FALSE, GitAt(c, base))
         [] OTHER -> IF "--" \in c.flags THEN AllNamed(c.args, GitAt(c, base)) ELSE <<>>

CopyItems(c, base, from, to) ==
  LET into == Flags(c, <<"-t">>)
  IN IF into # <<>> THEN Each(to, into, TRUE, base) \o Each(from, c.args, FALSE, base)
     ELSE IF Len(c.args) >= 2
     THEN <<Item(to, Last(c.args), Len(c.args) > 2, base, "any")>> \o Each(from, Front(c.args), FALSE, base)
     ELSE Each(from, c.args, FALSE, base)

\* What one command does with its operands: one that reads them,
ReadOps(c, base, shell) ==
  CASE c.verb = "cat"    -> Each("r", c.args, FALSE, base)
    [] c.verb = "ls"     -> [i \in DOMAIN OrHere(c.args) |-> LET t == OrHere(c.args)[i] IN Item("r", t, t # None /\ t.looks # "file", base, "any")]
    [] c.verb = "find"   -> Each("w", Flags(c, <<"-fprint">>), FALSE, base) \o Each(IF Has(c, {"-delete", "-exec rm"}) THEN "d" ELSE "r", OrHere(c.args), TRUE, base)
    [] c.verb = "grep"   -> LET files == IF Has(c, {"-e", "-f", "--files"}) THEN c.args ELSE Beyond(c.args)
                            IN Each("r", Flags(c, <<"-f">>), FALSE, base) \o Pieces("r", files, base, shell)
                               \o IF files = <<>> /\ "-r" \in c.flags THEN Each("r", <<Here>>, TRUE, base) ELSE <<>>
    [] c.verb = "sed"    -> Pieces(IF "-i" \in c.flags THEN "w" ELSE "r", IF Has(c, {"-e", "-f"}) THEN c.args ELSE Beyond(c.args), base, shell)

\* that changes them,
WriteOps(c, base) ==
  CASE c.verb = "touch"  -> Each("w", c.args, FALSE, base)
    [] c.verb = "chmod"  -> Each("w", IF "--reference" \in DOMAIN c.opt THEN c.args ELSE Beyond(c.args), FALSE, base)
    [] c.verb = "sort"   -> Each("r", c.args, FALSE, base) \o Each("w", Flags(c, <<"-o">>), FALSE, base)
    [] c.verb = "mkdir"  -> Each("w", c.args, TRUE, base)
    [] c.verb = "mktemp" -> Each("w", c.args, FALSE, base) \o Each("w", Flags(c, <<"-p">>), TRUE, base)
    [] c.verb = "rm"     -> Each("d", c.args, FALSE, base)
    [] c.verb = "rmdir"  -> Each("d", c.args, TRUE, base)
    [] c.verb = "gzip"   -> Each(IF Has(c, {"-c", "-l", "-t"}) THEN "r" ELSE "w", c.args, FALSE, base)
    [] c.verb = "cp"     -> CopyItems(c, base, "r", "w")
    [] c.verb = "mv"     -> CopyItems(c, base, "w", "w")
    [] c.verb = "ln"     -> CopyItems(c, base, "n", "w")

\* that packs, fetches or builds,
MoveOps(c, base) ==
  CASE c.verb = "tar"    -> TarItems(c, base)
    [] c.verb = "unzip"  -> Each("r", First(c.args, 1), FALSE, base)
                            \o IF Has(c, {"-l", "-t"}) THEN <<>> ELSE Each("w", OrHere(Flags(c, <<"-d">>)), TRUE, base)
    [] c.verb = "zip"    -> Each("w", First(c.args, 1), FALSE, base) \o Each("r", Beyond(c.args), FALSE, base)
    [] c.verb = "dd"     -> Each("r", Flags(c, <<"if">>), FALSE, base) \o Each("w", Flags(c, <<"of">>), FALSE, base)
    [] c.verb = "git"    -> GitItems(c, base)
    [] c.verb = "curl"   -> Each("w", Flags(c, <<"-o", "--output">>), FALSE, base) \o Each("r", Flags(c, <<"-T", "-d">>), FALSE, base)
    [] c.verb = "wget"   -> Each("w", Flags(c, <<"-O">>), FALSE, base) \o Each("w", Flags(c, <<"-P">>), TRUE, base)
    [] c.verb = "make"   -> Each("r", Flags(c, <<"-C">>), TRUE, base) \o Each("r", Flags(c, <<"-f">>), FALSE, base)
                            \o Each("r", Flags(c, <<"-S">>), TRUE, base) \o Each("w", Flags(c, <<"-B">>), TRUE, base)

\* or that runs a program: one that the system holds is not the work.
RunOps(c, base, deep) ==
  CASE c.verb = "sbatch" -> Each("w", Flags(c, <<"-o", "-e">>), FALSE, base) \o Each("n", Flags(c, <<"-D">>), TRUE, base)
                            \o IF c.script # <<>> /\ ~deep THEN <<>> ELSE Each("r", First(c.args, 1), FALSE, base) \o AllNamed(Beyond(c.args), base)
    [] c.verb = "bwrap"  -> <<>>
    [] c.script # <<>> \/ Has(c, {"-c", "-m"}) -> IF "-m" \in c.flags THEN AllNamed(Beyond(c.args), base) ELSE <<>>
    [] OTHER -> (IF "system" \in c.flags THEN <<>> ELSE Each("r", First(c.args, 1), FALSE, base))
                \o IF c.verb = "python" THEN AllNamed(Beyond(c.args), base) ELSE <<>>

Operands(c, base, deep, shell) ==
  CASE c.verb \in {"cd", "pushd"} -> IF "-" \in c.flags THEN <<>> ELSE Each("n", First(c.args, 1), TRUE, base)
    [] c.verb = "echo" -> <<>>
    [] c.verb \in {"cat", "ls", "find", "grep", "sed"} -> ReadOps(c, base, shell)
    [] c.verb \in {"touch", "chmod", "sort", "mkdir", "mktemp", "rm", "rmdir", "gzip", "cp", "mv", "ln"} -> WriteOps(c, base)
    [] c.verb \in {"tar", "unzip", "zip", "dd", "git", "curl", "wget", "make"} -> MoveOps(c, base)
    [] c.verb \in {"sbatch", "bwrap", "sh", "python"} -> RunOps(c, base, deep)
    [] OTHER -> AllNamed(c.args, base)

\* What the flags and operands of its wrappers name (`srun -o`, `flock`, `apptainer exec`); an
\* assignment before the command is one more.
WrapItems(w, base) ==
  Each("w", Flags(w, <<"-o", "-e">>), FALSE, base) \o Each("n", Flags(w, <<"-D", "-C">>), TRUE, base)
    \o Each("n", Flags(w, <<"-B", "-p">>), FALSE, base) \o Each("r", Flags(w, <<"-a">>), FALSE, base)
    \o (CASE w.verb = "flock" -> Each("w", w.args, FALSE, base) [] w.verb = "apptainer" -> Each("r", w.args, FALSE, base)
          [] w.verb = "assign" -> AllNamed(w.args, base) [] OTHER -> <<>>)

\* `_command` and `_script`: a script's commands one by one, each where the one before left it.
\* A shell's script is its own; `sbatch --wrap` and `git -C` move what follows.
RECURSIVE ScriptItems(_, _, _)
RECURSIVE CommandItems(_, _, _, _)
CommandItems(c, base, depth, shell) ==
  LET own  == FlattenSeq([i \in DOMAIN c.wraps |-> WrapItems(c.wraps[i], base)])
                \o (IF c.path = None THEN <<>> ELSE <<Item("r", c.path, FALSE, base, "any")>>) \o Operands(c, base, depth >= 3, shell)
      runs == c.script # <<>> /\ depth < 3
      sub  == IF ~runs THEN [items |-> <<>>, base |-> base]
              ELSE IF c.verb = "bwrap" THEN CommandItems(c.script[1], base, depth + 1, FALSE) ELSE ScriptItems(c.script, base, depth + 1)
  IN [items |-> own \o sub.items,
      base  |-> CASE c.verb \in {"cd", "pushd"} -> AfterCd(c, base) [] c.verb = "git" -> GitAt(c, base)
                  [] c.verb = "sbatch" -> sub.base [] OTHER -> base]
ScriptItems(s, base, depth) ==
  IF s = <<>> THEN [items |-> <<>>, base |-> base]
  ELSE LET c  == Head(s)
           to == [i \in DOMAIN c.redir |-> Item(c.redir[i][1], c.redir[i][2], FALSE, base, "any")]
           r  == CommandItems(c, base, depth, TRUE)
           after == ScriptItems(Tail(s), r.base, depth)
       IN [items |-> to \o r.items \o after.items, base |-> after.base]

\* `plan`: a line that is its own launch names no work; an agent's, what it was granted; a tool
\* shell's, its script; a wrapper's, its payload; any other is an argv, that no shell reads.
SkipRoles == {"infra", "client", "probe", "ide"}
Strict(line, items) == IF ~line.strict THEN items ELSE [i \in DOMAIN items |-> [items[i] EXCEPT !.bare = IF @ = "any" THEN "file" ELSE @]]
Read(role, line) ==
  CASE role \in SkipRoles -> <<>>
    [] role = "agent"       -> Each("n", line.granted, TRUE, None)
    [] role = "tool-shell"  -> ScriptItems(line.script, None, 1).items
    [] role = "sandbox"     -> CommandItems(line.script[1], None, 1, FALSE).items
    [] OTHER                -> Strict(line, CommandItems(line.script[1], None, 0, FALSE).items)
PlanOf(items) == [items |-> First(items, MaxItems), capped |-> Len(items) - Min({MaxItems, Len(items)})]
Plan(role, line) == PlanOf(SelectSeq(Read(role, line), LAMBDA x : Ok(x.tok, x.bare)))

-----------------------------------------------------------------------------
(* Where a named path is. *)

Under(path, anchor) == IsPrefix(anchor, path)
\* `normpath` of an absolute path.
NormPath(segs) == FoldLeft(LAMBDA p, s : IF s # ".." THEN Append(p, s) ELSE IF p = <<>> THEN p ELSE Front(p), <<>>, segs)

\* The directory that a relative token is joined to, or None.
FromHome(t, home) == CASE t.at = "/" -> t.segs [] t.at = "~" -> (IF home = None THEN None ELSE home \o t.segs)
BaseDir(base, cwd, home) ==
  CASE base = Nowhere -> None
    [] base # None /\ base.at \in {"/", "~"} -> FromHome(base, home)
    [] cwd \in {None, <<>>} -> None
    [] OTHER -> IF base = None THEN cwd ELSE cwd \o base.segs

\* Bug: a cwd copied from the parent's is believed however far a path climbs out of it.
ResolveCopied(t, base, cwd, home, inherited) ==
  LET from == IF t.at = "." THEN BaseDir(base, cwd, home) ELSE <<>>
      path == IF t.at # "." THEN FromHome(t, home) ELSE from \o t.segs
  IN IF from = None \/ path = None THEN None ELSE NormPath(path)

\* `resolve`: a copied cwd may hold a path, not be climbed out of; a device is no file.
Resolve(t, base, cwd, home, inherited) ==
  LET from == IF t.at = "." THEN BaseDir(base, cwd, home) ELSE <<>>
      path == IF from = None THEN None ELSE IF t.at # "." THEN FromHome(t, home) ELSE from \o t.segs
      p    == IF path = None THEN None ELSE NormPath(path)
      onCwd == t.at = "." /\ (base = None \/ base.at \notin {"/", "~"})
  IN IF p = None \/ (inherited /\ onCwd /\ ~Under(p, cwd)) THEN None
     ELSE IF p # <<>> /\ p[1] \in {"dev", "proc", "sys"} THEN None ELSE p

\* `split`: the directory and the name in it, a glob's from where it begins.
Split(path, dir) ==
  LET n     == IF dir \/ path = <<>> THEN Len(path) ELSE Len(path) - 1
      globs == {i \in 1 .. n : path[i] = "*"}
      k     == IF globs = {} THEN n ELSE Min(globs) - 1
  IN [dir |-> SubSeq(path, 1, k), name |-> SubSeq(path, k + 1, Len(path))]
=============================================================================
