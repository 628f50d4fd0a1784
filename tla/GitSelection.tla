---------------------------- MODULE GitSelection ----------------------------
(***************************************************************************)
(* What the Git page shows beside the repositories (stores/git.ts): the     *)
(* repository paths of the product, the selected file or file of a commit,  *)
(* and its diff.  Every answer may come after the selection has moved on.   *)
(* A file has two diffs, one of its staged and one of its unstaged changes. *)
(***************************************************************************)
EXTENDS Naturals, FiniteSets

CONSTANTS
  Products, Files,
  Loads        \* bound: loads in flight, of paths and of diffs

VARIABLES
  product,     \* the product of the workspace
  paths,       \* buildPath and definePath, by their product
  selected,    \* selectedFile and selectedCommitFile
  diff,        \* diff, and the diffLoading flag
  load,        \* loads in flight
  crossed      \* the file was selected while its other diff was loading (history)

selectionVars == <<product, paths, selected, diff, load, crossed>>

Nothing == [file |-> "none", staged |-> FALSE, commit |-> "none", serial |-> 0]
NoLoad == [kind |-> "none", of |-> "none", staged |-> FALSE, serial |-> 0]
Target == Files \cup {"none"}

TypeOK ==
  /\ product \in Products /\ paths \in Products \cup {"none"}
  /\ selected \in [file: Target, staged: BOOLEAN, commit: Target, serial: {0} \cup Loads]
  /\ diff \in [kind: {"none", "file", "commit"}, of: Target, staged: BOOLEAN,
               loading: BOOLEAN]
  /\ load \in [Loads -> [kind: {"none", "paths", "file", "commit"},
                         of: Target \cup Products, staged: BOOLEAN, serial: {0} \cup Loads]]
  /\ crossed \in BOOLEAN

Empty(loading) == [kind |-> "none", of |-> "none", staged |-> FALSE, loading |-> loading]
Begin(l, kind, of, staged, serial) ==
  /\ load[l] = NoLoad
  /\ load' = [load EXCEPT ![l] =
                [kind |-> kind, of |-> of, staged |-> staged, serial |-> serial]]
Over(l) == load' = [load EXCEPT ![l] = NoLoad]

-----------------------------------------------------------------------------
(* loadPaths                                                                *)

SelectProduct(p) ==
  /\ product' = p /\ p # product
  /\ UNCHANGED <<paths, selected, diff, load, crossed>>

LoadPaths(l) ==
  /\ paths # product
  /\ Begin(l, "paths", product, FALSE, 0)
  /\ UNCHANGED <<product, paths, selected, diff, crossed>>

\* The answer resets the page, whichever product it is for; an error keeps it.
\* diffLoading is not among what is reset.
PathsAnswer(l) ==
  /\ load[l].kind = "paths"
  /\ Over(l)
  /\ \/ /\ paths' = load[l].of
        /\ selected' = Nothing /\ diff' = Empty(diff.loading)
     \/ UNCHANGED <<paths, selected, diff>>
  /\ UNCHANGED <<product, crossed>>

-----------------------------------------------------------------------------
(* Selecting a file or a commit's file loads its diff.  The object of a     *)
(* selected commit's file is a new one each time: its serial tells.         *)

SelectFile(l, f, side) ==
  /\ paths # "none"
  /\ selected' = [Nothing EXCEPT !.file = f, !.staged = side]
  /\ Begin(l, "file", f, side, 0)
  /\ diff' = [diff EXCEPT !.loading = TRUE]
  /\ crossed' = \E k \in Loads :
                  load[k].kind = "file" /\ load[k].of = f /\ load[k].staged # side
  /\ UNCHANGED <<product, paths>>
SelectCommitFile(l, f) ==
  /\ paths # "none"
  /\ selected' = [Nothing EXCEPT !.staged = selected.staged, !.commit = f, !.serial = l]
  /\ Begin(l, "commit", f, FALSE, l)
  /\ diff' = [diff EXCEPT !.loading = TRUE]
  /\ UNCHANGED <<product, paths, crossed>>

\* A commit of the graph: the file is deselected; the diff of a commit's file stays.
SelectGraphCommit ==
  /\ paths # "none"
  /\ selected' = [selected EXCEPT !.file = "none"]
  /\ diff' = IF selected.commit = "none" THEN Empty(diff.loading) ELSE diff
  /\ UNCHANGED <<product, paths, load, crossed>>

\* An answer is dropped when another file or commit is selected by then; whether the
\* file is selected in the same list is not compared.  An error is never dropped.
AnyAnswer(l) == TRUE                           \* mutant: never dropped
Wanted(l) == IF load[l].kind = "file" THEN selected.file = load[l].of
             ELSE selected.commit # "none" /\ selected.serial = load[l].serial
DiffAnswer(l) ==
  /\ load[l].kind \in {"file", "commit"}
  /\ Over(l)
  /\ diff' = IF Wanted(l)
             THEN [kind |-> load[l].kind, of |-> load[l].of, staged |-> load[l].staged,
                   loading |-> FALSE]
             ELSE diff
  /\ UNCHANGED <<product, paths, selected, crossed>>
DiffError(l) ==
  /\ load[l].kind \in {"file", "commit"}
  /\ Over(l)
  /\ diff' = Empty(FALSE)
  /\ UNCHANGED <<product, paths, selected, crossed>>

-----------------------------------------------------------------------------
Init ==
  /\ product \in Products /\ paths = "none"
  /\ selected = Nothing /\ diff = Empty(FALSE)
  /\ load = [l \in Loads |-> NoLoad] /\ crossed = FALSE

Next ==
  \/ \E p \in Products : SelectProduct(p)
  \/ \E l \in Loads : \/ LoadPaths(l) \/ PathsAnswer(l) \/ DiffAnswer(l) \/ DiffError(l)
                      \/ \E f \in Files, side \in BOOLEAN : SelectFile(l, f, side)
                      \/ \E f \in Files : SelectCommitFile(l, f)
  \/ SelectGraphCommit

Spec == Init /\ [][Next]_selectionVars

-----------------------------------------------------------------------------
(* Properties.                                                              *)

\* A diff shown as loaded is that of the selected file or commit: the answers of
\* earlier selections never replace it.  It is also of the side, staged or not, the
\* file is selected in, unless the other side was loading when it was selected.
DiffMatches ==
  diff.kind # "none" /\ ~diff.loading =>
    /\ diff.of = IF diff.kind = "file" THEN selected.file ELSE selected.commit
    /\ diff.kind = "file" /\ ~crossed => diff.staged = selected.staged
=============================================================================
