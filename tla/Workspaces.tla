----------------------------- MODULE Workspaces -----------------------------
(***************************************************************************)
(* The workspace set of an MCP adapter: which project a path belongs to,   *)
(* and under which ID the project's captures are labelled.  The set is     *)
(* guarded by one mutex, so its state is a function of the calls so far:   *)
(* the input of "workspaces" is the history of routed directories and of   *)
(* repositories made or removed meanwhile.  Directories form a tree.       *)
(***************************************************************************)
EXTENDS Cases, SequencesExt, FiniteSets

CONSTANTS
  Dirs, Parent,   \* the directories, and the parent of each (its own at the root)
  Base,           \* the last element of each directory's path
  Home,           \* the user's home directory
  Launch,         \* the directory the adapter starts in
  Repositories,   \* directories with a version-control marker at the start
  Manifests,      \* directories with a manifest marker
  NoAnchor

ASSUME WorkspaceConstants ==
  /\ Parent \in [Dirs -> Dirs] /\ Launch \in Dirs /\ DOMAIN Base = Dirs
  /\ Repositories \cup Manifests \subseteq Dirs /\ NoAnchor \notin Dirs
  /\ "workspaces" \in DOMAIN Alphabet => Alphabet["workspaces"] \subseteq [op : {"route", "toggle"}, dir : Dirs]

Depths == 0..Cardinality(Dirs)
Up[k \in Depths, d \in Dirs] == IF k = 0 THEN d ELSE Parent[Up[k - 1, d]]
IsFSRoot(d) == Parent[d] = d

\* The nearest of the directories ds at or above d.
Nearest(d, ds) ==
  IF \A k \in Depths : Up[k, d] \notin ds THEN NoAnchor
  ELSE Up[CHOOSE k \in Depths : Up[k, d] \in ds /\ \A j \in 0..(k - 1) : Up[j, d] \notin ds, d]

\* Version control first, though not at home or at the root; then manifests.
AnchorOf(vcs, d) ==
  LET repo == Nearest(d, {e \in vcs : e # Home /\ ~IsFSRoot(e)})
  IN IF repo # NoAnchor THEN repo ELSE Nearest(d, Manifests)

\* The set at the start: the launch directory's project, or the directory itself.
NewWorkspaceSet ==
  LET anchor == AnchorOf(Repositories, Launch)
      root == IF anchor = NoAnchor THEN Launch ELSE anchor
  IN [vcs |-> Repositories, bindings |-> <<[id |-> <<Base[root]>>, root |-> root]>>, dirAnchors |-> <<>>]

\* Mutant: the base name alone.
BaseOnly(w, root) == <<Base[root]>>

\* Mutant: the first project met has its base name, all others a suffix.
SuffixOthers(w, root) == IF Len(w.bindings) = 1 /\ w.bindings[1].id # <<Base[root]>> THEN <<Base[root]>> ELSE <<Base[root], root>>

\* The base name, with a hash of the root appended when it is taken.
NewId(w, root) ==
  IF \E b \in Range(w.bindings) : b.id = <<Base[root]>> THEN <<Base[root], root>> ELSE <<Base[root]>>

\* Mutant: the anchor is looked up again at every call.
LookedUp(w, d) == AnchorOf(w.vcs, d)

\* The anchor of a directory, remembered from its first look-up.
Memo(w, d) == IF d \in DOMAIN w.dirAnchors THEN w.dirAnchors[d] ELSE AnchorOf(w.vcs, d)

\* The workspace a directory is routed to; unanchored paths go to the primary.
WorkspaceOf(w, d) ==
  IF Memo(w, d) = NoAnchor THEN w.bindings[1]
  ELSE IF \E b \in Range(w.bindings) : b.root = Memo(w, d)
       THEN CHOOSE b \in Range(w.bindings) : b.root = Memo(w, d)
       ELSE [id |-> NewId(w, Memo(w, d)), root |-> Memo(w, d)]

ByPathOrDiscover(w, d) ==
  [w EXCEPT !.dirAnchors = [e \in DOMAIN @ \cup {d} |-> Memo(w, e)],
            !.bindings = IF WorkspaceOf(w, d) \in Range(@) THEN @ ELSE Append(@, WorkspaceOf(w, d))]

\* git init, or a repository that is removed.
Toggle(w, d) == [w EXCEPT !.vcs = IF d \in @ THEN @ \ {d} ELSE @ \cup {d}]

SetAfter(calls) ==
  FoldLeft(LAMBDA w, c : IF c.op = "toggle" THEN Toggle(w, c.dir) ELSE ByPathOrDiscover(w, c.dir),
           NewWorkspaceSet, calls)

-----------------------------------------------------------------------------
(* Properties *)

\* No two workspaces share an ID or a root, whatever markers come and go:
\* otherwise the workspace argument of a tool, and the labels, would name two
\* directories (byPathOrDiscover).
IdsNameOneRoot ==
  algorithm = "workspaces" =>
    LET bs == SetAfter(input).bindings
    IN \A i, j \in DOMAIN bs : i # j => bs[i].id # bs[j].id /\ bs[i].root # bs[j].root

\* A directory once routed keeps its workspace, root and ID, although markers
\* change: a repository made in the middle of a conversation does not re-anchor
\* what was captured, and "discovery is monotonic" (workspaceSet).
RoutesKept ==
  algorithm = "workspaces" /\ input # <<>> =>
    LET before == SetAfter(Front(input))
        after == SetAfter(input)
    IN /\ IsPrefix(before.bindings, after.bindings)
       /\ \A d \in DOMAIN before.dirAnchors : WorkspaceOf(after, d) = WorkspaceOf(before, d)

\* While no marker changes, the order in which projects are met does not matter
\* to their IDs, as long as no two of them share a base name.
OrderIndependent ==
  algorithm = "workspaces" /\ (\A i \in DOMAIN input : input[i].op = "route") =>
    LET one == Range(SetAfter(input).bindings)
        other == Range(SetAfter(Reverse(input)).bindings)
    IN /\ {b.root : b \in one} = {b.root : b \in other}
       /\ (\A a, b \in one : Base[a.root] = Base[b.root] => a.root = b.root) => one = other

\* A workspace ID names one root, for the rest of the conversation, and does not
\* depend on how the conversation got there (workspaceSet).
WorkspacesStable == IdsNameOneRoot /\ RoutesKept /\ OrderIndependent
=============================================================================
