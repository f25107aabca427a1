--------------------------- MODULE PolicyIncludes ---------------------------
(***************************************************************************)
(* From the policy path to the list of policies (policy/manager: loader.go,*)
(* resolver.go and loadPoliciesFromSource): the files of a directory, the  *)
(* files they include, and the order in which they are loaded.             *)
(*                                                                         *)
(* A tree is [listed, includes, target, hidden, unreadable, outside,        *)
(* follow]: the entries of the policy directory in the order of the walk    *)
(* (one entry for a single file), the includes each file names, what the    *)
(* symbolic links stand for, and the paths that are hidden, cannot be       *)
(* loaded or lie outside the directory.                                     *)
(***************************************************************************)
EXTENDS Integers, Sequences, SequencesExt, FiniteSets, Functions

CONSTANTS Trees, MaxIncludeDepth

VARIABLES tree, loadedOrder, loadStage
includeVars == <<tree, loadedOrder, loadStage>>

LoadFailed == [failed |-> TRUE]
normalizePath(t, path) == IF path \in DOMAIN t.target THEN t.target[path] ELSE path
validateIncludePath(t, path) == path \notin t.outside
extractIncludes(t, path) == IF path \in DOMAIN t.includes THEN t.includes[path] ELSE <<>>

(* The walk of a directory: two links to one file are taken for a loop.     *)
collectPolicyFiles(t) ==
    LET isLink(path) == path \in DOMAIN t.target
        Visit(acc, path) ==
            IF "failed" \in DOMAIN acc \/ path \in t.hidden \/ (isLink(path) /\ ~t.follow) THEN acc
            ELSE IF isLink(path) /\ t.target[path] \in acc.visited THEN LoadFailed
            ELSE [files |-> Append(acc.files, path),
                  visited |-> IF isLink(path) THEN acc.visited \cup {t.target[path]} ELSE acc.visited]
    IN  FoldLeft(Visit, [files |-> <<>>, visited |-> {}], t.listed)

(* One file that cannot be loaded fails the directory, and so does an empty *)
(* one.                                                                     *)
LoadListed(t) ==
    LET c == collectPolicyFiles(t) IN
    IF "failed" \in DOMAIN c THEN LoadFailed
    ELSE IF c.files = <<>> \/ \E i \in DOMAIN c.files : normalizePath(t, c.files[i]) \in t.unreadable THEN LoadFailed
    ELSE [files |-> c.files]

-----------------------------------------------------------------------------
(* The resolver: r is [visited, visiting, edges, failed]; edges has an      *)
(* entry for each node of the graph.  An edge names the path as written, a  *)
(* node the file behind it.                                                 *)
Stop(r) == [r EXCEPT !.failed = TRUE]

RECURSIVE resolveFileTwice(_, _, _, _)
resolveFileTwice(t, r, path, depth) ==   \* faulty variant: links are not resolved
    IF path \in r.visited THEN r
    ELSE IF path \in r.visiting \/ depth > MaxIncludeDepth \/ normalizePath(t, path) \in t.unreadable THEN Stop(r)
    ELSE LET includes == extractIncludes(t, normalizePath(t, path))
             Follow(acc, include) == IF acc.failed THEN acc ELSE IF ~validateIncludePath(t, include) THEN Stop(acc)
                                     ELSE resolveFileTwice(t, acc, include, depth + 1)
             r2 == FoldLeft(Follow, [r EXCEPT !.visiting = @ \cup {path}], includes)
         IN  IF r2.failed THEN r2
             ELSE [r2 EXCEPT !.visiting = @ \ {path}, !.visited = @ \cup {path},
                             !.edges = [p \in DOMAIN @ \cup {path} |-> IF p = path THEN includes ELSE @[p]]]

RECURSIVE resolveFile(_, _, _, _)
resolveFile(t, r, path, depth) ==
    LET file == normalizePath(t, path)
        includes == extractIncludes(t, file)
        Follow(acc, include) ==
            IF acc.failed THEN acc
            ELSE IF ~validateIncludePath(t, include) THEN Stop(acc)
            ELSE resolveFile(t, acc, include, depth + 1)
    IN  IF file \in r.visited THEN r
        ELSE IF file \in r.visiting \/ depth > MaxIncludeDepth \/ file \in t.unreadable THEN Stop(r)
        ELSE LET r2 == FoldLeft(Follow, [r EXCEPT !.visiting = @ \cup {file}], includes) IN
             IF r2.failed THEN r2
             ELSE [r2 EXCEPT !.visiting = @ \ {file}, !.visited = @ \cup {file},
                             !.edges = [p \in DOMAIN @ \cup {file} |-> IF p = file THEN includes ELSE @[p]]]

ResolveMultiple(t, paths) ==
    LET Root(r, path) == IF r.failed THEN r ELSE resolveFile(t, r, path, 0)
    IN  FoldLeft(Root, [visited |-> {}, visiting |-> {}, edges |-> <<>>, failed |-> FALSE], paths)

(* The sort visits the edges as they are written: a link has none of its    *)
(* own.  s is [visited, visiting, sorted, failed].                          *)
RECURSIVE VisitPath(_, _, _)
VisitPath(edges, s, path) ==
    IF s.failed \/ path \in s.visited THEN s
    ELSE IF path \in s.visiting THEN Stop(s)
    ELSE LET deps == IF path \in DOMAIN edges THEN edges[path] ELSE <<>>
             Visit(acc, dep) == VisitPath(edges, acc, dep)
             s2 == FoldLeft(Visit, [s EXCEPT !.visiting = @ \cup {path}], deps)
         IN  IF s2.failed THEN s2
             ELSE [s2 EXCEPT !.visiting = @ \ {path}, !.visited = @ \cup {path}, !.sorted = Append(@, path)]
topologicalSort(edges, order) ==
    LET Visit(s, path) == VisitPath(edges, s, path)
    IN  FoldLeft(Visit, [visited |-> {}, visiting |-> {}, sorted |-> <<>>, failed |-> FALSE], order)

-----------------------------------------------------------------------------
(* Without includes the policies are used as they were listed; otherwise    *)
(* what the sort returns is filtered to the nodes of the graph.             *)
loadPoliciesFromSource(t, order) ==
    LET listed == LoadListed(t) IN
    IF "failed" \in DOMAIN listed THEN LoadFailed
    ELSE IF \A i \in DOMAIN listed.files : extractIncludes(t, normalizePath(t, listed.files[i])) = <<>>
         THEN [policies |-> [i \in DOMAIN listed.files |-> normalizePath(t, listed.files[i])]]
    ELSE LET r == ResolveMultiple(t, listed.files)
             s == topologicalSort(r.edges, SelectSeq(order, LAMBDA p : p \in DOMAIN r.edges))
             isNode(p) == p \in DOMAIN r.edges
         IN  IF r.failed \/ s.failed THEN LoadFailed ELSE [policies |-> SelectSeq(s.sorted, isNode)]

IncludeInit == tree \in Trees /\ loadStage = "start" /\ loadedOrder = LoadFailed

(* The nodes of the graph are a map: the sort may start from any of them.   *)
LoadFromSource ==
    /\ loadStage = "start" /\ loadStage' = "done"
    /\ \E order \in SetToSeqs(DOMAIN tree.includes \cup DOMAIN tree.target) : loadedOrder' = loadPoliciesFromSource(tree, order)
    /\ UNCHANGED tree

IncludeNext == LoadFromSource

-----------------------------------------------------------------------------
Roots == {normalizePath(tree, tree.listed[i]) : i \in {i \in DOMAIN tree.listed : tree.listed[i] \notin tree.hidden
            /\ (tree.listed[i] \in DOMAIN tree.target => tree.follow)}}
IncludesOf(files) == UNION {Range(extractIncludes(tree, f)) : f \in files}
RECURSIVE Reach(_)
Reach(files) ==
    LET more == files \cup {normalizePath(tree, p) : p \in IncludesOf(files)} IN IF more = files THEN files ELSE Reach(more)
HasCircle(files) ==
    \E S \in SUBSET files : S # {} /\ \A f \in S : S \cap {normalizePath(tree, p) : p \in IncludesOf({f})} # {}
RECURSIVE Deeper(_, _)
Deeper(files, n) == files # {} /\ (n < 0 \/ Deeper({normalizePath(tree, p) : p \in IncludesOf(files)}, n - 1))
ListedTwice == Cardinality(Roots) < Len(tree.listed)

(***************************************************************************)
(* Loading succeeds only if every file that can be reached by includes is  *)
(* readable and inside the directory and no circle of includes exists;     *)
(* then each of those files is loaded exactly once, and before the files    *)
(* that include it by its own name, in whatever order the graph is walked.  *)
(* It fails only for one of these reasons, for a chain of includes that is  *)
(* too long, or for links that the walk takes for a loop.                   *)
(* (resolver.resolveFile, topologicalSort, manager.loadPoliciesFromSource)  *)
(***************************************************************************)
IncludesAreResolved ==
    loadStage = "done" =>
        LET all == Reach(Roots)
            bad == \/ HasCircle(all) \/ all \cap tree.unreadable # {} \/ IncludesOf(all) \cap tree.outside # {}
                   \/ Roots = {}
        IN  IF loadedOrder = LoadFailed
            THEN bad \/ Deeper(Roots, MaxIncludeDepth) \/ ListedTwice
            ELSE LET p == loadedOrder.policies IN
                 /\ ~bad /\ Range(p) = all /\ (Len(p) = Cardinality(all) \/ (ListedTwice /\ IncludesOf(all) = {}))
                 /\ IncludesOf(all) # {} => \A i, j \in DOMAIN p : p[j] \in Range(extractIncludes(tree, p[i])) => j < i
=============================================================================
