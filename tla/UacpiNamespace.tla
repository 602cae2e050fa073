--------------------------- MODULE UacpiNamespace ---------------------------
(***************************************************************************)
(* The namespace of uACPI (extra/uacpi/namespace.c): the tree of named     *)
(* nodes, the lookup of paths, the walk over the tree that lets go of the  *)
(* namespace lock for every callback, and setup and tear-down.  A section  *)
(* under the namespace lock is one step (UacpiLocks models the lock).      *)
(***************************************************************************)
EXTENDS Integers, Sequences, FiniteSets, SequencesExt

CONSTANTS NsDynamic,   \* nodes that uacpi_namespace_node_alloc hands out
          NsPredefined,\* predefined nodes but the root
          NsOsi,       \* the predefined node that NO_OSI leaves out
          NsName,      \* names of dynamic nodes
          NsNoOsi,     \* UACPI_FLAG_NO_OSI
          NsHolds      \* TRUE: nodes may stay referenced over a tear-down

NsRoot == "root"
NoNode == "none"
Predefined == {NsRoot} \cup NsPredefined
NsNode == Predefined \cup NsDynamic

VARIABLES nsKids,    \* child and next: the children of each node, in list order
          nsParent,  \* parent of each node
          nsName,  \* name of each node; a predefined node has its own
          nsType,  \* type of the object of each node, NoNode without an object
          nsFlags,   \* TEMPORARY, DANGLING
          nsRefs,    \* reference count of each node
          nsWalk,    \* uacpi_namespace_do_for_each_child in progress
          nsUp     \* is the namespace set up?

nsVars == <<nsKids, nsParent, nsName, nsType, nsFlags, nsRefs, nsWalk, nsUp>>
treeVars == <<nsKids, nsParent, nsName, nsType, nsFlags, nsRefs, nsUp>>

Tree == [kids |-> nsKids, name |-> nsName, parent |-> nsParent, type |-> nsType, flags |-> nsFlags,
         refs |-> nsRefs]

SetTree(t) == /\ nsKids' = t.kids /\ nsParent' = t.parent /\ nsType' = t.type
              /\ nsFlags' = t.flags /\ nsRefs' = t.refs /\ nsName' = t.name

(***************************************************************************)
(* Nodes.                                                                  *)
(***************************************************************************)

\* free_namespace_node: a predefined node becomes blank, any other goes away.
free_namespace_node(t, n) ==
    [t EXCEPT !.flags[n] = {}, !.type[n] = NoNode, !.parent[n] = NoNode, !.kids[n] = <<>>,
              !.name[n] = IF n \in Predefined THEN n ELSE NoNode]

uacpi_namespace_node_unref(t, n) ==
    LET d == [t EXCEPT !.refs[n] = @ - 1]
    IN  IF d.refs[n] = 0 THEN free_namespace_node(d, n) ELSE d

uacpi_namespace_node_install(t, p, n) ==
    IF "DANGLING" \in t.flags[n] THEN t
    ELSE [t EXCEPT !.kids[p] = Append(@, n), !.parent[n] = p]

\* A slip: a node with children is removed all the same.
RemovableAlways(t, n) == "DANGLING" \notin t.flags[n]

Removable(t, n) == "DANGLING" \notin t.flags[n] /\ t.kids[n] = <<>>

\* uacpi_namespace_node_uninstall with namespace_node_detach_object: the node loses
\* its object and its place, and lives on, dangling, while it is referenced.
uacpi_namespace_node_uninstall(t, n) ==
    LET p == t.parent[n]
        u == [t EXCEPT !.type[n] = NoNode,
                       !.kids[p] = SelectSeq(@, LAMBDA k : k # n),
                       !.flags[n] = @ \cup {"DANGLING"}]
    IN  IF Removable(t, n) THEN uacpi_namespace_node_unref(u, n) ELSE t

(***************************************************************************)
(* Setup and tear-down.                                                    *)
(***************************************************************************)
Attached == IF NsNoOsi THEN NsPredefined \ {NsOsi} ELSE NsPredefined

uacpi_initialize_namespace ==
    LET t == [Tree EXCEPT !.refs = [n \in NsNode |-> IF n \in Predefined THEN 1 ELSE @[n]],
                          !.type = [n \in NsNode |-> IF n \in Predefined THEN "DEVICE" ELSE @[n]]]
    IN  /\ ~nsUp /\ nsUp' = TRUE
        /\ SetTree(FoldLeft(LAMBDA u, n : uacpi_namespace_node_install(u, NsRoot, n),
                            t, SetToSeq(Attached)))
        /\ UNCHANGED nsWalk

\* uacpi_deinitialize_namespace: down to the last subtree, wipe its scope, go back up.
RECURSIVE Wipe(_, _)
Wipe(t, n) ==
    IF t.kids[n] = <<>> \/ ~Removable(t, Head(t.kids[n])) THEN t
    ELSE Wipe(uacpi_namespace_node_uninstall(t, Head(t.kids[n])), n)

NextPeer(t, n) ==
    LET k == t.kids[t.parent[n]]
        i == CHOOSE j \in DOMAIN k : k[j] = n
    IN  IF t.parent[n] = NoNode \/ i = Len(k) THEN NoNode ELSE k[i + 1]

RECURSIVE DeinitLoop(_, _, _, _)
DeinitLoop(t, current, next, depth) ==
    LET peer == IF next # NoNode THEN NextPeer(t, next)
                ELSE IF t.kids[current] = <<>> THEN NoNode ELSE Head(t.kids[current])
    IN  IF depth = 0 THEN t
        ELSE IF peer = NoNode
        THEN DeinitLoop(Wipe(t, current), t.parent[current], current, depth - 1)
        ELSE IF t.kids[peer] # <<>> THEN DeinitLoop(t, peer, NoNode, depth + 1)
        ELSE DeinitLoop(t, current, peer, depth)

uacpi_deinitialize_namespace ==
    LET t == DeinitLoop(Tree, NsRoot, NoNode, 1)
    IN  /\ nsUp /\ nsUp' = FALSE /\ nsWalk.node = NoNode
        /\ (NsHolds \/ \A n \in NsNode : nsRefs[n] <= 1)
        /\ SetTree(free_namespace_node(t, NsRoot))
        /\ UNCHANGED nsWalk

(***************************************************************************)
(* Paths: a sequence of names, after one "\\" or any number of "^".        *)
(***************************************************************************)
uacpi_namespace_node_find_sub_node(p, name) ==
    LET hits == SelectSeq(nsKids[p], LAMBDA k : nsName[k] = name)
    IN  IF hits = <<>> THEN NoNode ELSE Head(hits)

RECURSIVE Climb(_, _)
Climb(n, path) ==   \* the loop over "^": the node and the path left, or a step too far
    IF path = <<>> \/ Head(path) # "^" THEN [n |-> n, path |-> path, ok |-> TRUE]
    ELSE IF n = NsRoot THEN [n |-> n, path |-> path, ok |-> FALSE]
    ELSE Climb(nsParent[n], Tail(path))

RECURSIVE Descend(_, _)
Descend(n, path) ==
    IF path = <<>> \/ n = NoNode THEN n
    ELSE Descend(uacpi_namespace_node_find_sub_node(n, Head(path)), Tail(path))

RECURSIVE SearchUp(_, _)
SearchUp(p, name) ==
    IF p = NoNode THEN NoNode
    ELSE LET hit == uacpi_namespace_node_find_sub_node(p, name)
         IN  IF hit # NoNode THEN hit ELSE SearchUp(nsParent[p], name)

SearchesUp(path) == Len(path) = 1 /\ Head(path) \notin {"^", "\\"}

\* uacpi_namespace_node_resolve: the node, or the status.
uacpi_namespace_node_resolve(scope, path, above, permanent) ==
    LET c == Climb(scope, path)
        rooted == c.path # <<>> /\ Head(c.path) = "\\"
        n == IF rooted THEN Descend(NsRoot, Tail(c.path)) ELSE Descend(c.n, c.path)
        hit == IF n = NoNode /\ above /\ SearchesUp(path)
               THEN SearchUp(nsParent[scope], Last(path)) ELSE n
    IN  IF ~c.ok \/ (rooted /\ c.path # path) THEN "INVALID_ARGUMENT"
        ELSE IF hit = NoNode THEN "NOT_FOUND"
        ELSE IF permanent /\ "TEMPORARY" \in nsFlags[hit] THEN "DENIED"
        ELSE hit

\* uacpi_namespace_node_generate_absolute_path.
RECURSIVE Names(_)
Names(n) == IF n = NsRoot THEN <<>> ELSE Append(Names(nsParent[n]), nsName[n])

uacpi_namespace_node_generate_absolute_path(n) == <<"\\">> \o Names(n)

RECURSIVE uacpi_namespace_node_depth(_)
uacpi_namespace_node_depth(n) ==
    IF nsParent[n] = NoNode THEN 0 ELSE 1 + uacpi_namespace_node_depth(nsParent[n])

\* The bytes it allocates, and where its cursor is after writing every segment.
PathBytes(n) ==
    LET depth == uacpi_namespace_node_depth(n) + 1
    IN  1 + (depth - 1) * 4 + (IF depth > 2 THEN depth - 2 ELSE 0) + 1

RECURSIVE WriteOffset(_, _)
WriteOffset(n, offset) ==
    IF n = NsRoot THEN offset
    ELSE WriteOffset(nsParent[n], IF nsParent[n] # NsRoot THEN offset - 5 ELSE offset - 4)

(***************************************************************************)
(* The walk: CallbackOrEnd runs the loop, under the lock, up to the next   *)
(* callback or to the end.                                                 *)
(***************************************************************************)
NoNsWalk == [node |-> NoNode, depth |-> 0, max |-> 0, up |-> FALSE, mask |-> {},
           down_cb |-> FALSE, up_cb |-> FALSE, seen |-> {}, due |-> {}, whole |-> TRUE, flaw |-> FALSE]

\* do_next
Advance(w, decision) ==
    LET peer == NextPeer(Tree, w.node)
    IN  IF w.up
        THEN IF peer # NoNode THEN [w EXCEPT !.node = peer, !.up = FALSE]
             ELSE [w EXCEPT !.node = nsParent[w.node], !.depth = @ - 1]
        ELSE IF decision = "CONTINUE" /\ w.depth # w.max /\ nsKids[w.node] # <<>>
        THEN [w EXCEPT !.node = Head(nsKids[w.node]), !.depth = @ + 1]
        ELSE [w EXCEPT !.up = TRUE]

RECURSIVE CallbackOrEnd(_)
CallbackOrEnd(w) ==
    LET matches == nsType[w.node] \in w.mask
        hidden == matches /\ "TEMPORARY" \in nsFlags[w.node]
        called == IF w.up THEN w.up_cb ELSE w.down_cb
    IN  IF w.depth = 0 THEN [w EXCEPT !.node = NoNode]
        ELSE IF hidden THEN CallbackOrEnd(Advance(w, "NEXT_PEER"))
        ELSE IF matches /\ called THEN w
        ELSE CallbackOrEnd(Advance(w, "CONTINUE"))

\* The callback of a node, or the end of the walk: history for WalkIsSound.
NsSeen(w) ==
    IF w.node = NoNode THEN [NoNsWalk EXCEPT !.flaw = w.whole /\ ~(w.due \subseteq w.seen)]
    ELSE [w EXCEPT !.seen = @ \cup {<<w.node, w.up>>}, !.flaw = <<w.node, w.up>> \in w.seen]

\* What a complete walk owes: the permanent nodes of a type in the mask, no deeper
\* than max, with no hidden node above them.
RECURSIVE Owed(_, _, _)
Owed(n, mask, max) ==
    UNION {IF nsType[k] \in mask /\ "TEMPORARY" \in nsFlags[k] THEN {}
           ELSE ({k} \cap {j \in NsNode : nsType[j] \in mask})
                \cup (IF max = 1 THEN {} ELSE Owed(k, mask, max - 1)) : k \in Range(nsKids[n])}

uacpi_namespace_do_for_each_child(n, mask, max, down, up) ==
    LET w == [NoNsWalk EXCEPT !.node = Head(nsKids[n]), !.depth = 1, !.max = max,
                            !.mask = mask, !.down_cb = down, !.up_cb = up,
                            !.due = (IF down THEN Owed(n, mask, max) \X {FALSE} ELSE {})
                                    \cup (IF up THEN Owed(n, mask, max) \X {TRUE} ELSE {})]
    IN  /\ nsUp /\ nsWalk.node = NoNode /\ nsKids[n] # <<>> /\ (down \/ up)
        /\ nsWalk' = NsSeen(CallbackOrEnd(w))
        /\ UNCHANGED treeVars

\* A callback returns: the lock is taken again and the loop goes on from its node.
CallbackReturns(decision) ==
    /\ nsWalk.node # NoNode
    /\ nsWalk' = IF decision = "BREAK" THEN NoNsWalk
               ELSE LET w == [nsWalk EXCEPT !.whole = @ /\ (decision = "CONTINUE" \/ nsWalk.up)]
                    IN  NsSeen(CallbackOrEnd(Advance(w, decision)))
    /\ UNCHANGED treeVars

(***************************************************************************)
(* The interpreter and the holders of nodes.                               *)
(***************************************************************************)

RECURSIVE Below(_)
Below(n) == {n} \cup UNION {Below(k) : k \in Range(nsKids[n])}

\* A named object is created in a scope where the name is free.  Nodes made while a
\* method runs are temporary.
CreateNode(p, name, type, temporary) ==
    LET free == {n \in NsDynamic : nsRefs[n] = 0}
        n == CHOOSE m \in free : TRUE
    IN
    /\ nsUp /\ free # {}
    /\ p \in Below(NsRoot)
    /\ uacpi_namespace_node_find_sub_node(p, name) = NoNode
    /\ LET t == [Tree EXCEPT !.refs[n] = 1, !.type[n] = type, !.name[n] = name,
                             !.flags[n] = IF temporary THEN {"TEMPORARY"} ELSE {}]
       IN  SetTree(uacpi_namespace_node_install(t, p, n))
    /\ UNCHANGED <<nsWalk, nsUp>>

\* The method returns: its nodes are uninstalled.
MethodReturns(n) ==
    /\ nsUp /\ nsRefs[n] > 0 /\ "TEMPORARY" \in nsFlags[n] /\ "DANGLING" \notin nsFlags[n]
    /\ SetTree(uacpi_namespace_node_uninstall(Tree, n))
    /\ UNCHANGED <<nsWalk, nsUp>>

\* A field unit or a notification references a node, and lets go of it.
HoldNode(n) ==
    /\ nsUp /\ nsType[n] # NoNode /\ \A m \in NsNode : nsRefs[m] <= 1   \* bound: one hold
    /\ nsRefs' = [nsRefs EXCEPT ![n] = @ + 1]
    /\ UNCHANGED <<nsKids, nsParent, nsName, nsType, nsFlags, nsWalk, nsUp>>

LetGoOfNode(n) ==
    /\ nsRefs[n] = 2 \/ (nsRefs[n] = 1 /\ "DANGLING" \in nsFlags[n])
    /\ SetTree(uacpi_namespace_node_unref(Tree, n))
    /\ UNCHANGED <<nsWalk, nsUp>>

NsInit ==
    /\ nsKids = [n \in NsNode |-> <<>>] /\ nsParent = [n \in NsNode |-> NoNode]
    /\ nsName = [n \in NsNode |-> IF n \in Predefined THEN n ELSE NoNode]
    /\ nsType = [n \in NsNode |-> NoNode] /\ nsFlags = [n \in NsNode |-> {}]
    /\ nsRefs = [n \in NsNode |-> 0] /\ nsWalk = NoNsWalk /\ nsUp = FALSE

NsNext ==
    \/ uacpi_initialize_namespace \/ uacpi_deinitialize_namespace
    \/ \E p \in NsNode, name \in NsName, type \in {"DEVICE", "METHOD"}, b \in BOOLEAN :
          CreateNode(p, name, type, b)
    \/ \E n \in NsNode : MethodReturns(n) \/ HoldNode(n) \/ LetGoOfNode(n)
    \/ \E mask \in {{"DEVICE"}, {"DEVICE", "METHOD"}}, max \in {1, 9}, up \in BOOLEAN :
          uacpi_namespace_do_for_each_child(NsRoot, mask, max, ~up \/ max = 9, up)
    \/ \E d \in {"CONTINUE", "NEXT_PEER", "BREAK"} : CallbackReturns(d)

(***************************************************************************)
(* Properties.                                                             *)
(***************************************************************************)
NsTypeOK ==
    /\ nsKids \in [NsNode -> Seq(NsNode)] /\ nsParent \in [NsNode -> NsNode \cup {NoNode}]
    /\ \A n \in NsNode : nsRefs[n] \in 0 .. 2 /\ nsFlags[n] \subseteq {"TEMPORARY", "DANGLING"}

\* The walk lets go of the lock for every callback, and the tree changes meanwhile:
\* the node it goes on from is still in the tree, no node is called twice, and a walk
\* that ran to its end called every permanent node that was there when it began.
WalkIsSound ==
    /\ nsWalk.node # NoNode => nsWalk.node \in Below(NsRoot)
    /\ ~nsWalk.flaw

\* The absolute path of a node leads back to it from every scope, whatever nodes of
\* the same name there are elsewhere, and fills exactly the bytes allocated for it.
PathsLeadBack ==
    nsUp => \A n \in Below(NsRoot) :
        /\ WriteOffset(n, PathBytes(n) - 1) = 1
        /\ \A s \in Below(NsRoot) : uacpi_namespace_node_resolve(
                s, uacpi_namespace_node_generate_absolute_path(n), TRUE, FALSE) = n

\* Setup puts every predefined node under the root, also after a tear-down.
SetupIsComplete == nsUp => Attached \subseteq Range(nsKids[NsRoot])

\* The tree, the walks over it and the paths through it stay sound while nodes come and go
\* (namespace.c: uacpi_namespace_do_for_each_child, node_resolve, node_generate_absolute_path).
NamespaceIsSound == WalkIsSound /\ PathsLeadBack /\ SetupIsComplete
=============================================================================
