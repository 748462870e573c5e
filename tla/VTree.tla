-------------------------------- MODULE VTree -------------------------------
(***************************************************************************)
(* The VNode tree and path lookup of kernel/vfs/vnode.c.                   *)
(*                                                                         *)
(* A directory is a doubly linked list of its children, newest first.      *)
(* Nodes are added with RegisterChildVNode and leave when a process exits: *)
(* SchedulerExit unlinks the node from Proc->FirstChild by hand, then      *)
(* calls UnregisterVNode and DeleteVNode.  Each operation is atomic here;  *)
(* Sched interleaves the stores of those on /proc.                         *)
(*                                                                         *)
(* A path is the sequence of its components; an absolute one is looked up  *)
(* from Root, so a base and a sequence describe every lookup.              *)
(***************************************************************************)
EXTENDS Integers, Sequences, FiniteSets, SequencesExt

CONSTANTS
    Root, Proc, Self,   \* the VNodes /, /proc and /proc/self
    Others,             \* the further VNodes there can be
    Names,              \* the names they can get
    NULL,
    PANIC,              \* a lookup that ends in Panic
    WILD                \* a lookup that reads the flags of a null pointer

Nodes == {Root, Proc, Self} \cup Others

ASSUME NodesAssumption ==
    /\ Cardinality({Root, Proc, Self}) = 3
    /\ Others \cap {Root, Proc, Self} = {}
    /\ IsFiniteSet(Others)
    /\ Nodes \cap {NULL, PANIC, WILD} = {}
    /\ PANIC # NULL

\* No device and no process is called like /proc or what a lookup means
\* by another component.
ASSUME NamesAssumption ==
    /\ NULL \notin Names \cup {"proc", "self"}
    /\ Names \cap {"proc", "..", ".", "~parent", "~self", "~next", "~previous",
                   "~first", "~last"} = {}

VARIABLES
    first,       \* VNode.FirstChild
    next,        \* VNode.Next
    previous,    \* VNode.Previous
    parent,      \* VNode.Parent
    name,        \* VNode.Name
    link,        \* SelfProc->Link
    directory    \* history: the directory each node is registered in

lists == <<first, next, previous, parent>>
vars  == <<lists, name, link, directory>>

\* The children of n in list order: Walk(n)[i] is where i steps along Next
\* from FirstChild lead.
Walk(n) ==
    LET w[i \in 0..Cardinality(Nodes)] ==
            IF i = 0 THEN first[n]
            ELSE IF w[i - 1] = NULL THEN NULL ELSE next[w[i - 1]]
    IN  w
Children(n) == {Walk(n)[i] : i \in DOMAIN Walk(n)} \ {NULL}

Registered == {n \in Nodes : n = Root \/ directory[n] # NULL}

\* As VFSCreateDevices begins: VNodeDefault(Root).
Init ==
    /\ first = [n \in Nodes |-> NULL]
    /\ next = [n \in Nodes |-> NULL]
    /\ previous = [n \in Nodes |-> NULL]
    /\ parent = [n \in Nodes |-> NULL]
    /\ name = [n \in Nodes |-> NULL]
    /\ link = NULL
    /\ directory = [n \in Nodes |-> NULL]

----------------------------------------------------------------------------
\* VNode.Name after NewVNode, VNode.Previous after RegisterChildVNode.
Renamed(new, nm) == [name EXCEPT ![new] = nm]
BackLink(dir, new) ==
    [n \in Nodes |-> IF n = first[dir] THEN new ELSE IF n = new THEN NULL ELSE previous[n]]

(* NewVNode (VNodeDefault clears the pointers), a name nobody in the       *)
(* directory has, and RegisterChildVNode(dir, new).                        *)
RegisterChild(dir, new, nm) ==
    /\ new \in Others \ Registered
    /\ dir \in Registered
    /\ \A c \in Children(dir) : name[c] # nm
    /\ previous' = BackLink(dir, new)
    /\ next' = [next EXCEPT ![new] = first[dir]]
    /\ first' = [first EXCEPT ![dir] = new, ![new] = NULL]
    /\ parent' = [parent EXCEPT ![new] = NULL]
    /\ name' = Renamed(new, nm)
    /\ directory' = [directory EXCEPT ![new] = dir]
    /\ UNCHANGED link

\* /proc in the root and /proc/self in it, once.
SchedulerCreateProcDir ==
    /\ Proc \notin Registered
    /\ previous' = BackLink(Root, Proc)
    /\ next' = [next EXCEPT ![Proc] = first[Root]]
    /\ first' = [first EXCEPT ![Root] = Proc, ![Proc] = Self]
    /\ name' = [name EXCEPT ![Proc] = "proc", ![Self] = "self"]
    /\ directory' = [directory EXCEPT ![Proc] = Root, ![Self] = Proc]
    /\ UNCHANGED <<parent, link>>

\* DeleteVNode frees a node with everything below it.
Subtree(n) ==
    LET below[k \in 0..Cardinality(Nodes)] ==
            IF k = 0 THEN {n}
            ELSE below[k - 1] \cup UNION {Children(m) : m \in below[k - 1]}
    IN  below[Cardinality(Nodes)]

\* Mutant: the head of the list is left to UnregisterVNode.
FirstByUnregister(p) ==
    [n \in Nodes |-> IF first[n] = p /\ n = parent[p] THEN next[p] ELSE first[n]]
\* VNode.FirstChild after both unlinkings.
FirstAfterExit(p) ==
    [n \in Nodes |-> IF first[n] = p /\ n \in {Proc, parent[p]} THEN next[p] ELSE first[n]]

(* SchedulerExit of the process whose node is p.  The first unlinking      *)
(* changes the list the second one works on.                               *)
SchedulerExit(p) ==
    /\ p \in Children(Proc) \ {Self}
    /\ LET unlinked == [n \in Nodes |-> IF first[Proc] # p /\ next[n] = p /\ n \in Children(Proc)
                                        THEN next[p] ELSE next[n]]
       IN  next' = [n \in Nodes |-> IF n = p THEN NULL
                                    ELSE IF n = previous[p] THEN unlinked[p]
                                    ELSE unlinked[n]]
    /\ first' = FirstAfterExit(p)
    /\ previous' = [n \in Nodes |-> IF n = p THEN NULL
                                    ELSE IF n = next[p] THEN previous[p]
                                    ELSE previous[n]]
    /\ parent' = [parent EXCEPT ![p] = NULL]
    /\ directory' = [n \in Nodes |-> IF n \in Subtree(p) THEN NULL ELSE directory[n]]
    /\ UNCHANGED <<name, link>>

\* CommitNextProcess: SelfProc->Link = CurrentProc
CommitNextProcess(p) ==
    /\ p \in Children(Proc) \ {Self}
    /\ link' = p
    /\ UNCHANGED <<lists, name, directory>>

Next ==
    \/ \E dir \in Nodes, new \in Others, nm \in Names : RegisterChild(dir, new, nm)
    \/ SchedulerCreateProcDir
    \/ \E p \in Nodes : SchedulerExit(p) \/ CommitNextProcess(p)

Spec == Init /\ [][Next]_vars

----------------------------------------------------------------------------
(* RelativeFind: what one path component leads to from node n.             *)

OrPanic(n) == IF n = NULL THEN PANIC ELSE n

LastChild(n) == CHOOSE c \in Children(n) : next[c] = NULL

\* Mutant: only the first child is looked at.
NamedFirst(n, nm) == IF first[n] # NULL /\ name[first[n]] = nm THEN first[n] ELSE PANIC
\* The first child in list order with the name, if any.
Named(n, nm) ==
    LET at == {i \in DOMAIN Walk(n) : Walk(n)[i] # NULL /\ name[Walk(n)[i]] = nm}
    IN  IF at = {} THEN PANIC ELSE Walk(n)[CHOOSE i \in at : \A j \in at : i <= j]

Component(n, c) ==
    CASE n \in {NULL, PANIC}      -> PANIC
      [] c \in {"..", "~parent"}  -> IF n = Root THEN n ELSE parent[n]
      [] c \in {".", "~self"}     -> n
      [] c = "~next"              -> OrPanic(next[n])
      [] c = "~previous"          -> OrPanic(previous[n])
      [] c = "~first"             -> OrPanic(first[n])
      [] c = "~last"              -> IF first[n] = NULL THEN PANIC ELSE LastChild(n)
      [] OTHER                    -> Named(n, c)

\* The nodes with VFS_LINK: nobody asks NewVNode for one, SelfProc is made
\* with VFS_SYSTEM alone (core.c:79).
Links == {}

RelativeFind(base, path) ==
    LET n == FoldLeft(Component, base, path)
    IN  IF n = NULL THEN WILD ELSE IF n \in Links THEN link ELSE n

----------------------------------------------------------------------------
\* The directories above a node, and the names that lead down to it.
Up(n) ==
    LET up[k \in 0..Cardinality(Nodes)] ==
            IF k = 0 THEN n ELSE IF up[k - 1] = NULL THEN NULL ELSE directory[up[k - 1]]
    IN  up
Depth(n) == CHOOSE k \in DOMAIN Up(n) : Up(n)[k] = Root
PathOf(n) == [k \in 1..Depth(n) |-> name[Up(n)[Depth(n) - k]]]

(* The state stays within its types, and every registered node but the     *)
(* root has a name.                                                        *)
TypeOK ==
    /\ first \in [Nodes -> Nodes \cup {NULL}]
    /\ next \in [Nodes -> Nodes \cup {NULL}]
    /\ previous \in [Nodes -> Nodes \cup {NULL}]
    /\ parent \in [Nodes -> Nodes \cup {NULL}]
    /\ name \in [Nodes -> Names \cup {"proc", "self", NULL}]
    /\ link \in Nodes \cup {NULL}
    /\ directory \in [Nodes -> Nodes \cup {NULL}]
    /\ \A n \in Registered \ {Root} : name[n] # NULL

(* Each directory lists exactly the nodes registered in it and not yet     *)
(* deleted, although an exit unlinks the node twice: nothing is lost and   *)
(* no lookup can walk into a freed node.                                   *)
ListsExact ==
    \A dir \in Registered : Children(dir) = {n \in Nodes : directory[n] = dir}

(* ~next and ~previous undo each other (kernel architecture.md:63-64), and *)
(* ~first has no ~previous, ~last no ~next.                                *)
SiblingsInverse ==
    \A n \in Registered \ {Root} :
        /\ next[n] # NULL => RelativeFind(n, <<"~next", "~previous">>) = n
        /\ previous[n] # NULL => RelativeFind(n, <<"~previous", "~next">>) = n
        /\ RelativeFind(directory[n], <<"~first", "~previous">>) = PANIC
        /\ RelativeFind(directory[n], <<"~last", "~next">>) = PANIC

(* RegisterChildVNode, UnregisterVNode and an exit keep every directory's  *)
(* list exact, doubly linked and its nodes named.                          *)
ListsSound == TypeOK /\ ListsExact /\ SiblingsInverse

(* Every registered node is found by its absolute path, whatever has been  *)
(* registered and deleted around it.                                       *)
PathsResolve == \A n \in Registered : RelativeFind(Root, PathOf(n)) = n

(* /proc/self, says kernel architecture.md:57, is a "proc side link to     *)
(* /proc/pid": once the timer has set SelfProc->Link, a lookup of it ends  *)
(* at the process that link names.                                         *)
SelfLeadsToProcess ==
    link # NULL => RelativeFind(Root, <<"proc", "self">>) = link

(* "..", says the comment at vnode.c:79, "would be parent".                *)
DotDotIsParent ==
    \A n \in Registered \ {Root} : RelativeFind(n, <<"..">>) = directory[n]
=============================================================================
