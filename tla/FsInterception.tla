--------------------------- MODULE FsInterception ---------------------------
(***************************************************************************)
(* The example file_access_counter: interceptors for the objects of a file *)
(* system, whose handlers watch and forget the objects of each other       *)
(* (examples/file_access_counter/fs_interception.c and module.c), and the  *)
(* file system, that is the kernel which creates and frees the objects.    *)
(*                                                                         *)
(* A handler which runs after an operation does so later than the effect   *)
(* of the operation: in between others may find the new object.            *)
(***************************************************************************)
EXTENDS Naturals, Sequences, FiniteSets, SequencesExt

CONSTANTS
  FsType, Super,  \* a file system type and its super block
  Inode, Dentry, File,
  Dir,         \* inodes of directories
  Root,        \* Root.dentry and Root.inode, created with the super block
  Pipe,        \* inodes of named pipes
  Creating,    \* operations of a directory that create files
  MaxRefused,  \* bound: interceptors that refuse a watch between load and unload
  NULL

ASSUME ObjectAssumption ==
  /\ Root \in [dentry : Dentry, inode : Dir]
  /\ Dir \subseteq Inode \ Pipe
  /\ NULL \notin {FsType, Super} \cup Inode \cup Dentry \cup File
  /\ FsType # Super /\ {FsType, Super} \cap (Inode \cup Dentry \cup File) = {}
  /\ Inode \cap Dentry = {} /\ Inode \cap File = {} /\ Dentry \cap File = {}

(* create, mkdir and link have handlers; mknod and symlink have none. *)
Handled == {"create", "mkdir", "link"}

(* The interceptors; inode_file is a factory interceptor which watches an
   inode for the file operations its files get. *)
Kind == {"file", "inode", "dentry", "super", "fst", "inode_file"}

VARIABLES
  up,       \* what the initialisation of the module has set up, in order
  leaving,  \* the module is being removed, or its initialisation failed
  target,   \* the module of the file system: "out", "in", "registered"
  started,  \* the interceptors are started
  watch,    \* watch[k]: the objects which interceptor k watches
  alive,    \* objects in memory
  d_inode,  \* d_inode[d]: the inode of dentry d, or NULL
  parent,   \* parent[d]: the dentry of the directory d is in, or NULL
  inode,    \* inode[f]: the inode of file f, or NULL if f is not open
  post,     \* handlers that are to run after an operation that has run
  refused,  \* interceptors which have refused a watch (history)
  missed    \* objects that came by way of an inode not watched yet, or of
            \* one in this set (history)

setup == <<up, leaving>>
fs    == <<alive, d_inode, parent, inode>>
vars  == <<setup, target, started, watch, fs, post, refused, missed>>
-----------------------------------------------------------------------------
(* Initialisation of the module: interceptors are created, then payloads are
   registered, and at last the calls of the target module are intercepted. *)
Setup == <<"file", "fst", "super", "dentry", "inode", "inode_file",
           "file_payload", "inode_payload", "dentry_payload", "super_payload",
           "fst_payload", "counter_payload", "mount_payload", "functions", "kedr_payload">>

(* What has to be there as long as x is. *)
Needs(x) ==
  CASE x \in {"file_payload", "inode_file", "counter_payload"} -> {"file"}
    [] x \in {"fst_payload", "mount_payload"} -> {"fst"}
    [] x = "super_payload"  -> {"super"}
    [] x = "dentry_payload" -> {"dentry"}
    [] x = "inode_payload"  -> {"inode"}
    [] x = "kedr_payload"   -> {"functions"}
    [] OTHER -> {}

SetUp ==
  /\ ~leaving /\ Len(up) < Len(Setup)
  /\ \/ up' = Append(up, Setup[Len(up) + 1]) /\ UNCHANGED leaving
     \/ leaving' = TRUE /\ UNCHANGED up
  /\ UNCHANGED <<target, started, watch, fs, post, refused, missed>>

(* module_exit; not while there is a target. *)
Exit ==
  /\ ~leaving /\ up = Setup /\ target = "out"
  /\ leaving' = TRUE
  /\ UNCHANGED <<up, target, started, watch, fs, post, refused, missed>>

(* Mistake: the interceptor of files goes before its factory interceptor. *)
TearDownForward ==
  /\ leaving
  /\ IF up = <<>> THEN leaving' = FALSE /\ UNCHANGED up
                  ELSE up' = Tail(up) /\ UNCHANGED leaving
  /\ UNCHANGED <<target, started, watch, fs, post, refused, missed>>

(* The labels of the error path, and the exit, undo the last step first. *)
TearDown ==
  /\ leaving
  /\ IF up = <<>> THEN leaving' = FALSE /\ UNCHANGED up
                  ELSE up' = Front(up) /\ UNCHANGED leaving
  /\ UNCHANGED <<target, started, watch, fs, post, refused, missed>>
-----------------------------------------------------------------------------
(* Watching.  W is a set of pairs of an interceptor and an object. *)

InodeAll(n)  == {<<"inode", n>>, <<"inode_file", n>>}
DentryAll(d) == {<<"dentry", d>>} \cup IF d_inode[d] = NULL THEN {} ELSE InodeAll(d_inode[d])

Of(W, k) == {x \in UNION {{w[2]} : w \in W} : <<k, x>> \in W}

(* The watches of the interceptors in R are refused: the objects are not
   watched, or forgotten.  Nothing checks the results. *)
Refusals(W) == {R \in SUBSET {w[1] : w \in W} : Cardinality(refused \cup R) <= MaxRefused}

Watching(w, W, R) ==
  IF started
  THEN [k \in Kind |-> IF k \in R THEN w[k] \ Of(W, k) ELSE w[k] \cup Of(W, k)]
  ELSE w

Forgetting(w, W) == [k \in Kind |-> w[k] \ Of(W, k)]

Watches(W) ==
  \E R \in Refusals(W) :
    /\ watch' = Watching(watch, W, R)
    /\ refused' = IF started THEN refused \cup R ELSE refused
Forgets(W) == watch' = Forgetting(watch, W) /\ UNCHANGED refused

(* Handlers to be run after an operation of x, an object of interceptor k. *)
After(k, x, handlers) ==
  post' = IF x \in watch[k] THEN post \cup handlers ELSE post

(* The caller of an operation holds the objects given to it. *)
Held(x) ==
  \E h \in post : \/ h.object = x
                  \/ h.type = "dentry" /\ d_inode[h.object] = x

RunPost ==
  \E h \in post :
    /\ Watches(IF h.type = "dentry" THEN DentryAll(h.object) ELSE InodeAll(h.object))
    /\ post' = post \ {h}
    /\ UNCHANGED <<setup, target, started, fs, missed>>
-----------------------------------------------------------------------------
(* The module of the file system. *)

Unwatched == [k \in Kind |-> {}]

(* on_target_load does not look whether the start failed. *)
TargetLoad ==
  /\ up = Setup /\ ~leaving /\ target = "out"
  /\ target' = "in" /\ alive' = {FsType}
  /\ started' \in BOOLEAN
  /\ refused' = {} /\ missed' = {}
  /\ UNCHANGED <<setup, watch, d_inode, parent, inode, post>>

TargetUnload ==
  /\ target = "in"
  /\ target' = "out" /\ alive' = {}
  /\ started' = FALSE /\ watch' = Unwatched
  /\ UNCHANGED <<setup, d_inode, parent, inode, post, refused, missed>>

(* The type is watched before the call, forgotten if the call fails. *)
Register ==
  /\ target = "in"
  /\ \/ target' = "registered" /\ Watches({<<"fst", FsType>>})
     \/ Forgets({<<"fst", FsType>>}) /\ UNCHANGED target
  /\ UNCHANGED <<setup, started, fs, post, missed>>

Unregister ==
  /\ target = "registered" /\ Super \notin alive
  /\ target' = "in" /\ Forgets({<<"fst", FsType>>})
  /\ UNCHANGED <<setup, started, fs, post, missed>>

(* Mistake: the root is not watched. *)
MountNoRoot ==
  /\ target = "registered" /\ Super \notin alive
  /\ alive' = alive \cup {Super, Root.dentry, Root.inode}
  /\ d_inode' = [d_inode EXCEPT ![Root.dentry] = Root.inode]
  /\ IF FsType \in watch["fst"] THEN Watches({<<"super", Super>>})
                                ELSE UNCHANGED <<watch, refused>>
  /\ UNCHANGED <<setup, target, started, parent, inode, post, missed>>

(* The handlers of mount watch the super block, then the root; who mounts
   has not shown the root to others yet. *)
Mount ==
  /\ target = "registered" /\ Super \notin alive
  /\ alive' = alive \cup {Super, Root.dentry, Root.inode}
  /\ d_inode' = [d_inode EXCEPT ![Root.dentry] = Root.inode]
  /\ IF FsType \in watch["fst"]
     THEN Watches({<<"super", Super>>, <<"dentry", Root.dentry>>} \cup InodeAll(Root.inode))
     ELSE UNCHANGED <<watch, refused>>
  /\ UNCHANGED <<setup, target, started, parent, inode, post, missed>>

(* kill_sb has freed all objects of the super block. *)
KillSuper ==
  /\ Super \in alive /\ alive \cap (Inode \cup Dentry) = {}
  /\ alive' = alive \ {Super}
  /\ IF FsType \in watch["fst"] THEN Forgets({<<"super", Super>>})
                                ELSE UNCHANGED <<watch, refused>>
  /\ UNCHANGED <<setup, target, started, d_inode, parent, inode, post, missed>>
-----------------------------------------------------------------------------
(* Operations of inodes and dentries. *)

Open(n)    == {f \in File : n # NULL /\ inode[f] = n}
Names(n)   == {d \in Dentry \cap alive : d_inode[d] = n}
Within(p)  == {d \in Dentry \cap alive : parent[d] = p}
WatchLater(d) == [type |-> "dentry", object |-> d]

(* Objects new come by way of inode n, whose operations those of interceptor
   k are not yet, or never will be: the objects are missed. *)
Late(n) == Held(n) \/ n \in missed
Overlook(k, n, new) ==
  missed' = IF n \notin watch[k] /\ Late(n) THEN missed \cup new ELSE missed

(* Dentry d is found in directory p, for an inode in memory or on disk or for
   none.  The operations of the directory may have been changed: its inode is
   watched again. *)
Lookup(p, d, n) ==
  /\ p \in alive /\ d_inode[p] \in Dir /\ d \notin alive
  /\ n \in Dir => Names(n) = {}
  /\ alive' = alive \cup {d} \cup ({n} \ {NULL})
  /\ d_inode' = [d_inode EXCEPT ![d] = n] /\ parent' = [parent EXCEPT ![d] = p]
  /\ After("inode", d_inode[p],
           {WatchLater(d), [type |-> "inode", object |-> d_inode[p]]})
  /\ Overlook("inode", d_inode[p], {d, n} \ (alive \cup {NULL}))
  /\ UNCHANGED <<setup, target, started, watch, inode, refused>>

(* A negative dentry gets an inode: a new one, or by link another name. *)
Create(d, n, op) ==
  /\ d \in alive /\ d_inode[d] = NULL
  /\ n \in alive <=> op = "link"
  /\ op = "link" => n \notin Dir
  /\ op # "link" => (n \in Dir <=> op = "mkdir")
  /\ alive' = alive \cup {n}
  /\ d_inode' = [d_inode EXCEPT ![d] = n]
  /\ LET dir == d_inode[parent[d]]
     IN  /\ IF op \in Handled THEN After("inode", dir, {WatchLater(d)}) ELSE UNCHANGED post
         /\ Overlook("inode", dir, {n} \ alive)
  /\ UNCHANGED <<setup, target, started, watch, parent, inode, refused>>

(* getattr and d_revalidate: the dentry is watched again. *)
Touch(d) ==
  /\ d \in alive
  /\ \/ d_inode[d] # NULL /\ After("inode", d_inode[d], {WatchLater(d)})
     \/ After("dentry", d, {WatchLater(d)})
  /\ UNCHANGED <<setup, target, started, watch, fs, refused, missed>>

(* Mistake: the handler is called only for a dentry with an inode. *)
ReleaseDentryNegative(d) ==
  /\ d \in alive /\ ~Held(d) /\ Open(d_inode[d]) = {} /\ Within(d) = {}
  /\ alive' = alive \ {d} /\ missed' = missed \ {d}
  /\ d_inode' = [d_inode EXCEPT ![d] = NULL] /\ parent' = [parent EXCEPT ![d] = NULL]
  /\ IF d_inode[d] # NULL THEN Forgets({<<"dentry", d>>}) ELSE UNCHANGED <<watch, refused>>
  /\ UNCHANGED <<setup, target, started, inode, post>>

ReleaseDentry(d) ==
  /\ d \in alive /\ ~Held(d) /\ Open(d_inode[d]) = {} /\ Within(d) = {}
  /\ alive' = alive \ {d} /\ missed' = missed \ {d}
  /\ d_inode' = [d_inode EXCEPT ![d] = NULL] /\ parent' = [parent EXCEPT ![d] = NULL]
  /\ Forgets({<<"dentry", d>>})
  /\ UNCHANGED <<setup, target, started, inode, post>>

(* The handler is one of the super block. *)
DestroyInode(n) ==
  /\ n \in alive /\ ~Held(n) /\ Open(n) = {} /\ Names(n) = {}
  /\ alive' = alive \ {n} /\ missed' = missed \ {n}
  /\ IF Super \in watch["super"] THEN Forgets(InodeAll(n)) ELSE UNCHANGED <<watch, refused>>
  /\ UNCHANGED <<setup, target, started, d_inode, parent, inode, post>>
-----------------------------------------------------------------------------
(* Operations of files. *)

(* Mistake: a file whose open fails is not forgotten. *)
OpenFailsKept(f, n) ==
  /\ n \in alive /\ Names(n) # {} /\ inode[f] = NULL
  /\ IF n \in watch["inode_file"] THEN Watches({<<"file", f>>})
                                  ELSE UNCHANGED <<watch, refused>>
  /\ UNCHANGED <<setup, target, started, fs, post, missed>>

(* The operation was called, and by the factory interceptor the file watched;
   when the operation fails the file is forgotten. *)
OpenFails(f, n) ==
  /\ n \in alive /\ Names(n) # {} /\ inode[f] = NULL
  /\ IF n \in watch["inode_file"] THEN Forgets({<<"file", f>>})
                                  ELSE UNCHANGED <<watch, refused>>
  /\ UNCHANGED <<setup, target, started, fs, post, missed>>

OpenFile(f, n) ==
  /\ n \in alive /\ Names(n) # {} /\ inode[f] = NULL
  /\ inode' = [inode EXCEPT ![f] = n] /\ alive' = alive \cup {f}
  /\ IF n \in watch["inode_file"] THEN Watches({<<"file", f>>})
                                  ELSE UNCHANGED <<watch, refused>>
  /\ Overlook("inode_file", n, {f})
  /\ UNCHANGED <<setup, target, started, d_inode, parent, post>>

(* release: the file is forgotten.  If the operation has succeeded, the inode
   is watched again, of whatever type but with none of the bits of a link, a
   regular file or a directory: that is a pipe. *)
CloseFile(f) ==
  /\ inode[f] # NULL
  /\ inode' = [inode EXCEPT ![f] = NULL] /\ alive' = alive \ {f}
  /\ LET w == Forgetting(watch, {<<"file", f>>})
     IN  \/ watch' = w /\ UNCHANGED refused
         \/ /\ f \in watch["file"] /\ inode[f] \in Pipe
            /\ \E R \in Refusals(InodeAll(inode[f])) :
                 watch' = Watching(w, InodeAll(inode[f]), R) /\ refused' = refused \cup R
  /\ missed' = missed \ {f}
  /\ UNCHANGED <<setup, target, started, d_inode, parent, post>>
-----------------------------------------------------------------------------
Init ==
  /\ up = <<>> /\ leaving = FALSE
  /\ target = "out" /\ started = FALSE /\ watch = Unwatched
  /\ alive = {} /\ d_inode = [d \in Dentry |-> NULL]
  /\ parent = [d \in Dentry |-> NULL] /\ inode = [f \in File |-> NULL]
  /\ post = {} /\ refused = {} /\ missed = {}

Next ==
  \/ SetUp \/ Exit \/ TearDown
  \/ TargetLoad \/ TargetUnload \/ Register \/ Unregister
  \/ Mount \/ KillSuper \/ RunPost
  \/ \E d \in Dentry \ {Root.dentry} :
       \/ \E p \in Dentry, n \in (Inode \ {Root.inode}) \cup {NULL} : Lookup(p, d, n)
       \/ \E n \in Inode \ {Root.inode}, op \in Creating : Create(d, n, op)
  \/ \E d \in Dentry : Touch(d) \/ ReleaseDentry(d)
  \/ \E n \in Inode : DestroyInode(n)
  \/ \E f \in File : CloseFile(f) \/ \E n \in Inode : OpenFails(f, n) \/ OpenFile(f, n)

Spec == Init /\ [][Next]_vars
-----------------------------------------------------------------------------
(* Objects are of the kinds their interceptors watch. *)
TypeOK ==
  /\ IsPrefix(up, Setup) /\ leaving \in BOOLEAN
  /\ target \in {"out", "in", "registered"} /\ started \in BOOLEAN
  /\ watch["fst"] \subseteq {FsType} /\ watch["super"] \subseteq {Super}
  /\ watch["dentry"] \subseteq Dentry /\ watch["file"] \subseteq File
  /\ watch["inode"] \cup watch["inode_file"] \subseteq Inode
  /\ alive \subseteq {FsType, Super} \cup Inode \cup Dentry \cup File
  /\ d_inode \in [Dentry -> Inode \cup {NULL}] /\ parent \in [Dentry -> Dentry \cup {NULL}]
  /\ inode \in [File -> Inode \cup {NULL}]

(* What is set up is there as long as it is needed: a payload is registered
   with an interceptor which exists, a factory interceptor is bound to one. *)
NeededPresent == \A x \in ToSet(up) : Needs(x) \subseteq ToSet(up)

(* Every object which is watched is in memory, whatever watches were refused,
   unless it was that of the super block whose handler forgets the inodes. *)
WatchedAlive ==
  "super" \notin refused => \A k \in Kind : watch[k] \subseteq alive

(* When the target is unloaded no object is left which was not forgotten. *)
NothingUnforgotten ==
  target = "out" \/ (target = "in" /\ "super" \notin refused)
    => \A k \in Kind : watch[k] = {}

IsWatched(x) ==
  x \in watch[IF x \in Dentry THEN "dentry" ELSE IF x \in Inode THEN "inode" ELSE "file"]

(* Of "all super blocks, dentries, inodes and files ... are watched" this much
   holds.  Objects that a handler is still to watch are waited for; of the
   others every one that is not watched came, perhaps by way of several
   directories, from an inode used before its own handler had run.  No order
   of operations and handlers, release and reuse loses another one. *)
ObjectsWatched ==
  started /\ refused = {} /\ Creating \subseteq Handled =>
    /\ Super \in alive => Super \in watch["super"]
    /\ \A x \in alive \cap (Dentry \cup Inode \cup File) :
         Held(x) \/ IsWatched(x) \/ x \in missed
=============================================================================
