------------------------ MODULE FsInterception_proofs ------------------------
(***************************************************************************)
(* Proofs about FsInterception: what is set up is there while it is needed *)
(* (NeededPresent), and which objects are watched: none that is freed      *)
(* (WatchedAlive, NothingUnforgotten), and all that should be              *)
(* (ObjectsWatched).                                                       *)
(***************************************************************************)
EXTENDS FsInterception, SequenceTheorems, TLAPS

-----------------------------------------------------------------------------
(* The inductive invariant. *)

Thing == {FsType, Super} \cup Inode \cup Dentry \cup File

Parts == {Setup[i] : i \in 1 .. Len(Setup)}

(* What is set up is set up in the order of Setup. *)
Begun ==
  /\ up \in Seq(Parts) /\ Len(up) <= Len(Setup)
  /\ \A i \in 1 .. Len(up) : up[i] = Setup[i]
  /\ leaving \in BOOLEAN

Kinds ==
  /\ target \in {"out", "in", "registered"} /\ started \in BOOLEAN
  /\ watch["fst"] \subseteq {FsType} /\ watch["super"] \subseteq {Super}
  /\ watch["dentry"] \subseteq Dentry /\ watch["file"] \subseteq File
  /\ watch["inode"] \subseteq Inode /\ watch["inode_file"] \subseteq Inode
  /\ alive \subseteq Thing
  /\ d_inode \in [Dentry -> Inode \cup {NULL}]
  /\ parent \in [Dentry -> Dentry \cup {NULL}]
  /\ inode \in [File -> Inode \cup {NULL}]
  /\ refused \subseteq Kind

(* Dentry x is in a directory that is in memory. *)
InDir(x) == parent[x] \in Dentry \cap alive /\ d_inode[parent[x]] \in Dir

(* Objects live within those that hold them. *)
Lifetimes ==
  /\ target = "out" => alive = {}
  /\ target # "out" => FsType \in alive
  /\ target = "in" => Super \notin alive
  /\ alive \cap (Inode \cup Dentry) # {} => Super \in alive
  /\ Root.dentry \in alive => d_inode[Root.dentry] = Root.inode
  /\ \A x \in Dentry \cap alive : x = Root.dentry \/ InDir(x)
  /\ \A x \in Dentry : d_inode[x] # NULL => x \in alive /\ d_inode[x] \in alive
  /\ \A x \in File : inode[x] # NULL => x \in alive /\ Names(inode[x]) # {}
  /\ \A x \in File : x \in alive => inode[x] # NULL

(* A handler is called for objects which its operation holds. *)
HandlersHold ==
  \A h \in post : \/ h.type = "dentry" /\ h.object \in Dentry \cap alive
                  \/ h.type = "inode" /\ h.object \in Inode \cap alive

(* What is forgotten whatever watches were refused. *)
Forgotten ==
  /\ target = "out" \/ ~started => \A k \in Kind : watch[k] = {}
  /\ FsType \in watch["fst"] => target = "registered"
  /\ Super \in watch["super"] => Super \in alive /\ FsType \in watch["fst"]
  /\ watch["dentry"] \subseteq alive
  /\ \A x \in watch["file"] : inode[x] # NULL

(* Without the handlers of the super block nothing below it is watched. *)
Below ==
  "super" \notin refused =>
    /\ watch["inode"] \subseteq alive /\ watch["inode_file"] \subseteq alive
    /\ Super \notin watch["super"] =>
         /\ watch["dentry"] \cup watch["inode"] \cup watch["inode_file"] \cup watch["file"] = {}
         /\ post = {}

Complete == started /\ refused = {} /\ Creating \subseteq Handled

(* ObjectsWatched, and the watches by whose handlers the others are made. *)
Above ==
  Complete =>
    /\ target = "registered" => FsType \in watch["fst"]
    /\ Super \in alive => Super \in watch["super"]
    /\ watch["inode"] \subseteq watch["inode_file"]
    /\ \A x \in alive \cap Dentry : Held(x) \/ x \in watch["dentry"] \/ x \in missed
    /\ \A x \in alive \cap Inode : Held(x) \/ x \in watch["inode"] \/ x \in missed
    /\ \A x \in File : inode[x] = NULL \/ x \in missed \/ x \in watch["file"]

Watched == Forgotten /\ Below /\ Above
IInv == Begun /\ Kinds /\ Lifetimes /\ HandlersHold /\ Watched
-----------------------------------------------------------------------------
(* Watching and forgetting, object by object. *)

LEMMA ForgettingIs ==
  ASSUME NEW w, NEW W, W \subseteq Kind \X Thing, NEW k \in Kind, NEW x
  PROVE  x \in Forgetting(w, W)[k] <=> x \in w[k] /\ <<k, x>> \notin W
  BY DEF Forgetting, Of

LEMMA WatchingIs ==
  ASSUME NEW w, NEW W, W \subseteq Kind \X Thing, NEW R, NEW k \in Kind, NEW x
  PROVE  x \in Watching(w, W, R)[k]
           <=> IF started /\ <<k, x>> \in W THEN k \notin R ELSE x \in w[k]
  BY DEF Watching, Of

(* W is watched, but for the interceptors that refuse. *)
WatchedBut(w, W) ==
  \E R \in SUBSET Kind :
    /\ refused' = IF started THEN refused \cup R ELSE refused
    /\ \A k \in Kind : \A x :
         x \in watch'[k] <=> IF started /\ <<k, x>> \in W THEN k \notin R ELSE x \in w[k]

(* W is forgotten. *)
WatchedNot(W) ==
  /\ refused' = refused
  /\ \A k \in Kind : \A x : x \in watch'[k] <=> x \in watch[k] /\ <<k, x>> \notin W

LEMMA RefusalsIs ==
  ASSUME NEW W, W \subseteq Kind \X Thing, NEW R \in Refusals(W)
  PROVE  R \in SUBSET Kind
  BY DEF Refusals

LEMMA WatchesDo ==
  ASSUME NEW W, W \subseteq Kind \X Thing, Watches(W)
  PROVE  WatchedBut(watch, W)
<1>1. PICK R \in Refusals(W) : /\ watch' = Watching(watch, W, R)
                               /\ refused' = IF started THEN refused \cup R ELSE refused
  BY DEF Watches
<1>2. R \in SUBSET Kind
  BY RefusalsIs
<1>3. \A k \in Kind : \A x :
        x \in watch'[k] <=> IF started /\ <<k, x>> \in W THEN k \notin R ELSE x \in watch[k]
  BY <1>1, WatchingIs
<1> QED
  BY <1>1, <1>2, <1>3 DEF WatchedBut

LEMMA ForgetsDo ==
  ASSUME NEW W, W \subseteq Kind \X Thing, Forgets(W)
  PROVE  WatchedNot(W)
  BY ForgettingIs DEF Forgets, WatchedNot
-----------------------------------------------------------------------------
(* The steps. *)

Core == Kinds /\ Lifetimes /\ HandlersHold /\ Watched

LEMMA TargetLoadKeeps == Core /\ TargetLoad => Core'
<1> SUFFICES ASSUME Core, TargetLoad
             PROVE  Core'
  OBVIOUS
<1> USE ObjectAssumption DEF Core, TargetLoad, fs, setup
<1>1. Kinds'
  BY DEF Kinds, Thing
<1>2. Lifetimes'
  BY DEF Kinds, Lifetimes, InDir, Names
<1>3. HandlersHold'
  BY DEF Kinds, Lifetimes, HandlersHold
<1>4. Forgotten'
  BY DEF Kinds, Lifetimes, Watched, Forgotten, Kind
<1>5. Below'
  BY DEF Kinds, Lifetimes, Watched, Forgotten, HandlersHold, Below, Kind
<1>6. Above'
  BY DEF Kinds, Lifetimes, Watched, Forgotten, Above, Complete, Held, Kind
<1> QED
  BY <1>1, <1>2, <1>3, <1>4, <1>5, <1>6 DEF Watched

LEMMA TargetUnloadKeeps == Core /\ TargetUnload => Core'
<1> SUFFICES ASSUME Core, TargetUnload
             PROVE  Core'
  OBVIOUS
<1> USE ObjectAssumption DEF Core, TargetUnload, fs, setup, Unwatched
<1>1. Kinds'
  BY DEF Kinds, Thing, Kind
<1>2. Lifetimes'
  BY DEF Kinds, Lifetimes, InDir, Names
<1>3. HandlersHold'
  BY DEF Kinds, Lifetimes, HandlersHold
<1>4. Forgotten'
  BY DEF Kinds, Lifetimes, Watched, Forgotten, Kind
<1>5. Below'
  BY DEF Kinds, Lifetimes, Watched, Forgotten, HandlersHold, Below, Kind
<1>6. Above'
  BY DEF Kinds, Lifetimes, Watched, Above, Complete, Held
<1> QED
  BY <1>1, <1>2, <1>3, <1>4, <1>5, <1>6 DEF Watched

LEMMA RegisterKeeps == Core /\ Register => Core'
<1> SUFFICES ASSUME Core, Register
             PROVE  Core'
  OBVIOUS
<1> DEFINE W == {<<"fst", FsType>>}
<1>0. W \subseteq Kind \X Thing
  BY DEF Kind, Thing
<1>1. CASE target' = "registered" /\ Watches(W)
  <2> USE ObjectAssumption DEF Core, Register, fs, setup
  <2>0. WatchedBut(watch, W)
    BY <1>0, <1>1, WatchesDo
  <2>1. Kinds'
    BY <1>1, <2>0 DEF Kinds, Thing, Kind, WatchedBut
  <2>2. Lifetimes'
    BY <1>1 DEF Kinds, Lifetimes, InDir, Names
  <2>3. HandlersHold'
    BY DEF HandlersHold
  <2>4. Forgotten'
    BY <1>1, <2>0 DEF Kinds, Lifetimes, Watched, Forgotten, Kind, WatchedBut
  <2>5. Below'
    BY <1>1, <2>0 DEF Kinds, Watched, Below, Kind, WatchedBut
  <2>6. Above'
    BY <1>1, <2>0 DEF Kinds, Lifetimes, Watched, Above, Complete, Held, Kind, WatchedBut, Names
  <2> QED
    BY <2>1, <2>2, <2>3, <2>4, <2>5, <2>6 DEF Watched
<1>2. CASE Forgets(W) /\ UNCHANGED target
  <2> USE ObjectAssumption DEF Core, Register, fs, setup
  <2>0. WatchedNot(W)
    BY <1>0, <1>2, ForgetsDo
  <2>1. Kinds'
    BY <1>2, <2>0 DEF Kinds, Thing, Kind, WatchedNot
  <2>2. Lifetimes'
    BY <1>2 DEF Kinds, Lifetimes, InDir, Names
  <2>3. HandlersHold'
    BY DEF HandlersHold
  <2>4. Forgotten'
    BY <1>2, <2>0 DEF Kinds, Lifetimes, Watched, Forgotten, Kind, WatchedNot
  <2>5. Below'
    BY <1>2, <2>0 DEF Kinds, Watched, Below, Kind, WatchedNot
  <2>6. Above'
    BY <1>2, <2>0 DEF Kinds, Lifetimes, Watched, Above, Complete, Held, Kind, WatchedNot, Names
  <2> QED
    BY <2>1, <2>2, <2>3, <2>4, <2>5, <2>6 DEF Watched
<1> QED
  BY <1>1, <1>2 DEF Register

LEMMA UnregisterKeeps == Core /\ Unregister => Core'
<1> SUFFICES ASSUME Core, Unregister
             PROVE  Core'
  OBVIOUS
<1> DEFINE W == {<<"fst", FsType>>}
<1> USE ObjectAssumption DEF Core, Unregister, fs, setup
<1>0. W \subseteq Kind \X Thing
  BY DEF Kind, Thing
<1>w. WatchedNot(W)
  BY <1>0, ForgetsDo
<1>1. Kinds'
  BY <1>w DEF Kinds, Thing, Kind, WatchedNot
<1>2. Lifetimes'
  BY <1>w DEF Kinds, Lifetimes, InDir, Names
<1>3. HandlersHold'
  BY <1>w DEF Kinds, Lifetimes, HandlersHold
<1>4. Forgotten'
  BY <1>w DEF Kinds, Lifetimes, Watched, Forgotten, Kind, WatchedNot
<1>5. Below'
  BY <1>w DEF Kinds, Lifetimes, HandlersHold, Watched, Forgotten, Below, Kind, WatchedNot
<1>6. Above'
  BY <1>w DEF Kinds, Lifetimes, HandlersHold, Watched, Above, Complete, Held, Names, Kind, WatchedNot
<1> QED
  BY <1>1, <1>2, <1>3, <1>4, <1>5, <1>6 DEF Watched

LEMMA MountKeeps == Core /\ Mount => Core'
<1> SUFFICES ASSUME Core, Mount
             PROVE  Core'
  OBVIOUS
<1> DEFINE W == {<<"super", Super>>, <<"dentry", Root.dentry>>} \cup InodeAll(Root.inode)
<1> USE ObjectAssumption DEF Core, Mount, fs, setup
<1>0. W \subseteq Kind \X Thing
  BY DEF Kind, Thing, InodeAll
<1>1. CASE FsType \in watch["fst"]
  <2>w. WatchedBut(watch, W)
    BY <1>0, <1>1, WatchesDo
  <2>1. Kinds'
    BY <1>1, <2>w DEF Kinds, Thing, Kind, WatchedBut, InodeAll
  <2>2. Lifetimes'
    BY <1>1, <2>w DEF Kinds, Lifetimes, InDir, Names
  <2>3. HandlersHold'
    BY <1>1, <2>w DEF Kinds, Lifetimes, HandlersHold
  <2>4. Forgotten'
    BY <1>1, <2>w DEF Kinds, Lifetimes, Watched, Forgotten, Kind, WatchedBut, InodeAll
  <2>5. Below'
    BY <1>1, <2>w DEF Kinds, Lifetimes, HandlersHold, Watched, Forgotten, Below, Kind, WatchedBut, InodeAll
  <2>6. Above'
    BY <1>1, <2>w DEF Kinds, Lifetimes, HandlersHold, Watched, Above, Complete, Held, Names, Kind, WatchedBut, InodeAll
  <2> QED
    BY <2>1, <2>2, <2>3, <2>4, <2>5, <2>6 DEF Watched
<1>2. CASE FsType \notin watch["fst"]
  <2>0. UNCHANGED <<watch, refused>>
    BY <1>2
  <2>1. Kinds'
    BY <2>0 DEF Kinds, Thing
  <2>2. Lifetimes'
    BY <1>2 DEF Kinds, Lifetimes, InDir, Names
  <2>3. HandlersHold'
    BY <1>2 DEF Kinds, Lifetimes, HandlersHold
  <2>4. Forgotten'
    BY <1>2 DEF Kinds, Lifetimes, Watched, Forgotten, Kind
  <2>5. Below'
    BY <1>2 DEF Kinds, Lifetimes, HandlersHold, Watched, Forgotten, Below, Kind
  <2>6. Above'
    BY <1>2 DEF Kinds, Lifetimes, HandlersHold, Watched, Above, Complete, Held, Names, Kind
  <2> QED
    BY <2>1, <2>2, <2>3, <2>4, <2>5, <2>6 DEF Watched
<1> QED
  BY <1>1, <1>2

LEMMA KillSuperKeeps == Core /\ KillSuper => Core'
<1> SUFFICES ASSUME Core, KillSuper
             PROVE  Core'
  OBVIOUS
<1> DEFINE W == {<<"super", Super>>}
<1> USE ObjectAssumption DEF Core, KillSuper, fs, setup
<1>0. W \subseteq Kind \X Thing
  BY DEF Kind, Thing
<1>1. CASE FsType \in watch["fst"]
  <2>w. WatchedNot(W)
    BY <1>0, <1>1, ForgetsDo
  <2>1. Kinds'
    BY <1>1, <2>w DEF Kinds, Thing, Kind, WatchedNot
  <2>2. Lifetimes'
    BY <1>1, <2>w DEF Kinds, Lifetimes, InDir, Names
  <2>3. HandlersHold'
    BY <1>1, <2>w DEF Kinds, Lifetimes, HandlersHold
  <2>4. Forgotten'
    BY <1>1, <2>w DEF Kinds, Lifetimes, Watched, Forgotten, Kind, WatchedNot
  <2>5. Below'
    BY <1>1, <2>w DEF Kinds, Lifetimes, HandlersHold, Watched, Forgotten, Below, Kind, Names, WatchedNot
  <2>6. Above'
    BY <1>1, <2>w DEF Kinds, Lifetimes, HandlersHold, Watched, Above, Complete, Held, Names, Kind, WatchedNot
  <2> QED
    BY <2>1, <2>2, <2>3, <2>4, <2>5, <2>6 DEF Watched
<1>2. CASE FsType \notin watch["fst"]
  <2>1. Kinds'
    BY <1>2 DEF Kinds, Thing, Kind
  <2>2. Lifetimes'
    BY <1>2 DEF Kinds, Lifetimes, InDir, Names
  <2>3. HandlersHold'
    BY <1>2 DEF Kinds, Lifetimes, HandlersHold
  <2>4. Forgotten'
    BY <1>2 DEF Kinds, Lifetimes, Watched, Forgotten, Kind
  <2>5. Below'
    BY <1>2 DEF Kinds, Lifetimes, HandlersHold, Watched, Forgotten, Below, Kind
  <2>6. Above'
    BY <1>2 DEF Kinds, Lifetimes, HandlersHold, Watched, Above, Complete, Held, Names, Kind
  <2> QED
    BY <2>1, <2>2, <2>3, <2>4, <2>5, <2>6 DEF Watched
<1> QED
  BY <1>1, <1>2

LEMMA RunPostKeeps == Core /\ RunPost => Core'
<1> SUFFICES ASSUME Core, RunPost
             PROVE  Core'
  OBVIOUS
<1> PICK h \in post :
      /\ Watches(IF h.type = "dentry" THEN DentryAll(h.object) ELSE InodeAll(h.object))
      /\ post' = post \ {h}
      /\ UNCHANGED <<setup, target, started, fs, missed>>
  BY DEF RunPost
<1> USE ObjectAssumption DEF Core, fs, setup
<1>1. CASE h.type = "dentry"
  <2> DEFINE x == h.object
             y == d_inode[x]
  <2>0. x \in Dentry \cap alive /\ DentryAll(x) \subseteq Kind \X Thing
    BY <1>1 DEF Kind, Thing, InodeAll, DentryAll, Kinds, HandlersHold
  <2>1. WatchedBut(watch, DentryAll(x))
    BY <1>1, <2>0, WatchesDo
  <2>2. PICK R \in SUBSET Kind :
          /\ refused' = IF started THEN refused \cup R ELSE refused
          /\ \A k \in Kind : \A z :
               z \in watch'[k] <=> IF started /\ <<k, z>> \in DentryAll(x) THEN k \notin R
                                                                         ELSE z \in watch[k]
    BY <2>1 DEF WatchedBut
  <2>3. watch'["fst"] = watch["fst"] /\ watch'["super"] = watch["super"]
        /\ watch'["file"] = watch["file"]
    BY <2>2 DEF Kind, DentryAll, InodeAll
  <2>4. \A z : z \in watch'["dentry"]
                 <=> IF started /\ z = x THEN "dentry" \notin R ELSE z \in watch["dentry"]
    BY <2>2 DEF Kind, DentryAll, InodeAll
  <2>5. \A z : /\ z \in watch'["inode"]
                    <=> IF started /\ z = y /\ y # NULL THEN "inode" \notin R
                                                        ELSE z \in watch["inode"]
               /\ z \in watch'["inode_file"]
                    <=> IF started /\ z = y /\ y # NULL THEN "inode_file" \notin R
                                                        ELSE z \in watch["inode_file"]
    BY <2>2 DEF Kind, DentryAll, InodeAll
  <2>w. R \in SUBSET Kind /\ refused' = IF started THEN refused \cup R ELSE refused
    BY <2>2
  <2>k. Kinds'
    <3>1. y = NULL \/ y \in Inode
      BY <2>0 DEF Kinds
    <3>2. watch'["dentry"] \subseteq Dentry
      BY <2>0, <2>4 DEF Kinds
    <3>3. watch'["inode"] \subseteq Inode /\ watch'["inode_file"] \subseteq Inode
      BY <2>5, <3>1 DEF Kinds
    <3>4. refused' \subseteq Kind
      BY <2>w DEF Kinds
    <3> QED
      BY <2>3, <3>2, <3>3, <3>4 DEF Kinds
  <2>l. Lifetimes'
    BY <1>1, <2>0, <2>3, <2>4, <2>5, <2>w DEF Kinds, Lifetimes, InDir, Names
  <2>h. HandlersHold'
    BY <1>1, <2>0, <2>3, <2>4, <2>5, <2>w DEF Kinds, Lifetimes, HandlersHold
  <2>f. Forgotten'
    BY <1>1, <2>0, <2>3, <2>4, <2>5, <2>w DEF Kinds, Lifetimes, Watched, Forgotten, Kind, HandlersHold
  <2>b. Below'
    BY <1>1, <2>0, <2>3, <2>4, <2>5, <2>w DEF Kinds, Lifetimes, HandlersHold, Watched, Forgotten, Below, Kind
  <2>a. Above'
    BY <1>1, <2>0, <2>3, <2>4, <2>5, <2>w DEF Kinds, Lifetimes, HandlersHold, Watched, Above, Complete, Held, Names, Kind
  <2> QED
    BY <2>k, <2>l, <2>h, <2>f, <2>b, <2>a DEF Watched
<1>2. CASE h.type = "inode"
  <2>0. h.object \in Inode /\ InodeAll(h.object) \subseteq Kind \X Thing
    BY <1>2 DEF Kind, Thing, InodeAll, Kinds, HandlersHold
  <2>w. WatchedBut(watch, InodeAll(h.object))
    BY <1>2, <2>0, WatchesDo
  <2>1. Kinds'
    BY <1>2, <2>0, <2>w DEF Kinds, Thing, Kind, WatchedBut, InodeAll
  <2>2. Lifetimes'
    BY <1>2, <2>0, <2>w DEF Kinds, Lifetimes, InDir, Names
  <2>3. HandlersHold'
    BY <1>2, <2>0, <2>w DEF Kinds, Lifetimes, HandlersHold
  <2>4. Forgotten'
    BY <1>2, <2>0, <2>w DEF Kinds, Lifetimes, Watched, Forgotten, Kind, HandlersHold, WatchedBut, InodeAll
  <2>5. Below'
    BY <1>2, <2>0, <2>w DEF Kinds, Lifetimes, HandlersHold, Watched, Forgotten, Below, Kind, WatchedBut, InodeAll
  <2>6. Above'
    BY <1>2, <2>0, <2>w DEF Kinds, Lifetimes, HandlersHold, Watched, Above, Complete, Held, Names, Kind, WatchedBut, InodeAll
  <2> QED
    BY <2>1, <2>2, <2>3, <2>4, <2>5, <2>6 DEF Watched
<1> QED
  BY <1>1, <1>2 DEF HandlersHold

LEMMA LookupKeeps ==
  ASSUME NEW p \in Dentry, NEW x \in Dentry \ {Root.dentry},
         NEW y \in (Inode \ {Root.inode}) \cup {NULL}, Core, Lookup(p, x, y)
  PROVE  Core'
<1> USE ObjectAssumption DEF Core, Lookup, fs, setup
<1>0. d_inode[p] \in Inode \cap alive /\ p \in alive /\ Super \in alive
  BY DEF Kinds, Lifetimes
<1>p. post' = post \/ post' = post \cup {WatchLater(x), [type |-> "inode", object |-> d_inode[p]]}
  BY DEF After
<1>1. Kinds'
  BY DEF Kinds, Thing, Kind
<1>2. Lifetimes'
  BY <1>0 DEF Kinds, Lifetimes, InDir, Names
<1>3. HandlersHold'
  BY <1>0, <1>p DEF Kinds, HandlersHold, WatchLater
<1>4. Forgotten'
  BY DEF Kinds, Lifetimes, Watched, Forgotten, Kind
<1>5. Below'
  BY DEF Kinds, Lifetimes, HandlersHold, Watched, Forgotten, Below, Kind, After
<1>6. Above'
  <2> SUFFICES ASSUME Complete'
               PROVE  Above!2'
    BY DEF Above
  <2>0. Complete /\ Above!2
    BY DEF Watched, Above, Complete
  <2>1. \A z \in Dentry \cup Inode : z \in alive /\ Held(z) => Held(z)'
    BY <1>p DEF Held, Kinds, HandlersHold, Lifetimes
  <2>2. missed \subseteq missed'
    BY DEF Overlook
  <2>3. (Held(x)' \/ x \in missed') /\ (y \in alive \/ y = NULL \/ Held(y)' \/ y \in missed')
    <3>1. CASE d_inode[p] \in watch["inode"]
      <4>1. WatchLater(x) \in post' /\ WatchLater(x).type = "dentry" /\ WatchLater(x).object = x
        BY <3>1 DEF WatchLater, After
      <4>2. d_inode'[x] = y
        BY DEF Kinds
      <4>3. Held(x)' /\ Held(y)'
        BY <4>1, <4>2 DEF Held
      <4> QED
        BY <4>3
    <3>2. CASE d_inode[p] \notin watch["inode"]
      <4>1. Late(d_inode[p])
        BY <1>0, <2>0, <3>2 DEF Late
      <4>2. missed' = missed \cup ({x, y} \ (alive \cup {NULL}))
        BY <3>2, <4>1 DEF Overlook
      <4> QED
        BY <4>2
    <3> QED
      BY <3>1, <3>2
  <2>4. (\A z \in alive \cap Dentry : Held(z) \/ z \in watch["dentry"] \/ z \in missed)'
    BY <2>0, <2>1, <2>2, <2>3 DEF Kinds
  <2>5. (\A z \in alive \cap Inode : Held(z) \/ z \in watch["inode"] \/ z \in missed)'
    BY <2>0, <2>1, <2>2, <2>3 DEF Kinds
  <2> QED
    BY <2>0, <2>2, <2>4, <2>5
<1> QED
  BY <1>1, <1>2, <1>3, <1>4, <1>5, <1>6 DEF Watched

LEMMA CreateKeeps ==
  ASSUME NEW x \in Dentry \ {Root.dentry}, NEW y \in Inode \ {Root.inode}, NEW op \in Creating,
         Core, Create(x, y, op)
  PROVE  Core'
<1> DEFINE n == d_inode[parent[x]]
<1> USE ObjectAssumption DEF Core, Create, fs, setup
<1>0. n \in Inode \cap alive /\ x \in alive /\ Super \in alive
  BY DEF Kinds, Lifetimes, InDir
<1>p. post' = post \/ post' = post \cup {WatchLater(x)}
  BY DEF After
<1>1. Kinds'
  BY DEF Kinds, Thing, Kind
<1>2. Lifetimes'
  BY <1>0 DEF Kinds, Lifetimes, InDir, Names
<1>3. HandlersHold'
  BY <1>0, <1>p DEF Kinds, HandlersHold, WatchLater
<1>4. Forgotten'
  BY DEF Kinds, Lifetimes, Watched, Forgotten, Kind
<1>5. Below'
  BY DEF Kinds, Lifetimes, HandlersHold, Watched, Forgotten, Below, Kind, After
<1>6. Above'
  <2> SUFFICES ASSUME Complete'
               PROVE  Above!2'
    BY DEF Above
  <2>0. Complete /\ Above!2
    BY DEF Watched, Above, Complete
  <2>1. \A z \in Dentry \cup Inode : z \in alive /\ Held(z) => Held(z)'
    BY <1>p DEF Held, Kinds, HandlersHold, Lifetimes
  <2>2. missed \subseteq missed'
    BY DEF Overlook
  <2>3. y \in alive \/ Held(y)' \/ y \in missed'
    <3>1. CASE n \in watch["inode"]
      <4>1. WatchLater(x) \in post' /\ WatchLater(x).type = "dentry" /\ WatchLater(x).object = x
        BY <2>0, <3>1 DEF WatchLater, After, Complete
      <4>2. d_inode'[x] = y
        BY DEF Kinds
      <4>3. Held(x)' /\ Held(y)'
        BY <4>1, <4>2 DEF Held
      <4> QED
        BY <4>3
    <3>2. CASE n \notin watch["inode"]
      <4>1. Late(n)
        BY <1>0, <2>0, <3>2 DEF Late
      <4>2. missed' = missed \cup ({y} \ alive)
        BY <3>2, <4>1 DEF Overlook
      <4> QED
        BY <4>2
    <3> QED
      BY <3>1, <3>2
  <2>4. (\A z \in alive \cap Dentry : Held(z) \/ z \in watch["dentry"] \/ z \in missed)'
    BY <2>0, <2>1, <2>2 DEF Kinds
  <2>5. (\A z \in alive \cap Inode : Held(z) \/ z \in watch["inode"] \/ z \in missed)'
    BY <2>0, <2>1, <2>2, <2>3 DEF Kinds
  <2> QED
    BY <2>0, <2>2, <2>4, <2>5
<1> QED
  BY <1>1, <1>2, <1>3, <1>4, <1>5, <1>6 DEF Watched

LEMMA TouchKeeps ==
  ASSUME NEW x \in Dentry, Core, Touch(x)
  PROVE  Core'
<1> USE ObjectAssumption DEF Core, Touch, fs, setup, After, WatchLater
<1>1. Kinds'
  BY DEF Kinds, Thing, Kind
<1>2. Lifetimes'
  BY DEF Kinds, Lifetimes, InDir, Names
<1>3. HandlersHold'
  BY DEF Kinds, Lifetimes, HandlersHold
<1>4. Forgotten'
  BY DEF Kinds, Lifetimes, Watched, Forgotten, Kind
<1>5. Below'
  BY DEF Kinds, Lifetimes, HandlersHold, Watched, Forgotten, Below, Kind
<1>6. Above'
  BY DEF Kinds, Lifetimes, HandlersHold, Watched, Above, Complete, Held, Names, Kind
<1> QED
  BY <1>1, <1>2, <1>3, <1>4, <1>5, <1>6 DEF Watched

LEMMA ReleaseDentryKeeps ==
  ASSUME NEW x \in Dentry, Core, ReleaseDentry(x)
  PROVE  Core'
<1> DEFINE W == {<<"dentry", x>>}
<1> USE ObjectAssumption DEF Core, ReleaseDentry, fs, setup
<1>0. W \subseteq Kind \X Thing
  BY DEF Kind, Thing
<1>w. WatchedNot(W)
  BY <1>0, ForgetsDo
<1>1. Kinds'
  BY <1>w DEF Kinds, Thing, Kind, WatchedNot
<1>2. Lifetimes'
  BY <1>w DEF Kinds, Lifetimes, InDir, Names, Open, Within
<1>3. HandlersHold'
  BY <1>w DEF Kinds, Lifetimes, HandlersHold, Held
<1>4. Forgotten'
  BY <1>w DEF Kinds, Lifetimes, Watched, Forgotten, Kind, WatchedNot
<1>5. Below'
  BY <1>w DEF Kinds, Lifetimes, HandlersHold, Watched, Forgotten, Below, Kind, WatchedNot
<1>6. Above'
  BY <1>w DEF Kinds, Lifetimes, HandlersHold, Watched, Above, Complete, Held, Names, Kind, WatchedNot
<1> QED
  BY <1>1, <1>2, <1>3, <1>4, <1>5, <1>6 DEF Watched

LEMMA DestroyInodeKeeps ==
  ASSUME NEW x \in Inode, Core, DestroyInode(x)
  PROVE  Core'
<1> USE ObjectAssumption DEF Core, DestroyInode, fs, setup
<1>0. InodeAll(x) \subseteq Kind \X Thing
  BY DEF Kind, Thing, InodeAll
<1>1. CASE Super \in watch["super"]
  <2>w. WatchedNot(InodeAll(x))
    BY <1>0, <1>1, ForgetsDo
  <2>1. Kinds'
    BY <1>1, <2>w DEF Kinds, Thing, Kind, WatchedNot, InodeAll
  <2>2. Lifetimes'
    BY <1>1, <2>w DEF Kinds, Lifetimes, InDir, Names, Open, Within
  <2>3. HandlersHold'
    BY <1>1, <2>w DEF Kinds, Lifetimes, HandlersHold, Held
  <2>4. Forgotten'
    BY <1>1, <2>w DEF Kinds, Lifetimes, Watched, Forgotten, Kind, WatchedNot, InodeAll
  <2>5. Below'
    BY <1>1, <2>w DEF Kinds, Lifetimes, HandlersHold, Watched, Forgotten, Below, Kind, WatchedNot, InodeAll
  <2>6. Above'
    BY <1>1, <2>w DEF Kinds, Lifetimes, HandlersHold, Watched, Above, Complete, Held, Names, Kind, WatchedNot, InodeAll
  <2> QED
    BY <2>1, <2>2, <2>3, <2>4, <2>5, <2>6 DEF Watched
<1>2. CASE Super \notin watch["super"]
  <2>1. Kinds'
    BY <1>2 DEF Kinds, Thing, Kind
  <2>2. Lifetimes'
    BY <1>2 DEF Kinds, Lifetimes, InDir, Names, Open, Within
  <2>3. HandlersHold'
    BY <1>2 DEF Kinds, Lifetimes, HandlersHold, Held
  <2>4. Forgotten'
    BY <1>2 DEF Kinds, Lifetimes, Watched, Forgotten, Kind
  <2>5. Below'
    BY <1>2 DEF Kinds, Lifetimes, HandlersHold, Watched, Forgotten, Below, Kind
  <2>6. Above'
    BY <1>2 DEF Kinds, Lifetimes, HandlersHold, Watched, Above, Complete, Held, Names, Kind
  <2> QED
    BY <2>1, <2>2, <2>3, <2>4, <2>5, <2>6 DEF Watched
<1> QED
  BY <1>1, <1>2

LEMMA OpenFailsKeeps ==
  ASSUME NEW x \in File, NEW y \in Inode, Core, OpenFails(x, y)
  PROVE  Core'
<1> DEFINE W == {<<"file", x>>}
<1> USE ObjectAssumption DEF Core, OpenFails, fs, setup
<1>0. W \subseteq Kind \X Thing
  BY DEF Kind, Thing
<1>1. CASE y \in watch["inode_file"]
  <2>w. WatchedNot(W)
    BY <1>0, <1>1, ForgetsDo
  <2>1. Kinds'
    BY <1>1, <2>w DEF Kinds, Thing, Kind, WatchedNot
  <2>2. Lifetimes'
    BY <1>1, <2>w DEF Kinds, Lifetimes, InDir, Names
  <2>3. HandlersHold'
    BY <1>1, <2>w DEF Kinds, Lifetimes, HandlersHold
  <2>4. Forgotten'
    BY <1>1, <2>w DEF Kinds, Lifetimes, Watched, Forgotten, Kind, WatchedNot
  <2>5. Below'
    BY <1>1, <2>w DEF Kinds, Lifetimes, HandlersHold, Watched, Forgotten, Below, Kind, WatchedNot
  <2>6. Above'
    BY <1>1, <2>w DEF Kinds, Lifetimes, HandlersHold, Watched, Above, Complete, Held, Names, Kind, WatchedNot
  <2> QED
    BY <2>1, <2>2, <2>3, <2>4, <2>5, <2>6 DEF Watched
<1>2. CASE y \notin watch["inode_file"]
  <2>1. Kinds'
    BY <1>2 DEF Kinds, Thing, Kind
  <2>2. Lifetimes'
    BY <1>2 DEF Kinds, Lifetimes, InDir, Names
  <2>3. HandlersHold'
    BY <1>2 DEF Kinds, Lifetimes, HandlersHold
  <2>4. Forgotten'
    BY <1>2 DEF Kinds, Lifetimes, Watched, Forgotten, Kind
  <2>5. Below'
    BY <1>2 DEF Kinds, Lifetimes, HandlersHold, Watched, Forgotten, Below, Kind
  <2>6. Above'
    BY <1>2 DEF Kinds, Lifetimes, HandlersHold, Watched, Above, Complete, Held, Names, Kind
  <2> QED
    BY <2>1, <2>2, <2>3, <2>4, <2>5, <2>6 DEF Watched
<1> QED
  BY <1>1, <1>2

LEMMA OpenFileKeeps ==
  ASSUME NEW x \in File, NEW y \in Inode, Core, OpenFile(x, y)
  PROVE  Core'
<1> DEFINE W == {<<"file", x>>}
<1> USE ObjectAssumption DEF Core, OpenFile, fs, setup
<1>0. W \subseteq Kind \X Thing
  BY DEF Kind, Thing
<1>a. Complete' => y \in watch["inode_file"] \/ x \in missed'
  BY DEF Kinds, Watched, Above, Complete, Overlook, Late, Watches
<1>m. missed \subseteq missed'
  BY DEF Overlook
<1>1. CASE y \in watch["inode_file"]
  <2>w. WatchedBut(watch, W)
    BY <1>0, <1>1, WatchesDo
  <2>1. Kinds'
    BY <1>1, <2>w DEF Kinds, Thing, Kind, WatchedBut
  <2>2. Lifetimes'
    BY <1>1, <2>w DEF Kinds, Lifetimes, InDir, Names
  <2>3. HandlersHold'
    BY <1>1, <2>w DEF Kinds, Lifetimes, HandlersHold
  <2>4. Forgotten'
    BY <1>1, <2>w DEF Kinds, Lifetimes, Watched, Forgotten, Kind, WatchedBut
  <2>5. Below'
    BY <1>1, <2>w DEF Kinds, Lifetimes, HandlersHold, Watched, Forgotten, Below, Kind, WatchedBut
  <2>6. Above'
    BY <1>1, <1>m, <2>w DEF Kinds, Lifetimes, HandlersHold, Watched, Above, Complete, Held, Names, Kind, WatchedBut
  <2> QED
    BY <2>1, <2>2, <2>3, <2>4, <2>5, <2>6 DEF Watched
<1>2. CASE y \notin watch["inode_file"]
  <2>1. Kinds'
    BY <1>2 DEF Kinds, Thing, Kind
  <2>2. Lifetimes'
    BY <1>2 DEF Kinds, Lifetimes, InDir, Names
  <2>3. HandlersHold'
    BY <1>2 DEF Kinds, Lifetimes, HandlersHold
  <2>4. Forgotten'
    BY <1>2 DEF Kinds, Lifetimes, Watched, Forgotten, Kind
  <2>5. Below'
    BY <1>2 DEF Kinds, Lifetimes, HandlersHold, Watched, Forgotten, Below, Kind
  <2>6. Above'
    BY <1>2, <1>a, <1>m DEF Kinds, Lifetimes, HandlersHold, Watched, Above, Complete, Held, Names, Kind
  <2> QED
    BY <2>1, <2>2, <2>3, <2>4, <2>5, <2>6 DEF Watched
<1> QED
  BY <1>1, <1>2

LEMMA CloseFileKeeps ==
  ASSUME NEW x \in File, Core, CloseFile(x)
  PROVE  Core'
<1> DEFINE W == {<<"file", x>>}
           V == InodeAll(inode[x])
           w == Forgetting(watch, W)
<1> USE ObjectAssumption DEF Core, CloseFile, fs, setup
<1>0. W \subseteq Kind \X Thing /\ V \subseteq Kind \X Thing
  BY DEF Kind, Thing, InodeAll, Kinds
<1> HIDE DEF W, V
<1>1. \A k \in Kind : \A y : y \in w[k] <=> y \in watch[k] /\ <<k, y>> \notin W
  BY <1>0, ForgettingIs
<1>2. CASE watch' = w /\ UNCHANGED refused
  <2>w. WatchedNot(W)
    BY <1>1, <1>2 DEF WatchedNot
  <2>1. Kinds'
    BY <2>w DEF Kinds, Thing, Kind, WatchedNot, W
  <2>2. Lifetimes'
    BY <2>w DEF Kinds, Lifetimes, InDir, Names
  <2>3. HandlersHold'
    BY <2>w DEF Kinds, Lifetimes, HandlersHold
  <2>4. Forgotten'
    BY <2>w DEF Kinds, Lifetimes, Watched, Forgotten, Kind, WatchedNot, W
  <2>5. Below'
    BY <2>w DEF Kinds, Lifetimes, HandlersHold, Watched, Forgotten, Below, Kind, WatchedNot, W
  <2>6. Above'
    BY <2>w DEF Kinds, Lifetimes, HandlersHold, Watched, Above, Complete, Held, Names, Kind, WatchedNot, W
  <2> QED
    BY <2>1, <2>2, <2>3, <2>4, <2>5, <2>6 DEF Watched
<1>3. CASE /\ x \in watch["file"] /\ inode[x] \in Pipe
           /\ \E R \in Refusals(V) :
                watch' = Watching(w, V, R) /\ refused' = refused \cup R
  <2> PICK R \in Refusals(V) : watch' = Watching(w, V, R) /\ refused' = refused \cup R
    BY <1>3
  <2>r. started /\ R \in SUBSET Kind
    BY <1>0, <1>3, RefusalsIs DEF Kinds, Watched, Forgotten, Kind
  <2>a. \A k \in Kind : \A y :
          y \in watch'[k] <=> IF started /\ <<k, y>> \in V THEN k \notin R ELSE y \in w[k]
    BY <1>0, WatchingIs
  <2>1. \A k \in Kind : \A y :
          y \in watch'[k] <=> IF <<k, y>> \in V THEN k \notin R ELSE y \in watch[k] /\ <<k, y>> \notin W
    BY <1>1, <2>a, <2>r
  <2> HIDE DEF w
  <2>2. watch'["fst"] = watch["fst"] /\ watch'["super"] = watch["super"]
        /\ watch'["dentry"] = watch["dentry"]
    BY <2>1 DEF Kind, InodeAll, V, W
  <2>3. \A y : y \in watch'["file"] <=> y \in watch["file"] /\ y # x
    BY <2>1 DEF Kind, InodeAll, V, W
  <2>4. \A y : /\ y \in watch'["inode"]
                    <=> IF y = inode[x] THEN "inode" \notin R ELSE y \in watch["inode"]
               /\ y \in watch'["inode_file"]
                    <=> IF y = inode[x] THEN "inode_file" \notin R ELSE y \in watch["inode_file"]
    BY <2>1 DEF Kind, InodeAll, V, W
  <2>w. refused' = refused \cup R
    OBVIOUS
  <2>k. Kinds'
    BY <1>3, <2>r, <2>2, <2>3, <2>4, <2>w DEF Kinds, Thing, Kind
  <2>l. Lifetimes'
    BY <1>3, <2>r, <2>2, <2>3, <2>4, <2>w DEF Kinds, Lifetimes, InDir, Names
  <2>h. HandlersHold'
    BY <1>3, <2>r, <2>2, <2>3, <2>4, <2>w DEF Kinds, Lifetimes, HandlersHold
  <2>f. Forgotten'
    BY <1>3, <2>r, <2>2, <2>3, <2>4, <2>w DEF Kinds, Lifetimes, Watched, Forgotten, Kind, HandlersHold
  <2>b. Below'
    <3> SUFFICES ASSUME "super" \notin refused'
                 PROVE  Below!2'
      BY DEF Below
    <3>1. "super" \notin refused /\ Super \in watch'["super"]
      BY <1>3, <2>2, <2>w DEF Watched, Below
    <3>2. inode[x] \in alive'
      BY <1>3 DEF Kinds, Lifetimes, Names
    <3>3. watch["inode"] \subseteq alive' /\ watch["inode_file"] \subseteq alive'
      BY <3>1 DEF Kinds, Watched, Below
    <3> QED
      BY <2>4, <3>1, <3>2, <3>3
  <2>o. Above'
    BY <1>3, <2>r, <2>2, <2>3, <2>4, <2>w DEF Kinds, Lifetimes, HandlersHold, Watched, Above, Complete, Held, Names, Kind
  <2> QED
    BY <2>k, <2>l, <2>h, <2>f, <2>b, <2>o DEF Watched
<1> QED
  BY <1>2, <1>3 DEF w, V, W

LEMMA OthersKeep == Core /\ UNCHANGED <<target, started, watch, fs, post, refused, missed>> => Core'
<1> SUFFICES ASSUME Core, UNCHANGED <<target, started, watch, fs, post, refused, missed>>
             PROVE  Core'
  OBVIOUS
<1>1. Kinds' /\ Lifetimes' /\ HandlersHold'
  BY DEF Core, Kinds, Lifetimes, HandlersHold, InDir, Names, fs
<1>2. Forgotten' /\ Below' /\ Above'
  BY DEF Core, Watched, Forgotten, Below, Above, Complete, Held, Names, fs
<1> QED
  BY <1>1, <1>2 DEF Core, Watched

LEMMA CoreKept == Core /\ [Next]_vars => Core'
<1> SUFFICES ASSUME Core, [Next]_vars
             PROVE  Core'
  OBVIOUS
<1>1. CASE SetUp \/ Exit \/ TearDown
  BY <1>1, OthersKeep DEF SetUp, Exit, TearDown
<1>2. CASE TargetLoad \/ TargetUnload \/ Register \/ Unregister
  BY <1>2, TargetLoadKeeps, TargetUnloadKeeps, RegisterKeeps, UnregisterKeeps
<1>3. CASE Mount \/ KillSuper \/ RunPost
  BY <1>3, MountKeeps, KillSuperKeeps, RunPostKeeps
<1>4. ASSUME NEW x \in Dentry \ {Root.dentry},
             \/ \E p \in Dentry, n \in (Inode \ {Root.inode}) \cup {NULL} : Lookup(p, x, n)
             \/ \E n \in Inode \ {Root.inode}, op \in Creating : Create(x, n, op)
      PROVE  Core'
  BY <1>4, LookupKeeps, CreateKeeps
<1>5. ASSUME NEW x \in Dentry, Touch(x) \/ ReleaseDentry(x)
      PROVE  Core'
  BY <1>5, TouchKeeps, ReleaseDentryKeeps
<1>6. ASSUME NEW x \in Inode, DestroyInode(x)
      PROVE  Core'
  BY <1>6, DestroyInodeKeeps
<1>7. ASSUME NEW x \in File, CloseFile(x) \/ \E n \in Inode : OpenFails(x, n) \/ OpenFile(x, n)
      PROVE  Core'
  BY <1>7, OpenFailsKeeps, OpenFileKeeps, CloseFileKeeps
<1>8. CASE UNCHANGED vars
  BY <1>8, OthersKeep DEF vars
<1> QED
  BY <1>1, <1>2, <1>3, <1>4, <1>5, <1>6, <1>7, <1>8 DEF Next

LEMMA SetupIs == Setup \in Seq(Parts) /\ Len(Setup) = 15
<1>1. Len(Setup) = 15 /\ Setup \in Seq({Setup[i] : i \in 1 .. 15})
  BY DEF Setup
<1> QED
  BY <1>1 DEF Parts

LEMMA FrontIs ==
  ASSUME NEW S, NEW s \in Seq(S), Len(s) # 0
  PROVE  /\ Front(s) \in Seq(S) /\ Len(Front(s)) = Len(s) - 1
         /\ \A i \in 1 .. Len(s) - 1 : Front(s)[i] = s[i]
<1>1. \A i \in 1 .. Len(s) - 1 : s[i] \in S
  OBVIOUS
<1>2. 1 \in Int /\ Len(s) - 1 \in Nat
  OBVIOUS
<1> DEFINE m == Len(s) - 1
           t == SubSeq(s, 1, m)
<1>3. t \in Seq(S) /\ Len(t) = IF 1 <= m THEN m - 1 + 1 ELSE 0
  BY <1>1, <1>2, SubSeqProperties
<1>4. \A i \in 1 .. m - 1 + 1 : t[i] = s[1 + i - 1]
  BY <1>1, <1>2, SubSeqProperties
<1>5. \A i \in 1 .. m : t[i] = s[i]
  BY <1>2, <1>4
<1>6. Front(s) = t
  BY DEF Front
<1> HIDE DEF t
<1> QED
  BY <1>2, <1>3, <1>5, <1>6

LEMMA BegunKept == Begun /\ [Next]_vars => Begun'
<1> SUFFICES ASSUME Begun, [Next]_vars
             PROVE  Begun'
  OBVIOUS
<1>1. CASE SetUp
  <2>0. Len(up) \in Nat
    BY DEF Begun
  <2>1. Len(up) < Len(Setup) => Setup[Len(up) + 1] \in Parts
    <3> DEFINE n == Len(up) + 1
               m == Len(Setup)
    <3>1. m \in Nat
      BY SetupIs
    <3>2. Len(up) < m => n \in 1 .. m
      BY <2>0, <3>1
    <3>3. \A i \in 1 .. m : Setup[i] \in Parts
      BY DEF Parts
    <3> HIDE DEF n, m
    <3> QED
      BY <3>2, <3>3 DEF n, m
  <2>2. CASE leaving' = TRUE /\ UNCHANGED up
    BY <2>2 DEF Begun
  <2>3. CASE up' = Append(up, Setup[Len(up) + 1]) /\ UNCHANGED leaving
    <3>1. Len(up) < Len(Setup)
      BY <1>1 DEF SetUp
    <3>2. up' \in Seq(Parts) /\ Len(up') = Len(up) + 1
      BY <2>1, <2>3, <3>1 DEF Begun
    <3>3. \A i \in 1 .. Len(up') : up'[i] = Setup[i]
      BY <2>3, <3>2 DEF Begun
    <3> QED
      BY <2>3, <3>1, <3>2, <3>3, SetupIs DEF Begun
  <2> QED
    BY <1>1, <2>2, <2>3 DEF SetUp
<1>2. CASE TearDown
  <2> SUFFICES ASSUME up # <<>>
               PROVE  Begun'
    BY <1>2 DEF TearDown, Begun
  <2>1. Len(up) \in Nat \ {0}
    BY DEF Begun
  <2>2. /\ Front(up) \in Seq(Parts) /\ Len(Front(up)) = Len(up) - 1
        /\ \A i \in 1 .. Len(up) - 1 : Front(up)[i] = up[i]
    BY <2>1, FrontIs DEF Begun
  <2>3. up' = Front(up) /\ UNCHANGED leaving
    BY <1>2 DEF TearDown
  <2>4. up' \in Seq(Parts) /\ Len(up') <= Len(Setup)
    BY <2>1, <2>2, <2>3, SetupIs DEF Begun
  <2>5. \A i \in 1 .. Len(up') : up'[i] = Setup[i]
    BY <2>1, <2>2, <2>3 DEF Begun
  <2> QED
    BY <2>3, <2>4, <2>5 DEF Begun
<1>3. ASSUME UNCHANGED up, leaving' \in BOOLEAN
      PROVE  Begun'
  BY <1>3 DEF Begun
<1>4. CASE Exit
  BY <1>3, <1>4 DEF Exit
<1>5. CASE UNCHANGED setup
  BY <1>3, <1>5 DEF setup, Begun
<1>6. [Next]_vars => SetUp \/ TearDown \/ Exit \/ UNCHANGED setup
  BY DEF Next, vars, TargetLoad, TargetUnload, Register, Unregister, Mount, KillSuper,
         RunPost, Lookup, Create, Touch, ReleaseDentry, DestroyInode, CloseFile, OpenFails,
         OpenFile
<1> QED
  BY <1>1, <1>2, <1>4, <1>5, <1>6
-----------------------------------------------------------------------------
(* What the invariant says of the properties. *)

LEMMA NeedsEarlier ==
  ASSUME NEW i \in 1 .. Len(Setup)
  PROVE  \A y \in Needs(Setup[i]) : \E j \in 1 .. i : Setup[j] = y
<1> DEFINE Before(y) == \E j \in 1 .. i : Setup[j] = y
<1>1. i \in 1 .. 15
  BY DEF Setup
<1>2. CASE i \in {6, 7, 12}
  <2>1. Needs(Setup[i]) = {"file"} \/ Needs(Setup[i]) = {}
    BY <1>2 DEF Needs, Setup
  <2>2. Setup[1] = "file" /\ 1 \in 1 .. i
    BY <1>2 DEF Setup
  <2> QED
    BY <2>1, <2>2
<1> QED
  BY <1>1 DEF Needs, Setup

LEMMA NeededFollows == Begun => NeededPresent
<1> SUFFICES ASSUME Begun, NEW x \in ToSet(up), NEW y \in Needs(x)
             PROVE  y \in ToSet(up)
  BY DEF NeededPresent
<1>1. PICK i \in 1 .. Len(up) : up[i] = x
  BY DEF ToSet, Begun
<1>2. x = Setup[i] /\ i \in 1 .. Len(Setup)
  BY <1>1 DEF Begun
<1>3. PICK j \in 1 .. i : Setup[j] = y
  BY <1>2, NeedsEarlier
<1> QED
  BY <1>2, <1>3 DEF Begun, ToSet

LEMMA PrefixFollows == Begun => IsPrefix(up, Setup)
<1> SUFFICES ASSUME Begun
             PROVE  SubSeq(up, 1, Len(up)) = SubSeq(Setup, 1, Len(up))
  BY DEF Begun, IsPrefix
<1> QED
  BY SetupIs DEF Begun

LEMMA AllForgotten == Core => NothingUnforgotten
<1> SUFFICES ASSUME Core, target = "out" \/ (target = "in" /\ "super" \notin refused)
             PROVE  \A k \in Kind : watch[k] = {}
  BY DEF NothingUnforgotten
<1>1. CASE target = "out"
  BY <1>1 DEF Core, Watched, Forgotten
<1>2. CASE target = "in" /\ "super" \notin refused
  BY <1>2 DEF Core, Kinds, Lifetimes, Watched, Forgotten, Below, Kind
<1> QED
  BY <1>1, <1>2
-----------------------------------------------------------------------------
LEMMA Initially == Init => IInv
<1> SUFFICES ASSUME Init
             PROVE  IInv
  OBVIOUS
<1>1. Begun
  <2>1. up \in Seq(Parts) /\ Len(up) = 0
    BY DEF Init
  <2>2. leaving \in BOOLEAN
    BY DEF Init
  <2> QED
    BY <2>1, <2>2, SetupIs DEF Begun
<1>2. Kinds /\ Lifetimes /\ HandlersHold
  BY ObjectAssumption DEF Init, Kinds, Lifetimes, HandlersHold, Names, Unwatched, Kind
<1>3. Watched
  BY ObjectAssumption
     DEF Init, Watched, Forgotten, Below, Above, Complete, Unwatched, Kind
<1> QED
  BY <1>1, <1>2, <1>3 DEF IInv

(* The invariant on which the theorems below rest: the order of set-up, the
   lifetimes of objects, and what is watched after refusals. *)
THEOREM Invariant == Spec => []IInv
<1>1. IInv /\ [Next]_vars => IInv'
  BY CoreKept, BegunKept DEF IInv, Core
<1> QED
  BY Initially, <1>1, PTL DEF Spec

(* Watches, names and files are of the kinds of objects they are for. *)
THEOREM TypeCorrect == Spec => []TypeOK
<1>1. IInv => TypeOK
  BY PrefixFollows DEF IInv, Begun, Kinds, TypeOK, Thing
<1> QED
  BY <1>1, Invariant, PTL

(* What is set up is there as long as something set up needs it, at every
   point of the initialisation, its error path and the exit. *)
THEOREM AlwaysNeeded == Spec => []NeededPresent
<1>1. IInv => NeededPresent
  BY NeededFollows DEF IInv
<1> QED
  BY <1>1, Invariant, PTL

(* No object is watched that is freed, in whatever order operations end and
   handlers run, unless the super block could not be watched. *)
THEOREM NoneIsFreed == Spec => []WatchedAlive
<1>1. IInv => WatchedAlive
  BY DEF IInv, Kinds, Lifetimes, Watched, Forgotten, Below, WatchedAlive, Kind
<1> QED
  BY <1>1, Invariant, PTL

(* No object is watched any more when the target is unloaded. *)
THEOREM NoneIsLeft == Spec => []NothingUnforgotten
<1>1. IInv => NothingUnforgotten
  BY AllForgotten DEF IInv, Core
<1> QED
  BY <1>1, Invariant, PTL

(* If no watch was refused, every object is watched, once the handler of the
   operation it comes from has run, unless it came by way of a directory or an
   inode that was used before its own handler had run. *)
THEOREM AllAreWatched == Spec => []ObjectsWatched
<1>1. IInv => ObjectsWatched
  BY ObjectAssumption DEF IInv, Kinds, Lifetimes, Watched, Above, Complete, ObjectsWatched, IsWatched
<1> QED
  BY <1>1, Invariant, PTL
==============================================================================
