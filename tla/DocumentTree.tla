---------------------------- MODULE DocumentTree ----------------------------
(***************************************************************************)
(* The documents of one share, and what DocumentCache has of them.         *)
(* SambaDocumentsProvider creates, renames, moves, deletes, lists and      *)
(* writes them for one caller at a time, other clients of the server       *)
(* change them at any time, and writes end in coroutines of their own.     *)
(*                                                                         *)
(* An operation with one request is one action: others see the documents   *)
(* only, and a coroutine that finds the cache as it is between the request *)
(* and the update of the cache may as well have run before.  A recursive   *)
(* delete makes many requests, and each is a step.  A request whose answer *)
(* is lost is one that fails, followed by the same change by others.       *)
(***************************************************************************)
EXTENDS Naturals, Sequences, FiniteSets

CONSTANTS
  Names,  \* of documents
  Paths,  \* bound: the documents there may be, as sequences of names
  Dirs,   \* bound: those that may be directories
  Writes, \* bound: how many files are being written at once
  None    \* no entry, no listing, no document

Root == <<>>
Parent(p) == SubSeq(p, 1, Len(p) - 1)
Name(p) == p[Len(p)]
Under(d) == {p \in Paths : Len(p) > Len(d) /\ SubSeq(p, 1, Len(d)) = d}
Uris == Paths \cup {Root}

ASSUME TreeAssumption ==
  /\ Paths \subseteq Seq(Names) /\ Root \notin Paths
  /\ Dirs \subseteq Paths
  /\ Writes \in Nat
  /\ \A p \in Paths : Parent(p) \in Dirs \cup {Root}

VARIABLES
  tree,     \* tree[p]: what is at p on the server: "none", "file" or "dir"
  cache,    \* cache[p]: the DocumentMetadata of p, or None
  deleting, \* the frames of recursiveDeleteFolder, the innermost one last
  doomed,   \* the document of deleteDocument while it runs, or None
  writing,  \* the files opened for writing whose coroutine has not ended
  gone,     \* history: the document deleted last, until there is one again,
            \* or None
  carried,  \* history: whether another directory has been renamed to be its
            \* parent since, and has not been listed there
  seen      \* the documents that have been on the server at some time

vars == <<tree, cache, deleting, doomed, writing, gone, carried, seen>>

Types == {"file", "dir"}
NewEntry(type) == [type |-> type, children |-> None]

(* The uris a DocumentMetadata lists; those of its children are its keys.     *)
Entries == [type : Types, children : (SUBSET Paths) \cup {None}]

(* What is left to do in a directory, None before its children are loaded.    *)
Frames == [dir : Paths, todo : (SUBSET [path : Paths, type : Types]) \cup {None}]

TypeOfUri(u) == IF u = Root THEN "dir" ELSE tree[u]
ChildrenOf(u) == {p \in Paths : Parent(p) = u /\ tree[p] # "none"}
Legal(t) ==
  /\ \A p \in Paths : t[p] = "dir" => p \in Dirs
  /\ \A p \in Paths : t[p] # "none" /\ Parent(p) # Root => t[Parent(p)] = "dir"

TypeOK ==
  /\ tree \in [Paths -> Types \cup {"none"}] /\ Legal(tree)
  /\ cache \in [Uris -> Entries \cup {None}]
  /\ deleting \in Seq(Frames)
  /\ doomed \in Paths \cup {None}
  /\ deleting # <<>> => doomed = deleting[1].dir
  /\ \A i \in 2 .. Len(deleting) : Parent(deleting[i].dir) = deleting[i - 1].dir
  /\ writing \subseteq Paths
  /\ gone \in Paths \cup {None}
  /\ carried \in BOOLEAN
  /\ {p \in Paths : tree[p] # "none"} \subseteq seen /\ seen \subseteq Paths

(* The share itself is in the cache from its mount on. *)
Init ==
  /\ tree \in [Paths -> Types \cup {"none"}] /\ Legal(tree)
  /\ cache = [u \in Uris |-> IF u = Root THEN NewEntry("dir") ELSE None]
  /\ deleting = <<>>
  /\ doomed = None
  /\ writing = {}
  /\ gone = None
  /\ carried = FALSE
  /\ seen = {p \in Paths : tree[p] # "none"}

-----------------------------------------------------------------------------
(* DocumentCache *)

(* Mutant: the parent's listing is left as it is. *)
RemoveEntryOnly(c, u) == [c EXCEPT ![u] = None]

WithChild(e, u) ==
  IF e = None \/ e.children = None THEN e ELSE [e EXCEPT !.children = @ \cup {u}]
WithoutChild(e, u) ==
  IF e = None \/ e.children = None THEN e ELSE [e EXCEPT !.children = @ \ {u}]

Put(c, u, e) == [c EXCEPT ![u] = e, ![Parent(u)] = WithChild(@, u)]

Remove(c, u) == [c EXCEPT ![u] = None, ![Parent(u)] = WithoutChild(@, u)]

Reset(c, u) == IF c[u] = None THEN c ELSE [c EXCEPT ![u].children = None]

-----------------------------------------------------------------------------
(* The server, with libsmbclient in front of it *)

(* The tree has changed to t: what is there is not gone, and has been seen.   *)
TreeBecomes(t, deleted, brought) ==
  /\ tree' = t
  /\ seen' = seen \cup {p \in Paths : t[p] # "none"}
  /\ IF deleted # None /\ t[deleted] = "none"
     THEN gone' = deleted /\ carried' = brought
     ELSE gone' = None /\ carried' = FALSE

CanCreate(p, type) ==
  /\ TypeOfUri(Parent(p)) = "dir"
  /\ tree[p] = "none" \/ (type = "file" /\ tree[p] = "file")
  /\ type = "dir" => p \in Dirs

(* What comes to p, under v, when u becomes v. *)
Source(u, v, p) == u \o SubSeq(p, Len(v) + 1, Len(p))
Renamed(u, v) ==
  [p \in Paths |->
    IF p = v THEN tree[u]
    ELSE IF p \in Under(v)
    THEN IF Source(u, v, p) \in Paths THEN tree[Source(u, v, p)] ELSE "none"
    ELSE IF p \in {u} \cup Under(u) THEN "none" ELSE tree[p]]

(* A file takes another file's place.  All that is moved has to be in Paths.  *)
CanRename(u, v) ==
  /\ tree[u] # "none"
  /\ v \notin Under(u)
  /\ TypeOfUri(Parent(v)) = "dir"
  /\ v = u \/ tree[v] = "none" \/ (tree[u] = "file" /\ tree[v] = "file")
  /\ tree[u] = "dir" => v \in Dirs
  /\ \A p \in Under(u) : tree[p] # "none" =>
       Source(v, u, p) \in IF tree[p] = "dir" THEN Dirs ELSE Paths

Created(p, type) == [tree EXCEPT ![p] = type]
Removed(p) == [tree EXCEPT ![p] = "none"]

(* createFile, which truncates, and mkdir. *)
CreateRequest(p, type) == CanCreate(p, type) /\ TreeBecomes(Created(p, type), gone, carried)

(* A directory that becomes the parent of what is gone brings its listing.    *)
Brings(u, v) == u # v /\ gone # None /\ v = Parent(gone)

RenameRequest(u, v) ==
  /\ CanRename(u, v)
  /\ TreeBecomes(Renamed(u, v), gone, carried \/ Brings(u, v))

Unlink(p) == tree[p] = "file" /\ TreeBecomes(Removed(p), p, FALSE)

(* A directory that has something in it is refused. *)
Rmdir(d) == tree[d] = "dir" /\ ChildrenOf(d) = {} /\ TreeBecomes(Removed(d), d, FALSE)

(* ENOENT: a FileNotFoundException, which is told from other failures. *)
FileNotFound(p) == tree[p] = "none"

-----------------------------------------------------------------------------
(* The documents provider, one call at a time *)

Idle == doomed = None

(* queryDocument of what the cache has not got, and loadDocument. *)
QueryDocument(u) ==
  /\ Idle
  /\ cache[u] = None /\ tree[u] # "none"
  /\ cache' = Put(cache, u, NewEntry(tree[u]))
  /\ UNCHANGED <<tree, deleting, doomed, writing, gone, carried, seen>>

(* queryChildDocuments of what the cache has: loadChildren, and once per      *)
(* child the directory is put into the cache again.                           *)
QueryChildDocuments(u) ==
  /\ Idle
  /\ cache[u] # None /\ cache[u].type = "dir"
  /\ TypeOfUri(u) = "dir"
  /\ LET listed == [cache EXCEPT ![u].children = ChildrenOf(u)] IN
     cache' = IF ChildrenOf(u) = {} \/ u = Root THEN listed ELSE Put(listed, u, listed[u])
  /\ carried' = (carried /\ gone # None /\ u # Parent(gone))
  /\ UNCHANGED <<tree, deleting, doomed, writing, gone, seen>>

(* What the cache has is taken for a file that was truncated. *)
CreateDocument(u, type) ==
  /\ Idle
  /\ CreateRequest(u, type)
  /\ cache' = IF cache[u] # None THEN Reset(cache, u) ELSE Put(cache, u, NewEntry(type))
  /\ UNCHANGED <<deleting, doomed, writing>>

(* The cache after a rename: only the document itself moves in it. *)
RenamedCache(u, v) ==
  IF cache[u] = None THEN cache ELSE Put(Remove(cache, u), v, cache[u])

(* Mutant: the cache is updated whatever becomes of the request. *)
RenameAnyway(u, v) ==
  /\ Idle
  /\ RenameRequest(u, v) \/ (~ CanRename(u, v) /\ UNCHANGED <<tree, gone, carried, seen>>)
  /\ cache' = RenamedCache(u, v)
  /\ UNCHANGED <<deleting, doomed, writing>>

Rename(u, v) ==
  /\ Idle
  /\ RenameRequest(u, v)
  /\ cache' = RenamedCache(u, v)
  /\ UNCHANGED <<deleting, doomed, writing>>

RenameDocument(u, v) == Parent(u) = Parent(v) /\ Rename(u, v)
MoveDocument(u, v) == Name(u) = Name(v) /\ Rename(u, v)

(* openDocument in a mode that writes; no mode creates the file. *)
OpenForWriting(u) ==
  /\ Idle
  /\ tree[u] = "file" /\ u \notin writing
  /\ Cardinality(writing) < Writes
  /\ writing' = writing \cup {u}
  /\ UNCHANGED <<tree, cache, deleting, doomed, gone, carried, seen>>

(* The coroutine of writeAsync, at the end of the write. *)
WriteEnds(u) ==
  /\ u \in writing
  /\ writing' = writing \ {u}
  /\ cache' = Reset(cache, u)
  /\ UNCHANGED <<tree, deleting, doomed, gone, carried, seen>>

-----------------------------------------------------------------------------
(* deleteDocument *)

(* Mutant: the caller goes on while folders are still being deleted. *)
EndedOutside == doomed' = None /\ UNCHANGED deleting

Ended == doomed' = None /\ deleting' = <<>>

Top == deleting[Len(deleting)]
WithTop(frame) == [deleting EXCEPT ![Len(deleting)] = frame]
Popped == SubSeq(deleting, 1, Len(deleting) - 1)
Frame(d) == [dir |-> d, todo |-> None]

(* deleteFile: unlink, and the cache follows. *)
DeleteFile(p) ==
  /\ Unlink(p)
  /\ cache' = Remove(cache, p)

(* The metadata is loaded; a folder is deleted step by step. *)
DeleteDocument(u) ==
  /\ Idle
  /\ tree[u] # "none"
  /\ doomed' = u
  /\ deleting' = IF tree[u] = "dir" THEN <<Frame(u)>> ELSE <<>>
  /\ UNCHANGED <<tree, cache, writing, gone, carried, seen>>

DeleteDoomedFile ==
  /\ doomed # None /\ deleting = <<>>
  /\ DeleteFile(doomed)
  /\ Ended
  /\ UNCHANGED writing

LoadFolder ==
  /\ deleting # <<>> /\ Top.todo = None
  /\ tree[Top.dir] = "dir"
  /\ deleting' = WithTop([Top EXCEPT !.todo =
                            {[path |-> p, type |-> tree[p]] : p \in ChildrenOf(Top.dir)}])
  /\ UNCHANGED <<tree, cache, doomed, writing, gone, carried, seen>>

DeleteChild(child) ==
  /\ deleting # <<>> /\ Top.todo # None
  /\ child \in Top.todo
  /\ LET rest == WithTop([Top EXCEPT !.todo = @ \ {child}]) IN
     IF child.type = "dir"
     THEN /\ deleting' = Append(rest, Frame(child.path))
          /\ UNCHANGED <<tree, cache, gone, carried, seen>>
     ELSE /\ DeleteFile(child.path)
          /\ deleting' = rest
  /\ UNCHANGED <<doomed, writing>>

(* rmdir fails when others have put something into the directory. *)
RemoveFolder ==
  /\ deleting # <<>> /\ Top.todo = {}
  /\ Rmdir(Top.dir)
  /\ cache' = Remove(cache, Top.dir)
  /\ IF Len(deleting) = 1 THEN Ended ELSE deleting' = Popped /\ UNCHANGED doomed
  /\ UNCHANGED writing

(* What the next request of deleteDocument is for. *)
Requested ==
  IF deleting = <<>> THEN {doomed}
  ELSE IF Top.todo \in {None, {}} THEN {Top.dir}
  ELSE {child.path : child \in {c \in Top.todo : c.type = "file"}}

(* FileNotFoundException, of whichever document: there is nothing to delete.  *)
NotFound ==
  /\ doomed # None
  /\ \E p \in Requested : FileNotFound(p)
  /\ cache' = Remove(cache, doomed)
  /\ IF tree[doomed] = "none" THEN gone' = doomed /\ carried' = FALSE
                              ELSE UNCHANGED <<gone, carried>>
  /\ Ended
  /\ UNCHANGED <<tree, writing, seen>>

(* deleteDocument of what is not there when it begins. *)
DeleteNothing(u) ==
  /\ Idle
  /\ FileNotFound(u)
  /\ cache' = Remove(cache, u)
  /\ gone' = u /\ carried' = FALSE
  /\ UNCHANGED <<tree, deleting, doomed, writing, seen>>

(* Any other failure, as that of a request for what has changed its type.     *)
DeleteFails ==
  /\ doomed # None
  /\ Ended
  /\ UNCHANGED <<tree, cache, writing, gone, carried, seen>>

-----------------------------------------------------------------------------
(* Other clients of the server *)

OthersCreate(p, type) ==
  /\ tree[p] = "none" /\ CanCreate(p, type)
  /\ TreeBecomes(Created(p, type), gone, carried)
  /\ UNCHANGED <<cache, deleting, doomed, writing>>

OthersRemove(p) ==
  /\ tree[p] # "none" /\ ChildrenOf(p) = {}
  /\ TreeBecomes(Removed(p), gone, carried)
  /\ UNCHANGED <<cache, deleting, doomed, writing>>

Provider ==
  \/ \E u \in Paths : QueryDocument(u)
  \/ \E u \in Uris : QueryChildDocuments(u)
  \/ \E u \in Paths, type \in Types : CreateDocument(u, type)
  \/ \E u, v \in Paths : RenameDocument(u, v) \/ MoveDocument(u, v)
  \/ \E u \in Paths : OpenForWriting(u) \/ WriteEnds(u)
  \/ \E u \in Paths : DeleteDocument(u) \/ DeleteNothing(u)
  \/ DeleteDoomedFile \/ LoadFolder \/ RemoveFolder \/ NotFound \/ DeleteFails
  \/ \E p \in Paths, type \in Types : DeleteChild([path |-> p, type |-> type])

Others == \E p \in Paths : OthersRemove(p) \/ \E type \in Types : OthersCreate(p, type)

Next == Provider \/ Others

Spec == Init /\ [][Next]_vars
-----------------------------------------------------------------------------
(* The documents that the cache shows: its own, and those it lists. *)
Listed(u) == IF cache[u] = None \/ cache[u].children = None THEN {} ELSE cache[u].children

(***************************************************************************)
(* A document that the provider has deleted, or found deleted, is neither  *)
(* in the cache nor in the listing of its parent until there is one again: *)
(* whatever was renamed, created or listed since, whoever changed the      *)
(* directory while it was deleted, however that ended.  One case is        *)
(* otherwise: renameDocument moves the listing of a directory with the     *)
(* uris of the time when it was loaded, so a directory that had the        *)
(* parent's name once and is given it again lists, until it is loaded      *)
(* anew, what was in it then.                                              *)
(***************************************************************************)
DeletedIsGone ==
  gone # None =>
    /\ cache[gone] = None
    /\ gone \in Listed(Parent(gone)) => carried

(***************************************************************************)
(* The cache shows no document that has never been: "a snapshot of the     *)
(* metadata of a seen document", of some time in the past, also when a     *)
(* request fails and while directories with cached children move.          *)
(***************************************************************************)
NothingInvented ==
  \A u \in Uris : (cache[u] # None => u = Root \/ u \in seen) /\ Listed(u) \subseteq seen

(***************************************************************************)
(* "$documentId is not found. No need to delete it." (deleteDocument): the *)
(* document is not there.                                                  *)
(***************************************************************************)
NotFoundIsNotThere == [][NotFound => tree[doomed] = "none"]_vars
=============================================================================
