# Samba Documents Provider: specifications and proofs

This directory holds a formal model of the Samba Documents Provider, the Android application that shows SMB shares
in the system's file picker.  The models are TLA+ modules written from the Java, Kotlin and C++ sources, TLC checks
them on small instances, and TLAPS proves the central ones for every instance.  `PROJECT.json` lists every run,
every property with a mutation of the model that breaks it, every definition with the source lines it stands for,
and every hazard of the code that we know of.

In this document `J` stands for `src/app/src/main/java/com/google/android/sambadocumentsprovider` and `C` for
`src/app/src/main/cpp`.

## 1. The system

libsmbclient may be used by one thread only.  Everything else follows from this: the application talks to it through
a looper thread, the threads of the file picker wait for answers of that looper, what was answered is cached, and
what the looper's library asks back (a credential) has to be in a native cache beforehand.

| Component | State it keeps | Operations | Module |
|---|---|---|---|
| Message bridge (`J/nativefacade/BaseClient.kt`, `MessageValues.java`, `SambaMessageLooper.java`, `*Client.kt`) | a pool of reply holders, their monitors, the looper's queue | every call of `SmbFacade`, `SmbDir`, `SmbFile`, `CredentialCache` | `MessageBridge` implements `SmbRpc` |
| Share registry (`J/ShareManager.kt`) | tuples of the shares, the set of mounted ones, a preferences file, listeners | `addServer`, `unmountServer`, constructor, getters | `ShareMounts` implements `ShareRegistry` |
| Credential cache (`C/credential_cache`) | two maps and the flag that selects one | put, remove, setTempMode, get | `CredentialCache` |
| Mounting and login (`J/mount/MountServerActivity.kt`, `J/auth/AuthActivity.kt`) | the coroutine of an attempt | mount, edit, log in, cancel | in `ShareMounts` |
| Network browser (`J/browsing/NetworkBrowser.kt`) | none of its own; it switches the credential cache over | `getShares` | in `ShareMounts` |
| Listings (`J/provider/SambaDocumentsProvider.kt`, `J/base/DocumentCursor.kt`) | running tasks, cursors of clients, coroutines | `queryChildDocuments`, close, notify | `DirectoryListing` |
| Documents (`J/provider/SambaDocumentsProvider.kt`) | none of its own; the cache | create, rename, move, delete, query, write | `DocumentTree` |
| Document cache (`J/cache`, `J/document/DocumentMetadata.kt`) | documents with children, stat, time stamp; exceptions; a pool of results | get, put, remove, load | `DocumentEntry`; `DirectoryListing`, `DocumentTree` |
| Task manager (`J/TaskManager.kt`) | the latest task of each URI | `runTask` | in `DirectoryListing` |
| Files (`J/nativefacade/SmbFile.kt`, `SambaFile.kt`, `J/provider/SambaProxyFileCallback.kt`, `ByteBufferPool.kt`) | position, buffers | streams, proxy callbacks, pipes | `NativeFiles` implements `RemoteFile` |
| Native facade (`J/nativefacade/NativeSambaFacade.java`, `C/samba_client`, `C/jni_helper`) | the SMB context and its handles | reset, open, read, write, close; requests on a URI | `NativeFiles`; requests on a URI in `DocumentTree` |
| Components (`J/Components.kt`) | singletons | initialize, network callback | in `NativeFiles` |
| Configuration (`J/SambaConfiguration.kt`) | `smb.conf`, and what the SMB context has read of it | flush, read, sync, write | `SambaConfiguration`, composed in `Startup` |
| Encryption (`J/encryption`) | a key in the key store, an initialisation vector in preferences | load or generate, encrypt, decrypt | `EncryptedStore` implements `SavedShares`, composed in `Startup` |
| Server list (`J/mount/ServerListActivity.kt`) | the shares that it shows | open, listener, leave | `ServerList` |
| Broadcast, master browsing (`J/browsing`) | none | read NetBIOS answers | not modelled: nothing calls it |
| mDNS (`J/mount/MdnsManager.kt`) | the set of services found | found, resolved, lost | not modelled, see section 6 |
| Views and helpers (`J/utils.kt`, adapters, layouts) | Android views | | not modelled |

### How the parts interact

* A binder thread of the file picker enters the provider.  The provider reads the document cache, and on a miss calls
  the facade.  The call becomes a message to the looper; the thread waits on the monitor of the message's
  `MessageValues` (**monitor, queue**).
* The looper runs the native operation.  libsmbclient connects and asks `SambaClient::GetAuthData` for a credential,
  which the native credential cache has or has not (**callback**).
* The activities and the provider use `ShareManager`, whose methods are `@Synchronized`; it fills the credential cache,
  by calls through the same looper, and saves its tuples with `SharedPreferences.apply()`, which writes the file later
  (**shared state, crash**).
* `NetworkBrowser` switches the one credential cache into a temporary mode, lists a server and switches back, with other
  threads' requests between its own (**interleaving**).
* The provider loads directories and stats in coroutines; `TaskManager` is to keep two of them from loading the same URI.
  No lock is held while a request is under way, so that what it brings back is stored into a cache that other threads have
  changed meanwhile (**stale answers**).
* `Components.initialize()` loads the shares, which needs the key and the vector, then brings `smb.conf` up to date in a
  coroutine, and the callback of the network makes SMB contexts at any time (**order of a start, deaths in between**).
* `ServerListActivity` looks at the shares and then has `ShareManager` call it on changes (**missed notifications**).

### What is hard, and what makes each part correct

* *Bridge.*  A holder is recycled while others still look for one; a reply must reach the call it belongs to; a
  notification must not come before the wait.  Correct if: no holder serves two calls, none starts with an old reply,
  no wakeup is lost, every call returns its own outcome, every call ends.
* *Shares.*  Four pieces of state change one by one, with failing checks, failing encryption, cancellation and crashes
  between them.  Correct if: operations are all or nothing, no credential outlives its share, none is wrong, browsing
  neither uses nor leaves anything in the credentials of the mounted shares.  Of an empty user name the second and third are
  not so, as the properties say.
* *Listing.*  Loads that are ignored, fail or are cancelled.  Correct if: a cursor that says it is loading is notified, a
  client that asks again after each notification comes to an end, one URI is not loaded twice at once.
* *Documents.*  Cached documents against a tree that the user and other clients change.  Correct if: what was deleted
  through the provider is not shown, and nothing is that never was.
* *Files.*  Open files and directories when the context they belong to is replaced, transfers that fail half way, closes
  that throw.  Correct if: every client reads and writes where its last transfer ended, what is open is in use, a
  part of a directory is not taken for the whole unseen, the end of a write is reported.
* *One document under several threads.*  Each thread asks the server, and others delete or write the file before it stores
  the answer.  Correct if: once a deletion or a write has been told to the clients, nobody finds the document or a stat
  from before, except through an answer that was under way at that moment.
* *Saved shares.*  A key, a vector and the encrypted strings are in three places, written at different times.  Correct if:
  strings can always be decrypted at the next start, a start finds the shares of one earlier moment, and no death of a
  process keeps every later one from starting.
* *Configuration.*  `smb.conf` is truncated and written line by line while contexts read it.  Correct if: the context ends
  with the lines of the file, and the file is the defaults or the settings of one file of the user's.
* *Server list.*  Correct if: it has the shares that are stored.

## 2. Modules

```
MessageBridge   implements SmbRpc (both with SmbReply)           MCMessageBridge, MessageBridgeProofs
ShareMounts     implements ShareRegistry (with CredentialCache)  MCShareMounts, ShareMountsProofs
  ServerList    extends ShareMounts                              MCServerList, ShareMountsProofs
DirectoryListing                                                 MCDirectoryListing, DirectoryListingProofs
DocumentTree                                                     MCDocumentTree, DocumentTreeProofs,
                                                                 DocumentTreeTypes
DocumentEntry                                                    MCDocumentEntry, DocumentEntryProofs
NativeFiles     implements RemoteFile                            MCNativeFiles, NativeFilesProofs
Startup         composes EncryptedStore and SambaConfiguration   MCStartup, StartupProofs
  EncryptedStore implements SavedShares
```

**`SmbReply`** has the outcomes of native operations and what a caller sees of each.  Callers differ in one thing only,
how they consume the reply: they read a value (`getObj`, `getInt`, `getLong`), only check for an exception, or look at
nothing.

**`SmbRpc`** is what the facade promises: a call is executed once, and returns the outcome of that execution.

**`MessageBridge`** is the code.  One action is one step that other threads can see: obtaining a holder, entering
its monitor, sending the message, waiting, waking up, reading the reply, the two parts of `close()`, and on the looper
taking a message, entering the monitor, processing, notifying and leaving.  Java's `wait()` releases the monitor and
has to take it again, and it may return without a `notify()` (`WakeSpuriously`; the constant `SpuriousWakeups` bounds how
often).  Arguments of calls are left out, and values are model values: no property tells them apart but by whose
they are.  Callbacks of proxy files, which run on the looper itself and use no message, are part of the files.

**`CredentialCache`** is the C++ class as operators.  A user name and a password are one model value; the empty
user name is `Guest`.  The keys are the shares and `smb://server/IPC$` of the one server that is browsed.

**`ShareRegistry`** is what `ShareManager` promises: between call and return an operation takes effect at one
moment or not at all, and a crash goes back to what was saved.

**`ShareMounts`** is `ShareManager`, the activities that call it and `NetworkBrowser`.  `stored` is
`serverStringMap`, `mounted` is `mountedServerSet`, `disk` the preferences file and `lock` the object's monitor.
Every request to the credential cache is a step of its own, since each is a message to the Samba thread, where
requests of threads that hold no lock come in between.  `Save` is the moment at which the file catches up with
`apply()`, `Crash` kills the process at any moment and restarts it with `ShareManager`'s constructor, whose operations
on the cache come before any other thread can have the object.  A mount that was cancelled goes on to unmount the share
(`HandleCancel`) unless it was refused or failed.  An empty user name puts nothing into the cache, and takes nothing out of
it.  `former` remembers which credential a share had before it became a guest's, `browsed` the credentials that were put for
listings, and `disturbed` the listings that overlapped another one.  Encrypted strings are not distinguished from what they
encrypt; that encrypting fails is the constant `EncryptionFails`.

**`ServerList`** puts the activity that shows the stored shares beside `ShareMounts`.  It looks at them once (`Open`),
adds its listener later (`AddListener`), and the last step of each operation that ends with `notifyServerChange` calls
it.  `missed` remembers that the shares changed between the two.

**`DirectoryListing`** has clients that list one directory.  A thread in `queryChildDocuments` goes through `find` (lines
177-181), `fetch` (`loadDocument`, which two threads may be in at once), `get` (187), the exceptions of earlier loads, the
two steps of `TaskManager.runTask`, the load, which stores what it has read before it closes the directory, the `cache.put`
that the code makes once per child with the directory itself, the rows and `setNotificationUri`; the coroutine of line 213
goes through the same two steps of `runTask`, the stats one by one, and the notification. `entry` is the cache's document of
the directory, `doc` the objects that threads may still look at after they have been replaced in the cache: `Cached` is
whether there is one to begin with, and garbage collection is what makes finitely many of them enough.  `Detached` is what
happens to a coroutine whose children have been replaced by another load: it goes on, and nobody sees it.

**`DocumentTree`** has the server's tree, the cache and one caller of the provider beside other clients of the server.
An operation with one request is one action; the recursive delete is a stack of frames, one step per request.  `gone`,
`seen` and `carried` only remember: a deleted document, what has ever been, and whether a rename has brought a listing to the
name of the deleted document's parent.  The operators of the server (`CreateRequest`, `RenameRequest`, `Unlink`, `Rmdir`) are the
native calls; of their failures only ENODEV and ENOENT are told from others (`FileNotFound`).  Stats and notifications are left out.

**`DocumentEntry`** is one document with several threads and coroutines, each step of which is a request to the server or
one access to a map.  `entry` is what `DocumentCache` has of it and `child` what its parent's listing has, which may be
different objects; `stat[o]` is the version of the file that an object's stat is of, 0 when it has none.  `obj[c]` and
`job[j]` are the local variables that hold an object from the moment it is found until it is stored.  `using`, `pool` and
`refused` are `CacheResult`'s pool.  An object that nothing refers to may be used again, as garbage collection allows.
`overtaken` and `outdated` remember that the file was deleted or changed while a thread held an answer about it.

**`RemoteFile`** is a file with clients that each have a position: what they read and write is there, and a transfer
that fails may have got through in part.

**`NativeFiles`** has what is open in libsmbclient.  A descriptor is named by its owner: `fds[o]` is `valid`, `stale` once
`reset()` has replaced the context (reading or closing it then fails with EBADF), or `none`; `position[o]` is where a file
is read or written next, and `left[o]` the entries a directory has still to give.  From Android O on a stream is a proxy,
whose callbacks are actions of the Samba thread; before (`minSdkVersion` is 24) it is a pipe with a coroutine.  `Vanish` is
the end of the process, which several failures lead to: an exception that no coroutine handler catches, and `exit(1)` when a
context cannot be freed.  The action of a read or write is the whole loop over ranges of a buffer's size, since the loop
runs on the Samba thread or, for pipes, in the only user of the file.  A stream is `refused` when the platform has made no
proxy for the file that is open already (`RefuseProxy`).  A listing keeps what is in the directory's `DocumentMetadata`
after it: `listed` is what was read, and stored before `close()`, `failed` the exception that the next query throws once
(`Rethrow`).  `EndListing` may come before the end, because `ReadDir` takes every NULL for it.  `known` remembers why a part
may be given for the whole: an error of `smbc_readdir` has cut it, or a query has thrown the exception.  What the module
takes from libsmbclient's header: a freed context closes its files, `smbc_read` gives 0 at the end, `smbc_readdir` gives
NULL at the end and for an error.  That the memory of a freed file is used for a new one, so that an old descriptor would
refer to it, is not modelled.

**`SavedShares`** is what saving promises: a start finds the shares as some earlier change left them, never older than the
last save.  **`EncryptedStore`** is `EncryptionManager` and the part of `ShareManager` that saves.  The key store is written
at once; the two preference files are written by the platform's thread from one queue, in the order of the `apply()` calls,
which is what `QueuedWork` does.  A string decrypts with the vector it was encrypted with.  A write may fail without
anybody's knowledge (`LoseWrite`), and `lost` remembers that one of the vector has.

**`SambaConfiguration`** is `smb.conf` as a set of lines, `Truncate` and one `PrintLine` per line (a `PrintStream` swallows
errors), the user's external file, a sequence of lines with its time stamp, and the context, which reads the file when it is
made and `HOME` is set.  `read()` takes the external file line by line (`ReadLine`), which the user may meanwhile remove,
replace or write over; a line is a setting when it splits in exactly two at " = " (the constant `Key` has its key), anything
else is passed over, and of a key the last line stays (`Put`).  **`Startup`** runs the store and the configuration in one
process: the main thread first starts the store, then launches the coroutine; the process dies at any step, or of an
exception (`Throw`, `ConfThrows`).

## 3. Runs

| Run | Shows | Instance |
|---|---|---|
| `bridge_refines` | the bridge implements `SmbRpc`, liveness included; no holder serves two calls or starts dirty, each call gets its own reply | 2 threads, 3 holders, pool of 1 |
| `bridge_robust` | no wakeup is lost (whoever waits has its present call's message under way) and every call ends, one `wait()` returning too early | 2 threads, 4 holders, pool of 1 |
| `shares_credentials` | no credential outlives its share or is wrong; the server list has the stored shares | 2 users, 1 share, 2 credentials, 1 list |
| `shares_browsing` | `ShareManager` implements `ShareRegistry`; a listing that overlaps no other has its own credential beside a mount, and leaves nothing behind; the mode ends with the last of several | 1 user, 2 browsers, encryption may fail |
| `shares_update_finds` | *violation*: after a login, the next update (a login or an edit) finds no server | 1 user |
| `listing_types` | the listing's state is well formed with every failure, a removal or an expiry; no coroutine ends unheard by the client of its cursor | 2 clients, 1 file, 2 coroutines, nothing cached |
| `listing_shared` | a loading cursor is notified, and clients that ask again come to an end | the same, the directory cached and not removed |
| `tree_cache` | what was deleted is not shown unless a rename brought its listing back, and nothing is shown that never was | 2 directories, a file in each |
| `tree_not_found` | *violation*: a folder is taken for gone because one of its documents is | the same |
| `entry_races` | a told deletion or write is not undone by another thread, but for answers that were under way; the pool has room | 2 threads, 1 coroutine, 3 versions, pool of 2 |
| `files_handles` | `NativeFiles` implements `RemoteFile`; what is open is in use but for a refused proxy's file, a listing that a reset cut short is told, writes are reported | 2 streams, 1 listing |
| `startup` | what is saved can be read and is one earlier state; context and file agree, and the file is one file's settings; no death keeps the next process from starting | 1 share, 2 contents, 2 vectors, 2 writes, 1 default line, 2 external files |

### Bounds, and why they are enough

* A pool of one holder (20 in the code) is empty when a second call begins and full when a second one ends: with two or
  three threads both happen.  There are more holders than threads, so that a new one can always be made, as on the
  Java heap; a holder that nobody refers to may be made again, as new.
* Three threads are one that waits, one that obtains what the first has recycled and one more behind it in the queue.
* One value is enough: a reply that is another call's shows as a stale field, since `outcome` is reset by each call.
  With two threads and one early return `OwnReply` is violated: `SpuriousWakeups = 1` in `bridge_refines` shows it.
* One share: `ShareManager`'s operations on different shares touch different keys, and the lock excludes them from
  each other.  Two credentials make a wrong one possible.  Two users are one in an operation and one that comes in between.
  Two browsers are enough for listings that overlap, and for one after another that was disturbed; one credential and the guest
  tell a listing's own from another's.
* `disk` has no bound of its own: it is always some earlier value of `stored`.
* Two clients of a directory are one that loads and one that is ignored for it, two coroutines one that runs and one
  whose cursor is closed.  `Disturbances` (one) is how often the directory is removed or expires in a behaviour.  Four
  objects are one in the cache, two that the clients look at, and a new one.  Both runs have failing loads.  `listing_shared`
  begins with the directory in the cache (`Cached`), which leaves out its loading: two clients that load it at once make two
  objects, whose coroutines `listing_types` explores, and too many states for the liveness check.
* `MCPaths`: two directories with one file each are enough for a rename onto another name, a move between directories,
  a directory that is replaced, and a recursive delete of two levels with others in between.  One write at a time.
* A buffer of one byte, requests of up to two and a file of up to two make requests of several ranges, reads across the
  end of the file and gaps; two streams are two positions in one file, one entry suffices for a part of a directory.
* `entry_races`: two threads are one that holds an answer and one that deletes or writes; the coroutine is a third.  Three
  versions are a stat from before a write, one from after it and one more.  Each of the two threads and the coroutine holds
  at most one object and the cache two: five is as many as can be referred to.
* `startup`: two writes that wait are the vector's and one of the shares, or two of the shares, so that the file may be one
  behind or two; two vectors make a wrong one possible.  A file that is truncated and not yet written is one cut short.  Of
  the two external files one has two lines of one key and the other a section only, and neither has the default: what is read
  of one written over by the other is neither's, and a mixture shows.
* No run bounds the number of calls; only the changes of a file in `entry_races` are counted.

### Fairness

The bridge assumes weak fairness of the looper and of each thread once it is in a call: the looper is a running
thread, native operations return (libsmbclient has timeouts), and a thread that can run runs.  Weak fairness is
enough for the monitors, because whoever holds one (the looper in `handleMessage`, the caller between sending and
waiting) is the only one that competes for it, and gives it back.  Nothing makes a thread call again.

The listing assumes weak fairness of each query and of each coroutine, which run on threads of a pool and whose requests
return.  `SpecRefreshing` adds that a client which was notified asks again, as the file picker does.  `NativeFiles`
assumes it of the coroutine of a pipe, when it starts and when its pipe has ended, and of the coroutine that waits for a
proxy's release; nothing makes a client close what it has opened, and `WriteIsReported` begins when it has.

`Startup` assumes it of the main thread, which goes through the constructors, and of the coroutine: nothing makes the
platform write what waits, the user change a file, or a process live.  `StartsUp` therefore has processes that are killed,
or fail at their configuration, again and again as its exception.  No liveness property is stated of the shares, of the
tree and of one entry: their operations end because each of their requests does, which is the bridge's `CallsReturn`.

## 4. Proofs

`MessageBridgeProofs` proves, for every set of threads and holders, every pool size:

* `TypeCorrect`: the type invariant, whatever `SpuriousWakeups` is.
* `NoLostWakeupHolds`: whoever waits has the message of its present call under way, whatever `SpuriousWakeups` is.  Early
  returns leave messages of calls that have ended, whose holders others may have obtained meanwhile; their `notify()` is
  shown to take nobody's wakeup away.
* `HolderExclusiveHolds`, `StartsCleanHolds`, `OwnReplyHolds`: the other safety invariants of the runs, assuming
  `SpuriousWakeups = 0`.  The assumption is needed: with one early return TLC finds a counterexample.
* `BridgeImplementsRpc`: every step of the bridge is a step of `SmbRpc` or leaves its variables as they are.

None of the four invariants is inductive by itself.  A wakeup is not lost because the message is sent inside the monitor
that the looper needs for the `notify()`, and because the looper's `notify()` finds at most one thread, which needs that
nobody else holds the instance.  `Waking` is the conjunction of the type invariant and

* `Holding`: distinct calls hold distinct instances, and those in the pool are held by nobody;
* `Monitors`: who has each monitor, by the program counters (so that nobody notifies between the sending and the wait);
* `Sent`: a call that has sent its message and was not notified is in flight.

Every step keeps it, an early return included (`WakingNext`).  `OwnReply` needs besides that the fields of the holder are
those of the call's own execution from the moment it is processed until they are read, which needs that no message of an
earlier call is still under way with it.  The inductive invariant `IInv` is `Waking` with

* `Queued`: a queued message is that of a call that waits, or is about to, for this very holder, and there is one
  message per call;
* `Handled`: the same for the message in the looper's hands, by where the looper is;
* `Carried`: what the fields of each holder are, by the phase of its call.

Both proofs have one step per action.  Only `WakeSpuriously` breaks `IInv`, which is where the assumption comes in.  The
refinement is proved from the same invariant: reading the reply is the abstract `Return`, processing is `Execute`,
obtaining is `Call`, everything else stutters.

Assumptions on the constants: threads and holders are finite sets and there are more holders than threads (Java can
always make another instance), and the model's markers are not among them.  TLC evaluates them in every run.

`DocumentTreeProofs` proves, for any names, paths and depth of directories, `DeletedIsGoneHolds` and
`NothingInventedHolds`.  Neither is inductive: a listing could add what was deleted, unless it is known not to be on the
server, and it could add what nobody has seen, unless all that is on the server has been.  The inductive invariant `IInv`
is `Typed` (the types), `Remembered` (what is on the server has been seen, and the document in `gone` is not there) and
`Good` (the two properties, said of any cache, so that lemmas about `Put`, `Remove` and `Reset` serve every action).
`DeletedIsGone` says until when a document stays out: until there is one at its uri again, or a rename brings to its parent's
name a directory with a listing of its own, which may name it.
Assumptions: `Paths` are non-empty sequences of names whose parents are in `Dirs` or are the share.

`DocumentTreeTypes` proves its type invariant, which says more than what the two properties need: that the server's documents
are a tree, which a rename of a directory moves as a whole (lemmas about prefixes of paths), and that each folder of a
recursive delete is in the one around it.  `Tidy`, beside `IInv`, has the two.

`DirectoryListingProofs` proves the type invariant for any clients, files, coroutines and objects, as an invariant of
`Safe`, without fairness.  Its inductive form is `Fields`, `Carried` (what a query has found or read, by where it is),
`Attached` (a coroutine whose load still matters fills an object that has children: what is collected as garbage is never
that) and `Cursors` (each coroutine is one cursor's, and has been started when it is).  `ChildrenAssumption` is there so that
a directory without children in the cache is told from one that was read.

It also proves `EndIsToldHolds`, for any of them: in every step that ends the coroutine of an open cursor the client is told,
unless it closes the cursor with it.  A step could end a coroutine silently by cancelling it, so the proof needs
`Uncancelled`: the coroutine of a cursor that is still there is not cancelled, because only closing the cursor cancels it
and no coroutine is two cursors' (`Cursors`).  `GoesOn` is what the steps of others leave of a coroutine, the collection of
garbage included.

`ShareMountsProofs` proves, for any users, shares, credentials and browsers:

* `TypeCorrect`, and `RegistryImplemented`: every step of `ShareMounts` is a step of `ShareRegistry` or a stutter.  TLC
  checks the same property with one user beside two browsers and with failing encryption.
* `TempModeEndsHolds`: however many listings overlap, the cache is in its main mode when none is under way.
* `ListsAsUserHolds` and `BrowsingIsTemporaryHolds`, of every listing that overlaps no other.  Of two that overlap the
  `finally` of one ends the mode of the other, which is a behaviour of the code.
* `NoOrphanCredentialHolds` and `CredentialNotStaleHolds`, assuming `Undisturbed`: nobody browses and encrypting does
  not fail.  Both are needed: a mount beside a listing goes into the temporary map, and a failing `encrypt()` leaves the
  credential behind.
* `ListIsCurrentHolds`, of the specification with the server list.

The inductive invariant is `IInv`: `Fields` and `Locks` (the type invariant, in two parts), `Agree` (the mounted set has the
shares whose tuple says so), `Permitted` (what `addServer` has checked is still so when it stores, because it holds the lock),
`Logins` (only an update stores a share that is not mounted) and `TempHeld` (the temporary mode is on only while somebody
browses).  `Browsing`, `Kept` (the credential under trial is in the cache) and `ListInv` (the list lags behind only while
an unmount has not come to its notification) are the strengthenings of the other theorems.

`NativeFilesProofs` proves, for any streams, listings, entries, bytes and sizes of buffers, requests and files:

* `NoFdLeakHolds` and `ListingIsWholeHolds`.  `Shape` is the type invariant but for the bytes that are transferred, and
  `Listed` says that what was read of a directory and what is left are the whole of it as long as the descriptor is one of
  the present context and `smbc_readdir` has not failed: a reset in between is found at the next `smbc_readdir` or, at the
  latest, when the directory is closed.  `NoFdLeak` has that every descriptor is somebody's, but for the file of a refused
  proxy; that it is closed in the end is no property: the copy into a pipe does not end.
* `TypeCorrect`: the whole type invariant.  No transfer, of however many ranges, stores or counts more than what was asked for.
* `FileImplemented`: `ImplementsRemoteFile`, the refinement of `RemoteFile`.  A request that the code splits into ranges of a
  buffer's size reads, and writes, what it would in one piece, and one that fails has got through up to the end of a range.

The last two are about `ReadRanges` and `WriteRanges`, recursive functions over the number of ranges.  `CountFacts` and
`RangesFacts` are about that number; `ReadStep` and `WriteOn` about one more range: what two parts in a row leave is what
one of their joint length would.  `SameRecursion` and `LeastNatural` make up for an induction: two functions that begin
alike and whose next values agree when the present ones do would have a least argument where they differ, and cannot.  So
`ReadRangesFacts` and `WriteRangesFacts` have the closed form of both after any number of ranges, whether they fail or not.
`Transfers`, the invariant beside `IInv`, has that the bytes and positions are within bounds and that only a stream which
can still be read has been given anything (`Forgetful`): the others are as `RemoteFile` begins them.  `FilesAssumption` has
that buffers, requests and files have room for something, and that `None` is no number.

`StartupProofs` proves, for any shares, contents, vectors, lines and number of waiting writes: `StartupInvariant`, `TypeCorrect`,
`SavedIsReadable`, `ContextIsCurrentHolds`, `FileIsWholeHolds` and `SharesAreSaved` (the refinement of `SavedShares`).  The
argument is in `StoreInv`: a write of the vector is always the first in the queue, and is there only when the file has none,
so that no string overtakes the vector it was encrypted with.  `LinesInv` has that the lines in the file and those still to be
printed are one file's, and before that, that the settings read so far are `Parsed` of the lines read so far: `OneMoreParsed`
is what `Put` does for one line more.

`DocumentEntryProofs` proves, for any threads, coroutines, objects and pool: `TypeCorrect`, `DeletedIsForgottenHolds`,
`EntryIsCurrentHolds` and `PoolSufficesHolds`.  For the first, nobody who still puts the document into the cache has found
it (`Unfound`), and while an entry or a child is left somebody is about to remove it (`Forgotten`).  For the second, whatever is
under way is of the present version (`FoundIsCurrent`, `LoadedIsCurrent`), and an entry of an earlier one is `Covered` by the thread
that will reset it, which needs that only those who put or reset hold an object (`Carried`).  For the pool, the results in
it and in use are together no more than the threads (`Counted`).

Only model-checked:

* liveness (`CallsReturn`, `LoadingIsNotified`, `ListingSettles`, `WriteIsReported`, `StartsUp`, the fairness part of
  `ImplementsRpc`), which is beyond the prover.  Every other property of a passing run is stated by a theorem.

## 5. Where code and text disagree

Shown by a run:

* `AuthActivity.kt:127` stores the share it has authenticated as not mounted, so that the next update of that share
  fails the assertion in `ShareManager.kt:54`.
* `SambaDocumentsProvider.kt:417` says that the document is not found; it may have been one of the folder's documents,
  which another client has deleted, and the folder is still there.

Known from the code, without a run:

* `ShareManager.kt:45` promises that an update creates a share that does not exist; line 54 refuses it.  Line 44 promises
  permanent storage; the preferences are written some time later.
* `CacheResult.kt:35` asserts that nobody takes the item of a miss; a removal between the two looks of
  `queryChildDocuments` at the cache (lines 178 and 187) makes it one.
* `SambaDocumentsProvider.kt:353` needs no update of the cache for a document that is cached already, which may be missing
  in the listing of its parent; line 453 has documents with one parent, and a renamed directory lists the old children.
* `TaskManager.kt:34` ignores a task "to avoid multiple concurrent updates"; two threads can both find none (line 31), and then
  load the same directory at once.  `DirectoryListing` has the two steps; no client waits for ever because of it.

Behaviours of the code that no text speaks of, and that therefore are no findings.  The models have all of them that
are about modelled state:

* `BaseClient.kt:29` waits once, without a condition.  Java allows `wait()` to return early; then a call can return
  another call's reply, and the instance is recycled while the Samba thread is about to write to it.
* A login (`mount = false`) calls no listener.  No list misses it, because it never stores a share that was not stored
  (`Logins` in the proofs); a change between the first look of `ServerListActivity` and its listener is missed.
* A process killed while it writes `smb.conf` leaves a file that is cut short and is not written again (`torn`).  A vector
  whose write fails makes the strings that were encrypted with it unreadable: every later start then ends in the exception
  of `ShareManager`'s constructor (`lost`).
* A document loaded before a deletion is put into the cache after it (`overtaken`), and a stat loaded before a write is
  stored after it (`outdated`).
* More than ten threads in the provider may find the pool of results full, which a debug build refuses (`refused`).
* A failing `encrypt()` leaves the credential in the cache (`NoOrphanCredential` is checked without such failures).  A
  mount or a document access beside a listing of `NetworkBrowser` uses the temporary map, and so does a listing after the
  `finally` of another.
* A share that is edited to an empty user name is still accessed with the credential it had (`ShareManager.kt:88` puts
  nothing, `former`).  The temporary map is never cleared: a listing for a guest may be made with the credential of an earlier
  one (`browsed`).
* A directory that is renamed keeps the uris its children had: one that gets back a name it had before lists what was in it
  then, also what was deleted meanwhile (`carried`).
* `DocumentMetadata.kt:165` stores the children before `close()` can fail: the next query throws, and the ones after it are
  given the part that was read.  An error of `smbc_readdir` is never told from the end (`known`).
* `SambaConfiguration.read` passes over every line that does not split in exactly two at " = ", as `[global]` or `a=b`, without
  a word, and of a key that comes twice it keeps the last.  A file that the user writes over while it is read becomes a
  mixture, which stays until his file is newer again.
* A coroutine can notify before its cursor has a notification URI; two clients can cancel each other's coroutine for ever;
  a query whose load is ignored gives an empty listing that is not loading; with two failing children one is always tried again.
* `SambaDocumentsProvider.kt:266` puts the directory, not the child, into the cache, so that a rename or a write leaves the
  old name or size of a child that was only listed.
* `SambaProxyFileCallback` ignores the offset of a request.  Before Android O a copy out never ends (the stream returns 0,
  not -1, at the end), a read that fails looks like the end of the file (the pipe is closed before it is closed with an
  error), and a write that fails ends the process.  Mode `wt` does not truncate.  A proxy that the platform refuses leaves
  its file open until the next reset (`RefuseProxy`); when `smbc_init_context` fails the context is freed twice.

## 6. Not modelled

* *mDNS discovery.*  `MdnsManager` keeps a set of `NsdServiceInfo`, which the platform's callbacks add to and remove from.
  The class has no `equals()`, and every callback brings an object of its own: `onServiceLost` never removes what
  `onServiceFound` (line 76) has added, and a service that is resolved after it was lost is added then.  What a model could
  say beyond this would be about the platform's order of callbacks, which the code does nothing about.
* *Broadcast and master browsing.*  Nothing in the application makes either provider.
* *The rest of the provider.*  `queryRoots` and `isChildDocument` compute a result from one state; a copy between two servers,
  which moves of documents fall back to, is a chain of the calls that are modelled.  Several callers on *different*
  documents of one tree are not modelled: `DocumentTree` has the tree with one caller, `DocumentEntry` one document with many.
* *Files.*  `onGetSize`, `seek` (nobody calls it), and clients of a proxy that do not read in order, whose offsets the code
  ignores; the pool of byte buffers.
* *Activities.*  The documents that `MountServerActivity` puts into the cache, the fields of the forms, dialogs.
* *JNI.*  The conversions of strings, byte arrays and structures in `C/jni_helper`; what they do that callers can tell (which
  errors are exceptions, how listings end) is in the modules.
* *Views, resources and build files*, and the headers of Samba in `C/samba_includes`, which are third-party declarations
  and make up most of the lines under `C`: nothing in them is code of this application.
