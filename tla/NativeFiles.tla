---------------------------- MODULE NativeFiles ----------------------------
(***************************************************************************)
(* The files and directories the app has opened through libsmbclient: the  *)
(* context that NativeSambaFacade replaces on every reset(), the file      *)
(* descriptors opened in it, and those who use them.  From Android O on an *)
(* opened document is a proxy whose callbacks run on the Samba thread;     *)
(* before, it is a pipe that a coroutine fills or empties.  Listings of a  *)
(* directory are read entry by entry.                                      *)
(*                                                                         *)
(* A call on the Samba thread is one action.  The document is one file of  *)
(* the server, the directory one whose entries stay as they are.  Clients  *)
(* read and write where the last transfer has ended: a proxy's callbacks   *)
(* are given an offset, which the code ignores.                            *)
(***************************************************************************)
EXTENDS Integers, Sequences

CONSTANTS
  Streams,     \* bound: the documents open at a time
  Listers,     \* the DocumentMetadata of directories, listed by one at a time
  Entries,     \* the entries of the directory
  Modes,       \* the modes documents are opened in
  Bytes, Zero, \* what a file consists of, and what a gap in it is filled with
  Capacity,    \* the size of a ByteBuffer of the pool (1 MB in the code)
  MaxRequest,  \* bound: the bytes of one read or write
  MaxSize,     \* bound: the size of the file
  None         \* no position, no children

ReadModes == {"r", "rw", "rwt"}
WriteModes == {"rw", "rwt", "w", "wa", "wt"}

ASSUME FilesAssumption ==
  /\ Modes \subseteq ReadModes \cup WriteModes
  /\ {Capacity, MaxRequest, MaxSize} \subseteq Nat \ {0}
  /\ Zero \in Bytes
  /\ None \notin Nat /\ \A S \in SUBSET Entries : None # S
  /\ Streams \cap Listers = {}

VARIABLES
  oreo,     \* SDK_INT >= O
  live,     \* whether NativeSambaFacade has a native handler
  fds,      \* fds[o]: the descriptor libsmbclient has open for o, if it has one
  position, \* position[s]: SambaFile.offset, which is the descriptor's
  left,     \* left[l]: what a directory that is open has still to give
  content,  \* the bytes of the file on the server
  stream,   \* stream[s]: [at, client, mode]
  got,      \* got[s]: what the client of s has been given last
  lister    \* lister[l]: [at, listed, failed, known]

handles == <<fds, position, left>>
vars == <<oreo, live, handles, content, stream, got, lister>>
Owners == Streams \cup Listers

Closed == [at |-> "closed", client |-> FALSE, mode |-> "r"]

(* The children: what loadChildren has listed so far, and stores at the end   *)
(* (the earlier ones, which queries get until then, are in DirectoryListing). *)
(* Whether there is a lastChildUpdateException.  History: that the children   *)
(* are a part is because of an error nobody sees, or has been thrown.         *)
NotListing == [at |-> "idle", listed |-> None, failed |-> FALSE, known |-> "no"]

Data(n) == UNION {[1 .. i -> Bytes] : i \in 0 .. n}

TypeOK ==
  /\ oreo \in BOOLEAN /\ live \in BOOLEAN
  /\ fds \in [Owners -> {"none", "valid", "stale"}]
  /\ position \in [Streams -> 0 .. MaxSize]
  /\ left \in [Listers -> SUBSET Entries]
  /\ content \in Data(MaxSize)
  /\ stream \in [Streams ->
       [at : {"closed", "open", "refused", "starting", "copying", "ended"},
        client : BOOLEAN, mode : Modes \cup {"r"}]]
  /\ got \in [Streams -> Data(MaxRequest)]
  /\ lister \in [Listers ->
       [at : {"idle", "listing", "closing"}, listed : (SUBSET Entries) \cup {None},
        failed : BOOLEAN, known : {"no", "cut", "thrown"}]]
  /\ ~ live => \A o \in Owners : fds[o] # "valid"

NothingOpen(descriptors, offsets, rests) ==
  /\ descriptors = [o \in Owners |-> "none"]
  /\ offsets = [s \in Streams |-> 0]
  /\ rests = [l \in Listers |-> {}]

Init ==
  /\ oreo \in BOOLEAN
  /\ live = FALSE
  /\ NothingOpen(fds, position, left)
  /\ content \in Data(MaxSize)
  /\ stream = [s \in Streams |-> Closed]
  /\ got = [s \in Streams |-> <<>>]
  /\ lister = [l \in Listers |-> NotListing]

-----------------------------------------------------------------------------
(* libsmbclient *)

Smaller(i, j) == IF i < j THEN i ELSE j
Larger(i, j) == IF i > j THEN i ELSE j

(* smbc_read gives all there is, up to the size asked for: "0 upon EOF". *)
SmbcRead(p, n) == SubSeq(content, p + 1, Smaller(p + n, Len(content)))

(* The file after smbc_write. *)
SmbcWrite(c, p, data) ==
  [i \in 1 .. Larger(Len(c), p + Len(data)) |->
    IF i \in p + 1 .. p + Len(data) THEN data[i - p]
    ELSE IF i <= Len(c) THEN c[i] ELSE Zero]

(* A context that is freed closes "all connections and files"; what was       *)
(* opened in it is no valid descriptor (EBADF), and in use until closed.      *)
Usable(o) == fds[o] = "valid"

Free(o) == [fds EXCEPT ![o] = "none"]

(* What was open for a stream is closed; its position goes with it. *)
FreeFile(s) ==
  /\ fds' = Free(s)
  /\ position' = [position EXCEPT ![s] = 0]
  /\ UNCHANGED left

FreeDir(l) ==
  /\ fds' = Free(l)
  /\ left' = [left EXCEPT ![l] = {}]
  /\ UNCHANGED position

-----------------------------------------------------------------------------
(* SmbFile.inputStream and SmbFile.outputStream *)

Ranges(size) ==
  [i \in 1 .. (size + Capacity - 1) \div Capacity |->
    [start |-> (i - 1) * Capacity, span |-> Smaller(Capacity, size - (i - 1) * Capacity)]]

(* Mutant: every range is stored at the start of the array. *)
StoreAtStart(array, start, bytes) ==
  [i \in DOMAIN array |-> IF i <= Len(bytes) THEN bytes[i] ELSE array[i]]

(* buffer.get(b, range.start, buffer.limit()) *)
Store(array, start, bytes) ==
  [i \in DOMAIN array |->
    IF i \in start + 1 .. start + Len(bytes) THEN bytes[i - start] ELSE array[i]]

(* The array and the count after the first k ranges, read from position p. *)
ReadRanges(p, size) ==
  LET ranges == Ranges(size)
      read[k \in 0 .. Len(ranges)] ==
        IF k = 0 THEN [array |-> [i \in 1 .. size |-> Zero], bytesRead |-> 0]
        ELSE LET r == read[k - 1]
                 bytes == SmbcRead(p + r.bytesRead, ranges[k].span)
             IN  [array |-> Store(r.array, ranges[k].start, bytes),
                  bytesRead |-> r.bytesRead + Len(bytes)]
  IN  read

(* The file and the count after the first k ranges of b, written from p. *)
WriteRanges(p, b) ==
  LET ranges == Ranges(Len(b))
      written[k \in 0 .. Len(ranges)] ==
        IF k = 0 THEN [file |-> content, bytesWritten |-> 0]
        ELSE LET w == written[k - 1]
                 bytes == SubSeq(b, ranges[k].start + 1, ranges[k].start + ranges[k].span)
             IN  [file |-> SmbcWrite(w.file, p + w.bytesWritten, bytes),
                  bytesWritten |-> w.bytesWritten + Len(bytes)]
  IN  written

(* How many ranges there are, and after how many a transfer may fail. *)
All(size) == Len(Ranges(size))
Partial(size) == 0 .. All(size) - 1

Moved(s, n) ==
  /\ position' = [position EXCEPT ![s] = @ + n]
  /\ UNCHANGED <<fds, left>>

(* SambaFile moves on by what libsmbclient says it has read or written. *)
Read(s, size) ==
  LET r == ReadRanges(position[s], size)[All(size)]
  IN  /\ Usable(s)
      /\ got' = [got EXCEPT ![s] = SubSeq(r.array, 1, r.bytesRead)]
      /\ Moved(s, r.bytesRead)
      /\ UNCHANGED content

Forgotten(s) == [got EXCEPT ![s] = <<>>]

(* EBADF, or the connection fails before the last range is read. *)
FailToRead(s, size) ==
  \E k \in Partial(size) :
    /\ k # 0 => Usable(s)
    /\ Moved(s, ReadRanges(position[s], size)[k].bytesRead)
    /\ UNCHANGED <<content, got>>

Write(s, b) ==
  LET w == WriteRanges(position[s], b)[All(Len(b))]
  IN  /\ Usable(s)
      /\ position[s] + Len(b) <= MaxSize
      /\ content' = w.file
      /\ Moved(s, w.bytesWritten)
      /\ UNCHANGED got

(* EBADF, or the connection fails before the last range is written. *)
FailToWrite(s, b) ==
  /\ position[s] + Len(b) <= MaxSize
  /\ \E k \in Partial(Len(b)) :
       /\ k # 0 => Usable(s)
       /\ content' = WriteRanges(position[s], b)[k].file
       /\ Moved(s, WriteRanges(position[s], b)[k].bytesWritten)
  /\ UNCHANGED got

-----------------------------------------------------------------------------
(* NativeSambaFacade *)

(* Mutant: the old context is not freed. *)
KeptOpen == fds

(* A document that is open for nobody. *)
Refused == {s \in Streams : stream[s].at = "refused"}

(* smbc_free_context(context, true): owners still have what they opened.      *)
NativeDestroy ==
  [o \in Owners |-> IF fds[o] = "none" \/ o \in Refused THEN "none" ELSE "stale"]

(* There is no handler when libsmbclient gives no context.  One that cannot   *)
(* be initialised is freed twice, which may be the end of the process.        *)
NativeInit == live' \in BOOLEAN

Reset ==
  /\ fds' = NativeDestroy
  /\ stream' = [s \in Streams |-> IF s \in Refused THEN Closed ELSE stream[s]]
  /\ position' = [s \in Streams |-> IF s \in Refused THEN 0 ELSE position[s]]
  /\ NativeInit
  /\ UNCHANGED <<oreo, left, content, got, lister>>

(* The coroutine that syncs smb.conf ends with a reset, and so does every     *)
(* network that becomes available.                                            *)
InitializeSambaConf == Reset
OnAvailable == Reset

(* The process ends, by itself or not; the server closes what it had open.    *)
(* So it does when the context cannot be freed, or when a coroutine throws.   *)
Vanish ==
  /\ live' = FALSE
  /\ NothingOpen(fds', position', left')
  /\ stream' = [s \in Streams |-> Closed]
  /\ lister' = [l \in Listers |-> NotListing]
  /\ got' = [s \in Streams |-> <<>>]
  /\ UNCHANGED oreo

ProcessEnds == Vanish /\ UNCHANGED content

(* The file after an open: O_TRUNC. *)
Opened(mode) == IF mode \in {"w", "rwt"} THEN <<>> ELSE content

(* openFile on the Samba thread; O_APPEND is where it begins. *)
OpenFile(s, mode) ==
  /\ live /\ fds[s] = "none"
  /\ content' = Opened(mode)
  /\ fds' = [fds EXCEPT ![s] = "valid"]
  /\ position' = [position EXCEPT ![s] = IF mode = "wa" THEN Len(content) ELSE 0]
  /\ UNCHANGED left

OpenDir(l) ==
  /\ live /\ fds[l] = "none"
  /\ fds' = [fds EXCEPT ![l] = "valid"]
  /\ left' = [left EXCEPT ![l] = Entries]
  /\ UNCHANGED position

-----------------------------------------------------------------------------
(* Proxies: openDocument, SambaProxyFileCallback *)

IsProxy(s) == oreo /\ stream[s].at = "open"

OpenProxy(s, mode) ==
  /\ oreo /\ stream[s].at = "closed"
  /\ OpenFile(s, mode)
  /\ stream' = [stream EXCEPT ![s] = [at |-> "open", client |-> TRUE, mode |-> mode]]
  /\ UNCHANGED <<oreo, live, got, lister>>

(* openProxyFileDescriptor throws: nobody closes what openFileRaw has opened, *)
(* and truncated, until the context is freed.                                 *)
RefuseProxy(s, mode) ==
  /\ oreo /\ stream[s].at = "closed"
  /\ OpenFile(s, mode)
  /\ stream' = [stream EXCEPT ![s].at = "refused"]
  /\ UNCHANGED <<oreo, live, got, lister>>

OnRead(s, size) ==
  /\ IsProxy(s) /\ stream[s].mode \in ReadModes
  /\ Read(s, size) \/ FailToRead(s, size)
  /\ UNCHANGED <<oreo, live, stream, lister>>

OnWrite(s, b) ==
  /\ IsProxy(s) /\ stream[s].mode \in WriteModes
  /\ Write(s, b) \/ FailToWrite(s, b)
  /\ UNCHANGED <<oreo, live, stream, lister>>

Ended(s) == [stream EXCEPT ![s] =
  IF @.mode \in WriteModes THEN [@ EXCEPT !.at = "ended", !.client = FALSE] ELSE Closed]

(* Mutant: what close() throws ends the callback. *)
OnReleaseThrows(s) ==
  /\ IsProxy(s)
  /\ IF Usable(s)
     THEN FreeFile(s) /\ stream' = Ended(s) /\ got' = Forgotten(s)
     ELSE stream' = [stream EXCEPT ![s].client = FALSE] /\ UNCHANGED <<handles, got>>
  /\ UNCHANGED <<oreo, live, content, lister>>

(* The deferred completes whether or not close() throws. *)
OnRelease(s) ==
  /\ IsProxy(s)
  /\ FreeFile(s)
  /\ stream' = Ended(s)
  /\ got' = Forgotten(s)
  /\ UNCHANGED <<oreo, live, content, lister>>

(* writeAsync after the write: the cache is reset, the parent notified.       *)
Report(s) ==
  /\ stream[s].at = "ended"
  /\ stream' = [stream EXCEPT ![s] = Closed]
  /\ UNCHANGED <<oreo, live, handles, content, got, lister>>

-----------------------------------------------------------------------------
(* Pipes: openDocumentPreO, readFile, writeFile *)

OpenPipe(s, mode) ==
  /\ ~ oreo /\ stream[s].at = "closed" /\ mode \in {"r", "w"}
  /\ stream' = [stream EXCEPT ![s] =
                  [at |-> "starting", client |-> TRUE, mode |-> mode]]
  /\ UNCHANGED <<oreo, live, handles, content, got, lister>>

ClosePipe(s) ==
  /\ stream[s].at \in {"starting", "copying"} /\ stream[s].client
  /\ stream' = [stream EXCEPT ![s].client = FALSE]
  /\ UNCHANGED <<oreo, live, handles, content, got, lister>>

StartCopy(s) ==
  /\ stream[s].at = "starting"
  /\ OpenFile(s, stream[s].mode)
  /\ stream' = [stream EXCEPT ![s].at = "copying"]
  /\ UNCHANGED <<oreo, live, got, lister>>

(* Mutant: nobody closes the file. *)
GiveUpOpen(s) ==
  /\ UNCHANGED handles
  /\ stream' = [stream EXCEPT ![s] = Closed]
  /\ got' = Forgotten(s)

(* readFile ends with an IOException, which it logs; its pipe is closed.      *)
GiveUp(s) ==
  /\ FreeFile(s)
  /\ stream' = [stream EXCEPT ![s] = Closed]
  /\ got' = Forgotten(s)

(* openFile fails: a RuntimeException if there is no handler, and writeFile   *)
(* throws an IOException again; nothing catches either.                       *)
FailToStart(s) ==
  /\ stream[s].at = "starting"
  /\ IF live /\ stream[s].mode = "r"
     THEN GiveUp(s) /\ UNCHANGED <<oreo, live, lister>>
     ELSE Vanish
  /\ UNCHANGED content

(* One turn of copyTo, which goes on at the end of the file: read() gives 0.  *)
CopyOut(s) ==
  /\ stream[s].at = "copying" /\ stream[s].mode = "r"
  /\ Read(s, MaxRequest)
  /\ stream[s].client \/ got'[s] = <<>>
  /\ UNCHANGED <<oreo, live, stream, lister>>

(* The read fails, or the write to a pipe that nobody reads from any more.    *)
FailToCopyOut(s) ==
  /\ stream[s].at = "copying" /\ stream[s].mode = "r"
  /\ GiveUp(s)
  /\ UNCHANGED <<oreo, live, content, lister>>

(* One turn of the loop; there may be bytes in a pipe that has been closed.   *)
CopyIn(s, b) ==
  /\ stream[s].at = "copying" /\ stream[s].mode = "w"
  /\ Write(s, b)
  /\ UNCHANGED <<oreo, live, stream, lister>>

FailToCopyIn(s, b) ==
  /\ stream[s].at = "copying" /\ stream[s].mode = "w"
  /\ position[s] + Len(b) <= MaxSize
  /\ \E k \in Partial(Len(b)) :
       /\ k # 0 => Usable(s)
       /\ content' = WriteRanges(position[s], b)[k].file
  /\ Vanish

(* The end of the pipe: the file is closed.  If that fails, writeFile throws. *)
EndCopy(s) ==
  /\ stream[s].at = "copying" /\ stream[s].mode = "w" /\ ~ stream[s].client
  /\ IF Usable(s)
     THEN /\ FreeFile(s)
          /\ stream' = Ended(s)
          /\ UNCHANGED <<oreo, live, got, lister>>
     ELSE Vanish
  /\ UNCHANGED content

-----------------------------------------------------------------------------
(* queryChildDocuments, as to its children, and DocumentMetadata.loadChildren. *)
(* DirectoryListing has the queries that overlap.                              *)

IsWhole(l) == lister[l].listed \in {None, Entries}

(* throwLastChildUpdateExceptionIfAny: the query fails, the next one will not. *)
Rethrow(l) ==
  /\ lister[l].at = "idle" /\ lister[l].failed
  /\ lister' = [lister EXCEPT ![l].failed = FALSE,
                              ![l].known = IF IsWhole(l) THEN "no" ELSE "thrown"]
  /\ UNCHANGED <<oreo, live, handles, content, stream, got>>

(* There are no children, or they are too old. *)
StartListing(l) ==
  /\ lister[l].at = "idle" /\ ~ lister[l].failed
  /\ OpenDir(l)
  /\ lister' = [lister EXCEPT ![l] = [NotListing EXCEPT !.at = "listing", !.listed = {}]]
  /\ UNCHANGED <<oreo, live, content, stream, got>>

FailToList(l) ==
  /\ lister[l].at = "idle" /\ ~ lister[l].failed
  /\ lister' = [lister EXCEPT ![l].failed = TRUE]
  /\ UNCHANGED <<oreo, live, handles, content, stream, got>>

ReadDir(l) ==
  /\ lister[l].at = "listing" /\ Usable(l)
  /\ \E e \in left[l] :
       /\ left' = [left EXCEPT ![l] = @ \ {e}]
       /\ lister' = [lister EXCEPT ![l].listed = @ \cup {e}]
  /\ UNCHANGED <<oreo, live, fds, position, content, stream, got>>

(* smbc_readdir gives "NULL if an error occurs or end-of-directory is         *)
(* reached", and either is taken for the end.  What was read is stored.       *)
EndListing(l) ==
  /\ lister[l].at = "listing"
  /\ lister' = [lister EXCEPT ![l].at = "closing",
       ![l].known = IF Usable(l) /\ left[l] # {} THEN "cut" ELSE "no"]
  /\ UNCHANGED <<oreo, live, handles, content, stream, got>>

(* Mutant: SambaDir.close does not tell of an error. *)
CloseDirQuietly(l) ==
  /\ lister[l].at = "closing"
  /\ FreeDir(l)
  /\ lister' = [lister EXCEPT ![l].at = "idle"]
  /\ UNCHANGED <<oreo, live, content, stream, got>>

(* What close() throws is remembered; the children stay. *)
CloseDir(l) ==
  /\ lister[l].at = "closing"
  /\ FreeDir(l)
  /\ \E failed \in {TRUE} \cup {f \in {FALSE} : Usable(l)} :
       lister' = [lister EXCEPT ![l].at = "idle", ![l].failed = failed]
  /\ UNCHANGED <<oreo, live, content, stream, got>>

-----------------------------------------------------------------------------
Requests == Data(MaxRequest) \ {<<>>}

Proxy(s) ==
  \/ \E mode \in Modes : OpenProxy(s, mode) \/ RefuseProxy(s, mode)
  \/ \E size \in 1 .. MaxRequest : OnRead(s, size)
  \/ \E b \in Requests : OnWrite(s, b)
  \/ OnRelease(s)

Pipe(s) ==
  \/ \E mode \in Modes : OpenPipe(s, mode)
  \/ ClosePipe(s) \/ StartCopy(s) \/ FailToStart(s)
  \/ CopyOut(s) \/ FailToCopyOut(s)
  \/ \E b \in Requests : CopyIn(s, b) \/ FailToCopyIn(s, b)
  \/ EndCopy(s)

Lister(l) ==
  \/ Rethrow(l) \/ StartListing(l) \/ FailToList(l)
  \/ ReadDir(l) \/ EndListing(l) \/ CloseDir(l)

Next ==
  \/ InitializeSambaConf \/ OnAvailable \/ ProcessEnds
  \/ \E s \in Streams : Proxy(s) \/ Pipe(s) \/ Report(s)
  \/ \E l \in Listers : Lister(l)

Safe == Init /\ [][Next]_vars

(* Coroutines go on; what fails for a coroutine is its next step, too.        *)
Fairness ==
  \A s \in Streams :
    /\ WF_vars(StartCopy(s) \/ FailToStart(s))
    /\ WF_vars(EndCopy(s))
    /\ WF_vars(Report(s))

Spec == Safe /\ Fairness
-----------------------------------------------------------------------------
(***************************************************************************)
(* What clients read and write through proxies and pipes is what they      *)
(* would through a file of their own, range by range, whatever is opened,  *)
(* reset or closed in the meantime.                                        *)
(***************************************************************************)
Remote == INSTANCE RemoteFile WITH
  position <- [s \in Streams |->
    IF Usable(s) THEN position[s] ELSE None]

ImplementsRemoteFile == Remote!Spec

(***************************************************************************)
(* What libsmbclient has open is what somebody still uses: nothing is left *)
(* open by failed copies and listings, by closes that throw and resets in  *)
(* any order, and nobody uses what is not open.  One file is nobody's: the *)
(* one whose proxy the platform has refused, and only until the next reset *)
(* frees its context.  (A user need not end: the copy into a pipe does not *)
(* when the file does.)                                                    *)
(***************************************************************************)
NoFdLeak ==
  /\ \A s \in Streams : fds[s] # "none" <=> stream[s].at \in {"open", "copying", "refused"}
  /\ \A s \in Streams : stream[s].at = "refused" => Usable(s)
  /\ \A l \in Listers : fds[l] # "none" <=> lister[l].at # "idle"

(***************************************************************************)
(* A query is given a part of a directory for the whole only when a query  *)
(* has failed for it before, or smbc_readdir in a context that was there,  *)
(* which the app cannot tell from the end.  So a listing that a reset has  *)
(* cut short, without an error from readDir, is told by close(), and again *)
(* by the next query; the queries after that are given the part.           *)
(***************************************************************************)
ListingIsWhole ==
  \A l \in Listers :
    lister[l].at = "idle" /\ ~ lister[l].failed => IsWhole(l) \/ lister[l].known # "no"

(***************************************************************************)
(* Once the client of a document opened for writing has closed it, the     *)
(* cache is reset and the parent notified, or the process ends: whether or *)
(* not the file could be closed, and in whichever context it was opened.   *)
(***************************************************************************)
WriteIsReported ==
  \A s \in Streams :
    (stream[s].mode \in WriteModes /\ ~ stream[s].client) ~> (stream[s].at = "closed")
=============================================================================
