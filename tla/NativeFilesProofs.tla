------------------------- MODULE NativeFilesProofs -------------------------
(***************************************************************************)
(* Theorems about NativeFiles, for any streams, listings, entries, bytes   *)
(* and sizes: what is open is used, no part of a directory is shown for it *)
(* before an error has been told, unless readDir itself hides the error,   *)
(* every variable keeps its type, and what streams read and write range by *)
(* range is what they would at once, which is RemoteFile.                  *)
(*                                                                         *)
(* The first part is an inductive invariant (IInv) in which bytes have no  *)
(* part.  The second says what the recursive functions ReadRanges and      *)
(* WriteRanges are, after any number of ranges: a closed form satisfies    *)
(* their equations, and whatever agrees with it there agrees with it, or   *)
(* there would be a least range where it does not.  The third takes each   *)
(* step of NativeFiles to one of RemoteFile.                               *)
(***************************************************************************)
EXTENDS NativeFiles, WellFoundedInduction, SequenceTheorems, TLAPS

Descriptors == {"none", "valid", "stale"}
StreamStates ==
  [at : {"closed", "open", "refused", "starting", "copying", "ended"},
   client : BOOLEAN, mode : Modes \cup {"r"}]
ListerStates ==
  [at : {"idle", "listing", "closing"}, listed : (SUBSET Entries) \cup {None},
   failed : BOOLEAN, known : {"no", "cut", "thrown"}]

(* What TypeOK says but for the bytes. *)
Shape ==
  /\ oreo \in BOOLEAN /\ live \in BOOLEAN
  /\ fds \in [Owners -> Descriptors]
  /\ left \in [Listers -> SUBSET Entries]
  /\ stream \in [Streams -> StreamStates]
  /\ lister \in [Listers -> ListerStates]
  /\ ~ live => \A o \in Owners : fds[o] # "valid"

(* What has been listed and what is left are the whole directory, as long as *)
(* the descriptor of the listing is one of the present context.              *)
Listed ==
  \A l \in Listers :
    /\ lister[l].at = "listing" =>
         /\ lister[l].listed \in SUBSET Entries
         /\ Usable(l) => lister[l].listed \cup left[l] = Entries
    /\ lister[l].at = "closing" /\ Usable(l) => IsWhole(l) \/ lister[l].known # "no"

IInv == Shape /\ NoFdLeak /\ Listed /\ ListingIsWhole

(* An operation on a stream leaves the listings and their descriptors alone. *)
LEMMA StreamsKeepListings ==
  ASSUME IInv, NEW s \in Streams, NEW d \in Descriptors,
         fds' = [fds EXCEPT ![s] = d], left' = left, lister' = lister
  PROVE  /\ fds' \in [Owners -> Descriptors]
         /\ left' \in [Listers -> SUBSET Entries]
         /\ lister' \in [Listers -> ListerStates]
         /\ \A l \in Listers : fds'[l] # "none" <=> lister'[l].at # "idle"
         /\ Listed' /\ ListingIsWhole'
<1>1. \A l \in Listers : fds'[l] = fds[l]
  BY FilesAssumption DEF IInv, Shape, Owners
<1>2. QED
  BY <1>1 DEF IInv, Shape, NoFdLeak, Listed, ListingIsWhole, IsWhole, Usable, Owners

(* So does one that opens and closes nothing. *)
LEMMA HandlesKeepListings ==
  ASSUME IInv, fds' = fds, left' = left, lister' = lister
  PROVE  Listed' /\ ListingIsWhole'
BY DEF IInv, Listed, ListingIsWhole, IsWhole, Usable

(* Nothing is open and nothing listed in the beginning. *)
LEMMA InitHolds == Init => IInv
<1> SUFFICES ASSUME Init PROVE IInv
  OBVIOUS
<1>1. /\ fds = [o \in Owners |-> "none"] /\ left = [l \in Listers |-> {}]
      /\ stream = [s \in Streams |-> Closed]
      /\ lister = [l \in Listers |-> NotListing]
  BY DEF Init, NothingOpen
<1>2. Closed \in StreamStates /\ NotListing \in ListerStates
  BY DEF Closed, NotListing, StreamStates, ListerStates
<1>3. Shape
  BY <1>1, <1>2 DEF Init, Shape, Descriptors
<1>4. NoFdLeak /\ Listed /\ ListingIsWhole
  BY <1>1
    DEF NoFdLeak, Listed, ListingIsWhole, IsWhole, Closed, NotListing, Usable, Owners
<1>5. QED
  BY <1>3, <1>4 DEF IInv

(* The end of the process closes everything. *)
LEMMA VanishStep ==
  ASSUME IInv, Vanish
  PROVE  IInv'
<1>1. Closed \in StreamStates /\ NotListing \in ListerStates
  BY DEF Closed, NotListing, StreamStates, ListerStates
<1>2. /\ fds' = [o \in Owners |-> "none"] /\ left' = [l \in Listers |-> {}]
      /\ stream' = [s \in Streams |-> Closed] /\ lister' = [l \in Listers |-> NotListing]
      /\ live' = FALSE /\ oreo' = oreo
  BY DEF Vanish, NothingOpen
<1>3. Shape'
  BY <1>1, <1>2 DEF IInv, Shape, Descriptors
<1>4. NoFdLeak' /\ Listed' /\ ListingIsWhole'
  BY <1>2 DEF NoFdLeak, Listed, ListingIsWhole, IsWhole, Closed, NotListing, Usable, Owners
<1>5. QED
  BY <1>3, <1>4 DEF IInv

(* A reset makes what is open stale, and leaves it to be closed. *)
LEMMA ResetStep ==
  ASSUME IInv, Reset
  PROVE  IInv'
<1>1. /\ fds' = NativeDestroy /\ live' \in BOOLEAN /\ oreo' = oreo
      /\ left' = left /\ lister' = lister
      /\ stream' = [s \in Streams |-> IF s \in Refused THEN Closed ELSE stream[s]]
  BY DEF Reset, NativeInit
<1>2. \A o \in Owners : fds'[o] = IF fds[o] = "none" \/ o \in Refused THEN "none" ELSE "stale"
  BY <1>1 DEF NativeDestroy
<1>3. fds' \in [Owners -> Descriptors] /\ \A o \in Owners : fds'[o] # "valid"
  BY <1>1, <1>2 DEF NativeDestroy, Descriptors
<1>4. Closed \in StreamStates
  BY DEF Closed, StreamStates
<1>5. Shape'
  BY <1>1, <1>3, <1>4 DEF IInv, Shape
<1>6. NoFdLeak'
  <2>1. ASSUME NEW s \in Streams
        PROVE  /\ fds'[s] # "none" <=> stream'[s].at \in {"open", "copying", "refused"}
               /\ stream'[s].at # "refused"
    <3>1. s \in Refused <=> stream[s].at = "refused"
      BY DEF Refused
    <3>2. CASE s \in Refused
      BY <1>1, <1>2, <3>2 DEF Closed, Owners
    <3>3. CASE s \notin Refused
      BY <1>1, <1>2, <3>1, <3>3 DEF IInv, NoFdLeak, Owners
    <3>4. QED
      BY <3>2, <3>3
  <2>2. \A l \in Listers : l \notin Refused
    BY FilesAssumption DEF Refused
  <2>3. \A l \in Listers : fds'[l] # "none" <=> lister'[l].at # "idle"
    BY <1>1, <1>2, <2>2 DEF IInv, NoFdLeak, Owners
  <2>4. QED
    BY <2>1, <2>3 DEF NoFdLeak
<1>7. Listed' /\ ListingIsWhole'
  BY <1>1, <1>3 DEF IInv, Listed, ListingIsWhole, IsWhole, Usable, Owners
<1>8. QED
  BY <1>5, <1>6, <1>7 DEF IInv

-----------------------------------------------------------------------------
(* Streams *)

(* A transfer moves a position and nothing else of what is open. *)
LEMMA TransferStep ==
  ASSUME IInv, NEW s \in Streams, NEW n, Moved(s, n),
         UNCHANGED <<oreo, live, stream, lister>>
  PROVE  IInv'
<1>1. Listed' /\ ListingIsWhole'
  BY HandlesKeepListings DEF Moved
<1>2. QED
  BY <1>1 DEF Moved, IInv, Shape, NoFdLeak, Usable

(* What a stream has open is closed, and it has nothing open from then on. *)
LEMMA FreeStep ==
  ASSUME IInv, NEW s \in Streams, FreeFile(s), NEW t,
         t \in [at : {"closed", "ended"}, client : BOOLEAN, mode : Modes \cup {"r"}],
         stream' = [stream EXCEPT ![s] = t], UNCHANGED <<oreo, live, lister>>
  PROVE  IInv'
<1>1. fds' = [fds EXCEPT ![s] = "none"] /\ left' = left /\ lister' = lister
  BY DEF FreeFile, Free
<1>2. \A r \in Streams : /\ fds'[r] = IF r = s THEN "none" ELSE fds[r]
                         /\ stream'[r] = IF r = s THEN t ELSE stream[r]
  BY <1>1 DEF IInv, Shape, Owners
<1>3. \A r \in Streams :
        /\ fds'[r] # "none" <=> stream'[r].at \in {"open", "copying", "refused"}
        /\ stream'[r].at = "refused" => fds'[r] = "valid"
  BY <1>2 DEF IInv, NoFdLeak, Usable
<1>4. stream' \in [Streams -> StreamStates]
  BY DEF IInv, Shape, StreamStates
<1>5. ~ live' => \A o \in Owners : fds'[o] # "valid"
  BY <1>1 DEF IInv, Shape
<1>6. QED
  BY <1>1, <1>3, <1>4, <1>5, StreamsKeepListings DEF IInv, Shape, NoFdLeak, Usable, Descriptors

(* A stream opens a file, in the context there is. *)
LEMMA OpenStep ==
  ASSUME IInv, NEW s \in Streams, NEW m, OpenFile(s, m), NEW t,
         t \in [at : {"open", "copying", "refused"}, client : BOOLEAN, mode : Modes \cup {"r"}],
         stream' = [stream EXCEPT ![s] = t], UNCHANGED <<oreo, live, lister>>
  PROVE  IInv'
<1>1. fds' = [fds EXCEPT ![s] = "valid"] /\ left' = left /\ lister' = lister
  BY DEF OpenFile
<1>2. \A r \in Streams : /\ fds'[r] = IF r = s THEN "valid" ELSE fds[r]
                         /\ stream'[r] = IF r = s THEN t ELSE stream[r]
  BY <1>1 DEF IInv, Shape, Owners
<1>3. \A r \in Streams :
        /\ fds'[r] # "none" <=> stream'[r].at \in {"open", "copying", "refused"}
        /\ stream'[r].at = "refused" => fds'[r] = "valid"
  BY <1>2 DEF IInv, NoFdLeak, Usable
<1>4. stream' \in [Streams -> StreamStates]
  BY DEF IInv, Shape, StreamStates
<1>5. live'
  BY DEF OpenFile
<1>6. QED
  BY <1>1, <1>3, <1>4, <1>5, StreamsKeepListings DEF IInv, Shape, NoFdLeak, Usable, Descriptors

(* A stream goes on without opening or closing anything. *)
LEMMA StreamStep ==
  ASSUME IInv, NEW s \in Streams, NEW t,
         t \in StreamStates,
         t.at # "refused", stream[s].at # "refused",
         t.at \in {"open", "copying"} <=> stream[s].at \in {"open", "copying"},
         stream' = [stream EXCEPT ![s] = t],
         UNCHANGED <<oreo, live, fds, left, lister>>
  PROVE  IInv'
<1>1. Listed' /\ ListingIsWhole'
  BY HandlesKeepListings
<1>2. \A r \in Streams : stream'[r] = IF r = s THEN t ELSE stream[r]
  BY DEF IInv, Shape
<1>3. QED
  BY <1>1, <1>2 DEF IInv, Shape, NoFdLeak, Usable

(* The end of a file that has been written waits to be reported. *)
LEMMA EndedFacts ==
  ASSUME IInv, NEW s \in Streams
  PROVE  \E t \in [at : {"closed", "ended"}, client : BOOLEAN, mode : Modes \cup {"r"}] :
           Ended(s) = [stream EXCEPT ![s] = t]
<1>1. stream[s] \in StreamStates
  BY DEF IInv, Shape
<1> DEFINE t == IF stream[s].mode \in WriteModes
                THEN [stream[s] EXCEPT !.at = "ended", !.client = FALSE] ELSE Closed
<1>2. t \in [at : {"closed", "ended"}, client : BOOLEAN, mode : Modes \cup {"r"}]
  BY <1>1 DEF Closed, StreamStates
<1>3. Ended(s) = [stream EXCEPT ![s] = t]
  BY DEF Ended
<1>4. QED
  BY <1>2, <1>3

(* The callbacks of proxies, and opening them. *)
LEMMA ProxyStep ==
  ASSUME IInv, NEW s \in Streams, Proxy(s)
  PROVE  IInv'
<1>1. ASSUME NEW mode \in Modes, OpenProxy(s, mode) PROVE IInv'
  <2>1. [at |-> "open", client |-> TRUE, mode |-> mode]
          \in [at : {"open", "copying", "refused"}, client : BOOLEAN, mode : Modes \cup {"r"}]
    OBVIOUS
  <2>2. QED
    BY <1>1, <2>1, OpenStep DEF OpenProxy
<1>2. ASSUME NEW mode \in Modes, RefuseProxy(s, mode) PROVE IInv'
  <2> DEFINE t == [stream[s] EXCEPT !.at = "refused"]
  <2>1. t \in [at : {"open", "copying", "refused"}, client : BOOLEAN, mode : Modes \cup {"r"}]
    BY DEF IInv, Shape, StreamStates
  <2>2. stream' = [stream EXCEPT ![s] = t]
    BY <1>2 DEF RefuseProxy
  <2> HIDE DEF t
  <2>3. QED
    BY <1>2, <2>1, <2>2, OpenStep DEF RefuseProxy
<1>3. ASSUME NEW size \in 1 .. MaxRequest, OnRead(s, size) PROVE IInv'
  <2>1. \E n : Moved(s, n)
    BY <1>3 DEF OnRead, Read, FailToRead
  <2>2. QED
    BY <1>3, <2>1, TransferStep DEF OnRead
<1>4. ASSUME NEW b \in Requests, OnWrite(s, b) PROVE IInv'
  <2>1. \E n : Moved(s, n)
    BY <1>4 DEF OnWrite, Write, FailToWrite
  <2>2. QED
    BY <1>4, <2>1, TransferStep DEF OnWrite
<1>5. CASE OnRelease(s)
  BY <1>5, FreeStep, EndedFacts DEF OnRelease
<1>6. QED
  BY <1>1, <1>2, <1>3, <1>4, <1>5 DEF Proxy

(* The report that a written file is closed. *)
LEMMA ReportStep ==
  ASSUME IInv, NEW s \in Streams, Report(s)
  PROVE  IInv'
BY StreamStep DEF Report, Closed, handles, StreamStates

(* A copy that is given up closes its file, if it has got one. *)
LEMMA GiveUpStep ==
  ASSUME IInv, NEW s \in Streams, GiveUp(s), UNCHANGED <<oreo, live, lister>>
  PROVE  IInv'
BY FreeStep DEF GiveUp, Closed

(* The coroutines that fill and empty pipes. *)
LEMMA PipeStep ==
  ASSUME IInv, NEW s \in Streams, Pipe(s)
  PROVE  IInv'
<1>a. stream[s] \in StreamStates
  BY DEF IInv, Shape
<1>1. ASSUME NEW mode \in Modes, OpenPipe(s, mode) PROVE IInv'
  <2>1. [at |-> "starting", client |-> TRUE, mode |-> mode] \in StreamStates
    BY DEF StreamStates
  <2>2. QED
    BY <1>1, <2>1, StreamStep DEF OpenPipe, handles
<1>2. CASE ClosePipe(s)
  <2> DEFINE t == [stream[s] EXCEPT !.client = FALSE]
  <2>1. /\ t \in StreamStates
        /\ t.at = stream[s].at
    BY <1>a DEF StreamStates
  <2>2. stream' = [stream EXCEPT ![s] = t]
    BY <1>2 DEF ClosePipe
  <2>3. UNCHANGED <<oreo, live, fds, left, lister>>
    BY <1>2 DEF ClosePipe, handles
  <2> HIDE DEF t
  <2>4. QED
    BY <1>2, <2>1, <2>2, <2>3, StreamStep DEF ClosePipe
<1>3. CASE StartCopy(s)
  <2> DEFINE t == [stream[s] EXCEPT !.at = "copying"]
  <2>1. t \in [at : {"open", "copying", "refused"}, client : BOOLEAN, mode : Modes \cup {"r"}]
    BY <1>a DEF StreamStates
  <2>2. stream' = [stream EXCEPT ![s] = t]
    BY <1>3 DEF StartCopy
  <2> HIDE DEF t
  <2>3. QED
    BY <1>3, <2>1, <2>2, OpenStep DEF StartCopy
<1>4. CASE FailToStart(s)
  BY <1>4, GiveUpStep, VanishStep DEF FailToStart
<1>5. CASE CopyOut(s)
  <2>1. \E n : Moved(s, n)
    BY <1>5 DEF CopyOut, Read
  <2>2. QED
    BY <1>5, <2>1, TransferStep DEF CopyOut
<1>6. CASE FailToCopyOut(s)
  BY <1>6, GiveUpStep DEF FailToCopyOut
<1>7. ASSUME NEW b \in Requests, CopyIn(s, b) PROVE IInv'
  <2>1. \E n : Moved(s, n)
    BY <1>7 DEF CopyIn, Write
  <2>2. QED
    BY <1>7, <2>1, TransferStep DEF CopyIn
<1>8. ASSUME NEW b \in Requests, FailToCopyIn(s, b) PROVE IInv'
  BY <1>8, VanishStep DEF FailToCopyIn
<1>9. CASE EndCopy(s)
  <2>1. CASE Usable(s)
    BY <1>9, <2>1, FreeStep, EndedFacts DEF EndCopy
  <2>2. CASE ~ Usable(s)
    BY <1>9, <2>2, VanishStep DEF EndCopy
  <2>3. QED
    BY <2>1, <2>2
<1>10. QED
  BY <1>1, <1>2, <1>3, <1>4, <1>5, <1>6, <1>7, <1>8, <1>9 DEF Pipe

-----------------------------------------------------------------------------
(* Listings *)

(* What a step may make of a listing: what it has listed, and left, is whole *)
(* while it reads; then it is, or there is a reason.                         *)
Whole(t) == t.listed \in {None, Entries} \/ t.known # "no"
Becomes(t, d, e) ==
  /\ t \in ListerStates
  /\ d # "none" <=> t.at # "idle"
  /\ t.at = "listing" =>
       t.listed \in SUBSET Entries /\ (d = "valid" => t.listed \cup e = Entries)
  /\ t.at = "closing" /\ d = "valid" => Whole(t)
  /\ t.at = "idle" /\ ~ t.failed => Whole(t)

(* What is done for a listing leaves the streams and the others alone. *)
LEMMA ListingsKeepStreams ==
  ASSUME IInv, NEW l \in Listers, NEW d \in Descriptors,
         NEW e \in SUBSET Entries,
         NEW t, Becomes(t, d, e),
         fds' = [fds EXCEPT ![l] = d], left' = [left EXCEPT ![l] = e],
         lister' = [lister EXCEPT ![l] = t], UNCHANGED <<oreo, live, stream>>,
         d = "valid" => live
  PROVE  IInv'
<1>1. \A k \in Listers : /\ fds'[k] = IF k = l THEN d ELSE fds[k]
                         /\ left'[k] = IF k = l THEN e ELSE left[k]
                         /\ lister'[k] = IF k = l THEN t ELSE lister[k]
  BY DEF IInv, Shape, Owners
<1>2. \A s \in Streams : fds'[s] = fds[s]
  BY FilesAssumption DEF IInv, Shape, Owners
<1>3. Shape'
  BY DEF IInv, Shape, Owners, Becomes
<1>4. NoFdLeak'
  BY <1>1, <1>2 DEF IInv, NoFdLeak, Becomes, Usable
<1>5. Listed' /\ ListingIsWhole'
  BY <1>1 DEF IInv, Listed, ListingIsWhole, IsWhole, Usable, Becomes, Whole
<1>6. QED
  BY <1>3, <1>4, <1>5 DEF IInv

(* The steps of a listing. *)
LEMMA ListerStep ==
  ASSUME IInv, NEW l \in Listers, Lister(l)
  PROVE  IInv'
<1>a. /\ fds[l] \in Descriptors /\ fds = [fds EXCEPT ![l] = fds[l]]
      /\ left[l] \in SUBSET Entries /\ left = [left EXCEPT ![l] = left[l]]
      /\ fds[l] = "valid" => live
  BY DEF IInv, Shape, Owners
<1>b. Becomes(lister[l], fds[l], left[l])
  BY DEF IInv, Shape, NoFdLeak, Listed, ListingIsWhole, IsWhole, Usable, Becomes, Whole
<1>1. CASE Rethrow(l)
  <2> DEFINE t == [lister[l] EXCEPT !.failed = FALSE,
                                    !.known = IF IsWhole(l) THEN "no" ELSE "thrown"]
  <2>1. /\ t.at = lister[l].at /\ t.listed = lister[l].listed /\ t \in ListerStates
        /\ t.known = IF IsWhole(l) THEN "no" ELSE "thrown"
    BY <1>b DEF Becomes, ListerStates
  <2>2. lister' = [lister EXCEPT ![l] = t] /\ lister[l].at = "idle"
    BY <1>1 DEF Rethrow
  <2>3. UNCHANGED <<oreo, live, stream, fds, left>>
    BY <1>1 DEF Rethrow, handles
  <2> HIDE DEF t
  <2>4. Becomes(t, fds[l], left[l])
    BY <1>b, <2>1, <2>2 DEF Becomes, Whole, IsWhole
  <2>5. QED
    BY <1>a, <2>2, <2>3, <2>4, ListingsKeepStreams
<1>2. CASE StartListing(l)
  <2> DEFINE t == [NotListing EXCEPT !.at = "listing", !.listed = {}]
  <2>1. Becomes(t, "valid", Entries)
    BY DEF Becomes, NotListing, ListerStates
  <2>2. /\ lister' = [lister EXCEPT ![l] = t] /\ UNCHANGED <<oreo, live, stream>>
        /\ fds' = [fds EXCEPT ![l] = "valid"] /\ left' = [left EXCEPT ![l] = Entries] /\ live
    BY <1>2 DEF StartListing, OpenDir
  <2> HIDE DEF t
  <2>3. QED
    BY <2>1, <2>2, ListingsKeepStreams DEF Descriptors
<1>3. CASE FailToList(l)
  <2> DEFINE t == [lister[l] EXCEPT !.failed = TRUE]
  <2>1. t.at = lister[l].at /\ t.failed /\ t \in ListerStates
    BY <1>b DEF Becomes, ListerStates
  <2>2. lister' = [lister EXCEPT ![l] = t] /\ lister[l].at = "idle"
    BY <1>3 DEF FailToList
  <2>3. UNCHANGED <<oreo, live, stream, fds, left>>
    BY <1>3 DEF FailToList, handles
  <2> HIDE DEF t
  <2>4. Becomes(t, fds[l], left[l])
    BY <1>b, <2>1, <2>2 DEF Becomes
  <2>5. QED
    BY <1>a, <2>2, <2>3, <2>4, ListingsKeepStreams
<1>4. CASE ReadDir(l)
  <2>1. PICK e \in left[l] : /\ left' = [left EXCEPT ![l] = @ \ {e}]
                             /\ lister' = [lister EXCEPT ![l].listed = @ \cup {e}]
    BY <1>4 DEF ReadDir
  <2> DEFINE t == [lister[l] EXCEPT !.listed = @ \cup {e}]
  <2>2. lister[l].at = "listing" /\ lister[l].listed \in SUBSET Entries /\ fds[l] # "none"
    BY <1>b, <1>4 DEF ReadDir, Becomes
  <2>3. t \in ListerStates /\ t.at = lister[l].at /\ t.listed = lister[l].listed \cup {e}
    BY <1>a, <1>b, <2>2 DEF Becomes, ListerStates
  <2>4. lister' = [lister EXCEPT ![l] = t] /\ left' = [left EXCEPT ![l] = left[l] \ {e}]
    BY <2>1
  <2>5. UNCHANGED <<oreo, live, stream>> /\ fds' = fds
    BY <1>4 DEF ReadDir
  <2> HIDE DEF t
  <2>6. Becomes(t, fds[l], left[l] \ {e})
    BY <1>a, <1>b, <2>2, <2>3 DEF Becomes
  <2>7. left[l] \ {e} \in SUBSET Entries
    BY <1>a
  <2>8. QED
    BY <1>a, <2>4, <2>5, <2>6, <2>7, ListingsKeepStreams
<1>5. CASE EndListing(l)
  <2> DEFINE known == IF Usable(l) /\ left[l] # {} THEN "cut" ELSE "no"
             t == [lister[l] EXCEPT !.at = "closing", !.known = known]
  <2>1. known \in {"no", "cut"} /\ (fds[l] = "valid" /\ left[l] # {} => known = "cut")
    BY DEF Usable
  <2>2. lister' = [lister EXCEPT ![l] = t] /\ lister[l].at = "listing"
    BY <1>5 DEF EndListing
  <2>3. UNCHANGED <<oreo, live, stream, fds, left>>
    BY <1>5 DEF EndListing, handles
  <2> HIDE DEF known
  <2>4. t \in ListerStates /\ t.at = "closing" /\ t.listed = lister[l].listed /\ t.known = known
    BY <1>b, <2>1 DEF Becomes, ListerStates
  <2> HIDE DEF t
  <2>5. Becomes(t, fds[l], left[l])
    BY <1>b, <2>1, <2>2, <2>4 DEF Becomes, Whole
  <2>6. QED
    BY <1>a, <2>2, <2>3, <2>5, ListingsKeepStreams
<1>6. CASE CloseDir(l)
  <2>1. PICK failed \in {TRUE} \cup {f \in {FALSE} : Usable(l)} :
          lister' = [lister EXCEPT ![l].at = "idle", ![l].failed = failed]
    BY <1>6 DEF CloseDir
  <2> DEFINE t == [lister[l] EXCEPT !.at = "idle", !.failed = failed]
  <2>2. /\ t \in ListerStates /\ t.failed = failed
        /\ t.at = "idle" /\ t.listed = lister[l].listed /\ t.known = lister[l].known
    BY <1>b DEF Becomes, ListerStates
  <2>3. lister' = [lister EXCEPT ![l] = t]
    BY <2>1 DEF IInv, Shape
  <2>4. lister[l].at = "closing" /\ (~ failed => fds[l] = "valid")
    BY <1>6 DEF CloseDir, Usable
  <2>5. /\ fds' = [fds EXCEPT ![l] = "none"] /\ left' = [left EXCEPT ![l] = {}]
        /\ UNCHANGED <<oreo, live, stream>>
    BY <1>6 DEF CloseDir, FreeDir, Free
  <2> HIDE DEF t
  <2>6. Becomes(t, "none", {})
    BY <1>b, <2>2, <2>4 DEF Becomes, Whole
  <2>7. QED
    BY <2>3, <2>5, <2>6, ListingsKeepStreams DEF Descriptors
<1>7. QED
  BY <1>1, <1>2, <1>3, <1>4, <1>5, <1>6 DEF Lister

-----------------------------------------------------------------------------
(* The invariant is inductive. *)
LEMMA IInvNext == IInv /\ [Next]_vars => IInv'
<1> SUFFICES ASSUME IInv, [Next]_vars PROVE IInv'
  OBVIOUS
<1>1. CASE InitializeSambaConf \/ OnAvailable
  BY <1>1, ResetStep DEF InitializeSambaConf, OnAvailable
<1>2. CASE ProcessEnds
  BY <1>2, VanishStep DEF ProcessEnds
<1>3. ASSUME NEW s \in Streams, Proxy(s) \/ Pipe(s) \/ Report(s) PROVE IInv'
  BY <1>3, ProxyStep, PipeStep, ReportStep
<1>4. ASSUME NEW l \in Listers, Lister(l) PROVE IInv'
  BY <1>4, ListerStep
<1>5. CASE UNCHANGED vars
  BY <1>5
    DEF vars, handles, IInv, Shape, NoFdLeak, Listed, ListingIsWhole, IsWhole, Usable
<1>6. QED
  BY <1>1, <1>2, <1>3, <1>4, <1>5 DEF Next

-----------------------------------------------------------------------------
(* Transfers range by range *)

(* How many bytes the first k ranges are, of size. *)
Reached(size, k) == Smaller(k * Capacity, size)

(* There are enough ranges, and none is empty. *)
LEMMA CountFacts ==
  ASSUME NEW size \in Nat
  PROVE  /\ All(size) \in Nat
         /\ All(size) * Capacity >= size
         /\ \A k \in 1 .. All(size) : (k - 1) * Capacity < size
<1> DEFINE n == (size + Capacity - 1) \div Capacity
<1>1. Capacity \in Nat \ {0}
  BY FilesAssumption
<1>2. n \in Nat /\ n * Capacity <= size + Capacity - 1 /\ size + Capacity - 1 < (n + 1) * Capacity
  BY <1>1
<1>3. All(size) = n
  BY <1>2 DEF All, Ranges
<1> HIDE DEF n
<1>4. n * Capacity >= size
  BY <1>1, <1>2
<1>5. ASSUME NEW k \in 1 .. n PROVE (k - 1) * Capacity < size
  <2>1. (k - 1) * Capacity <= (n - 1) * Capacity
    BY <1>1, <1>2
  <2>2. QED
    BY <1>1, <1>2, <2>1
<1>6. QED
  BY <1>2, <1>3, <1>4, <1>5

(* Every range begins where the one before has ended, up to the size. *)
LEMMA RangesFacts ==
  ASSUME NEW size \in Nat
  PROVE  /\ All(size) \in Nat
         /\ \A k \in 0 .. All(size) : Reached(size, k) \in 0 .. size
         /\ Reached(size, 0) = 0
         /\ Reached(size, All(size)) = size
         /\ \A k \in 1 .. All(size) :
              /\ Ranges(size)[k].start = Reached(size, k - 1)
              /\ Ranges(size)[k].span = Reached(size, k) - Reached(size, k - 1)
              /\ Reached(size, k - 1) < Reached(size, k)
<1>1. Capacity \in Nat \ {0}
  BY FilesAssumption
<1>2. ASSUME NEW k \in Nat PROVE k * Capacity \in Nat
  BY <1>1
<1>3. \A k \in Nat : Reached(size, k) \in 0 .. size
  BY <1>2 DEF Reached, Smaller
<1>4. Reached(size, 0) = 0
  BY <1>1 DEF Reached, Smaller
<1>5. Reached(size, All(size)) = size
  BY <1>2, CountFacts DEF Reached, Smaller
<1>6. ASSUME NEW k \in 1 .. All(size)
      PROVE  /\ Ranges(size)[k].start = Reached(size, k - 1)
             /\ Ranges(size)[k].span = Reached(size, k) - Reached(size, k - 1)
             /\ Reached(size, k - 1) < Reached(size, k)
  <2> DEFINE a == (k - 1) * Capacity
  <2>1. k * Capacity = a + Capacity /\ a \in Nat
    BY <1>1, CountFacts
  <2>2. a < size
    BY CountFacts
  <2>3. Ranges(size)[k] = [start |-> a, span |-> Smaller(Capacity, size - a)]
    BY <1>1 DEF Ranges, All
  <2> HIDE DEF a
  <2>4. Reached(size, k - 1) = a /\ Reached(size, k) = Smaller(a + Capacity, size)
    <3>1. Reached(size, k - 1) = Smaller(a, size)
      BY DEF Reached, a
    <3>2. QED
      BY <2>1, <2>2, <3>1 DEF Reached, Smaller
  <2>5. QED
    BY <1>1, <2>1, <2>2, <2>3, <2>4 DEF Smaller
<1>7. QED
  BY <1>3, <1>4, <1>5, <1>6, CountFacts

(* Induction, without an operator for what is proved by it. *)
LEMMA LeastNatural ==
  ASSUME NEW T \in SUBSET Nat, T # {}
  PROVE  \E x \in T : \A y \in T : x <= y
<1> DEFINE Less == {p \in Nat \X Nat : p[1] < p[2]}
<1>1. IsWellFoundedOn(Less, Nat)
  BY NatLessThanWellFounded DEF OpToRel
<1>2. \A x, y \in Nat : y < x => <<y, x>> \in Less
  OBVIOUS
<1> HIDE DEF Less
<1>3. PICK x \in T : \A y \in T : ~ (<<y, x>> \in Less)
  BY <1>1, WFMin
<1>4. \A y \in T : ~ (y < x)
  BY <1>2, <1>3
<1>5. QED
  BY <1>4

(* Whatever two recursions agree on, they agree on in the next step. *)
Agree(f, g, n) ==
  f[0] = g[0] /\ \A k \in 1 .. n : f[k - 1] = g[k - 1] => f[k] = g[k]

LEMMA SameRecursion ==
  ASSUME NEW n \in Nat, NEW f, NEW g, Agree(f, g, n)
  PROVE  \A k \in 0 .. n : f[k] = g[k]
<1> DEFINE T == {k \in 0 .. n : f[k] # g[k]}
<1>1. CASE T = {}
  BY <1>1
<1>2. CASE T # {}
  <2>0. T \in SUBSET Nat
    OBVIOUS
  <2>1. PICK k \in T : \A j \in T : k <= j
    <3> HIDE DEF T
    <3>1. QED
      BY <1>2, <2>0, LeastNatural
  <2>2. k # 0
    BY <2>1 DEF Agree
  <2>3. k - 1 \in 0 .. n /\ k - 1 \notin T
    BY <2>1, <2>2
  <2>4. QED
    BY <2>1, <2>2, <2>3 DEF Agree
<1>3. QED
  BY <1>1, <1>2

(* Data are the sequences of bytes that are not too long. *)
LEMMA DataFacts ==
  ASSUME NEW n \in Nat
  PROVE  \A q : q \in Data(n) <=> q \in Seq(Bytes) /\ Len(q) <= n
<1>1. ASSUME NEW q \in Data(n) PROVE q \in Seq(Bytes) /\ Len(q) <= n
  BY <1>1, SeqDef DEF Data
<1>2. ASSUME NEW q \in Seq(Bytes), Len(q) <= n PROVE q \in Data(n)
  <2>1. q \in [1 .. Len(q) -> Bytes] /\ Len(q) \in 0 .. n
    BY <1>2, LenProperties
  <2>2. QED
    BY <2>1 DEF Data
<1>3. QED
  BY <1>1, <1>2

(* How many bytes there are to read. *)
Counted(p, m) == IF p >= Len(content) THEN 0 ELSE Smaller(m, Len(content) - p)

(* What is read is the file from the position on. *)
LEMMA SmbcReadFacts ==
  ASSUME content \in Seq(Bytes), NEW p \in Nat, NEW m \in Nat
  PROVE  /\ SmbcRead(p, m) \in Seq(Bytes)
         /\ Counted(p, m) \in 0 .. m
         /\ Len(SmbcRead(p, m)) = Counted(p, m)
         /\ \A i \in 1 .. Counted(p, m) : SmbcRead(p, m)[i] = content[p + i]
<1>0. Len(content) \in Nat
  BY LenProperties
<1>1. Len(content) \in Nat /\ Counted(p, m) \in 0 .. m
  BY <1>0 DEF Counted, Smaller
<1>2. CASE p >= Len(content)
  BY <1>1, <1>2, SubSeqEmpty, EmptySeq DEF SmbcRead, Counted, Smaller
<1>3. CASE p < Len(content)
  <2>1. /\ p + 1 \in 1 .. Len(content) + 1
        /\ Smaller(p + m, Len(content)) \in (p + 1) - 1 .. Len(content)
        /\ Smaller(p + m, Len(content)) - p = Counted(p, m)
    BY <1>1, <1>3 DEF Smaller, Counted
  <2>2. QED
    BY <1>1, <2>1, SubSeqProperties DEF SmbcRead
<1>4. QED
  BY <1>1, <1>2, <1>3

(* An array of which the first m bytes are those of the file from p on. *)
Filled(p, size, m) == [i \in 1 .. size |-> IF i <= m THEN content[p + i] ELSE Zero]

(* What is read in two calls is counted as in one; one that gives less than it
   could is the last to give anything. *)
LEMMA CountedStep ==
  ASSUME content \in Seq(Bytes), NEW p \in Nat, NEW a \in Nat, NEW z \in Nat, a < z
  PROVE  /\ Counted(p, a) + Counted(p + Counted(p, a), z - a) = Counted(p, z)
         /\ Counted(p, a) < a => Counted(p + Counted(p, a), z - a) = 0
<1> DEFINE L == Len(content)
<1>1. L \in Nat
  BY LenProperties
<1>2. \A q, m : Counted(q, m) = IF q >= L THEN 0 ELSE IF m < L - q THEN m ELSE L - q
  BY DEF Counted, Smaller
<1> HIDE DEF L
<1>3. CASE p >= L
  BY <1>1, <1>2, <1>3
<1>4. CASE p < L /\ a <= L - p
  <2>1. Counted(p, a) = a
    BY <1>1, <1>2, <1>4
  <2>2. Counted(p + a, z - a) = IF p + a >= L THEN 0 ELSE IF z - a < L - (p + a) THEN z - a ELSE L - (p + a)
    BY <1>2
  <2>3. Counted(p, z) = IF z < L - p THEN z ELSE L - p
    BY <1>1, <1>2, <1>4
  <2> HIDE DEF Counted
  <2>4. QED
    BY <1>1, <1>4, <2>1, <2>2, <2>3
<1>5. CASE p < L /\ a > L - p
  <2>1. Counted(p, a) = L - p /\ Counted(p, z) = L - p
    BY <1>1, <1>2, <1>5
  <2>2. Counted(p + (L - p), z - a) = 0
    BY <1>1, <1>2, <1>5
  <2>3. QED
    BY <1>1, <1>5, <2>1, <2>2
<1>6. QED
  BY <1>1, <1>3, <1>4, <1>5

(* One more range is stored behind the others. *)
LEMMA ReadStep ==
  ASSUME content \in Seq(Bytes), NEW p \in Nat, NEW size \in Nat, NEW k \in 1 .. All(size),
         NEW c, c = Counted(p, Reached(size, k - 1)),
         NEW bytes, bytes = SmbcRead(p + c, Ranges(size)[k].span)
  PROVE  /\ c + Len(bytes) = Counted(p, Reached(size, k))
         /\ Store(Filled(p, size, c), Ranges(size)[k].start, bytes) =
              Filled(p, size, Counted(p, Reached(size, k)))
<1> DEFINE a == Reached(size, k - 1)
           z == Reached(size, k)
<1>1. /\ a \in 0 .. size /\ z \in 0 .. size /\ a < z
      /\ Ranges(size)[k].start = a /\ Ranges(size)[k].span = z - a
  <2>1. k \in 0 .. All(size) /\ k - 1 \in 0 .. All(size)
    BY RangesFacts
  <2>2. QED
    BY <2>1, RangesFacts
<1> HIDE DEF a, z
<1>2. Len(content) \in Nat
  BY LenProperties
<1>3. c = Counted(p, a)
  BY DEF a
<1>4. c \in 0 .. a
  BY <1>1, <1>2, <1>3 DEF Counted, Smaller
<1>5. /\ Len(bytes) = Counted(p + c, z - a)
      /\ \A i \in 1 .. Len(bytes) : bytes[i] = content[p + c + i]
  <2> DEFINE q == p + c
             m == z - a
  <2>1. q \in Nat /\ m \in Nat /\ bytes = SmbcRead(q, m)
    BY <1>1, <1>4
  <2> HIDE DEF q, m
  <2>2. /\ Len(SmbcRead(q, m)) = Counted(q, m)
        /\ \A i \in 1 .. Counted(q, m) : SmbcRead(q, m)[i] = content[q + i]
    BY <2>1, SmbcReadFacts
  <2>3. /\ Len(bytes) = Counted(q, m)
        /\ \A i \in 1 .. Len(bytes) : bytes[i] = content[q + i]
    BY <2>1, <2>2, Zenon
  <2>4. QED
    BY <2>3 DEF q, m
<1>6. c + Len(bytes) = Counted(p, z) /\ (c < a => Len(bytes) = 0)
  BY <1>1, <1>3, <1>5, CountedStep
<1>7. Store(Filled(p, size, c), a, bytes) = Filled(p, size, c + Len(bytes))
  <2>1. CASE c = a
    <3>1. Len(bytes) \in Nat /\ c + Len(bytes) \in 0 .. size
      <4>1. Len(bytes) \in Nat
        BY <1>1, <1>4, <1>5, <1>2 DEF Counted, Smaller
      <4>2. Counted(p, z) \in 0 .. z
        BY <1>1, <1>2 DEF Counted, Smaller
      <4>3. QED
        BY <1>1, <1>6, <4>1, <4>2
    <3>2. \A i \in a + 1 .. a + Len(bytes) : bytes[i - a] = content[p + i]
      <4>1. \A i \in a + 1 .. a + Len(bytes) : i - a \in 1 .. Len(bytes) /\ p + c + (i - a) = p + i
        BY <1>1, <2>1, <3>1
      <4>2. QED
        BY <1>5, <4>1
    <3>3. DOMAIN Filled(p, size, c) = 1 .. size
      BY DEF Filled
    <3>4. \A i \in 1 .. size : Store(Filled(p, size, c), a, bytes)[i] = Filled(p, size, c + Len(bytes))[i]
      BY <1>1, <2>1, <3>1, <3>2 DEF Store, Filled
    <3>5. QED
      BY <3>3, <3>4 DEF Store, Filled
  <2>2. CASE c < a
    <3>1. Len(bytes) = 0
      BY <1>6, <2>2
    <3>2. QED
      BY <1>1, <1>4, <3>1 DEF Store, Filled
  <2>3. QED
    BY <1>1, <1>4, <2>1, <2>2
<1>8. QED
  BY <1>1, <1>6, <1>7 DEF a, z

(* What the array and the count are after any number of ranges. *)
LEMMA ReadRangesFacts ==
  ASSUME content \in Seq(Bytes), NEW p \in Nat, NEW size \in Nat
  PROVE  \A k \in 0 .. All(size) : ReadRanges(p, size)[k] =
           [array |-> Filled(p, size, Counted(p, Reached(size, k))),
            bytesRead |-> Counted(p, Reached(size, k))]
<1> DEFINE n == All(size)
           count(k) == Counted(p, Reached(size, k))
           g == [k \in 0 .. n |-> [array |-> Filled(p, size, count(k)), bytesRead |-> count(k)]]
           Next1(r, range) ==
             [array |-> Store(r.array, range.start, SmbcRead(p + r.bytesRead, range.span)),
              bytesRead |-> r.bytesRead + Len(SmbcRead(p + r.bytesRead, range.span))]
           Body(f, k) ==
             IF k = 0 THEN [array |-> [i \in 1 .. size |-> Zero], bytesRead |-> 0]
             ELSE Next1(f[k - 1], Ranges(size)[k])
<1>1. n \in Nat
  BY RangesFacts
<1>2. g[0] = Body(g, 0)
  <2>1. count(0) = 0
    BY RangesFacts, LenProperties DEF Counted, Smaller
  <2>2. Filled(p, size, 0) = [i \in 1 .. size |-> Zero]
    BY DEF Filled
  <2>3. QED
    BY <1>1, <2>1, <2>2
<1>3. ASSUME NEW k \in 1 .. n PROVE g[k] = Next1(g[k - 1], Ranges(size)[k])
  <2>1. g[k - 1] = [array |-> Filled(p, size, count(k - 1)), bytesRead |-> count(k - 1)]
    BY <1>1
  <2>2. g[k] = [array |-> Filled(p, size, count(k)), bytesRead |-> count(k)]
    BY <1>1
  <2>3. /\ count(k - 1) + Len(SmbcRead(p + count(k - 1), Ranges(size)[k].span)) = count(k)
        /\ Store(Filled(p, size, count(k - 1)), Ranges(size)[k].start,
                 SmbcRead(p + count(k - 1), Ranges(size)[k].span)) = Filled(p, size, count(k))
    BY ReadStep
  <2>4. g[k - 1].array = Filled(p, size, count(k - 1)) /\ g[k - 1].bytesRead = count(k - 1)
    <3> HIDE DEF g, count
    <3>1. QED
      BY <2>1
  <2> HIDE DEF g, count
  <2>5. QED
    BY <2>2, <2>3, <2>4
<1>a. g = [k \in 0 .. n |-> g[k]]
  OBVIOUS
<1> HIDE DEF g, Next1, n
<1>4. g = [k \in 0 .. n |-> Body(g, k)]
  <2>1. \A k \in 0 .. n : g[k] = Body(g, k)
    <3>1. \A k \in 0 .. n : k = 0 \/ k \in 1 .. n
      BY <1>1
    <3>2. QED
      BY <1>2, <1>3, <3>1
  <2> HIDE DEF Body
  <2>2. QED
    BY <1>a, <2>1
<1>5. ReadRanges(p, size) = CHOOSE f : f = [k \in 0 .. n |-> Body(f, k)]
  BY DEF ReadRanges, All, Next1, n
<1>6. ReadRanges(p, size) = [k \in 0 .. n |-> Body(ReadRanges(p, size), k)]
  BY <1>4, <1>5
<1>7. ReadRanges(p, size)[0] = g[0]
  BY <1>1, <1>2, <1>6
<1>8. ASSUME NEW k \in 1 .. n, ReadRanges(p, size)[k - 1] = g[k - 1]
      PROVE  ReadRanges(p, size)[k] = g[k]
  <2>1. k \in 0 .. n /\ k # 0
    BY <1>1
  <2>2. ReadRanges(p, size)[k] = Next1(ReadRanges(p, size)[k - 1], Ranges(size)[k])
    BY <1>6, <2>1
  <2>3. QED
    BY <1>3, <1>8, <2>2
<1>9. \A k \in 0 .. n : ReadRanges(p, size)[k] = g[k]
  <2>1. Agree(ReadRanges(p, size), g, n)
    BY <1>7, <1>8 DEF Agree
  <2>2. QED
    BY <1>1, <2>1, SameRecursion
<1>10. QED
  BY <1>9 DEF g, n

(* What a write leaves in the file, byte by byte. *)
WritesAt(c, p, data) ==
  /\ SmbcWrite(c, p, data) \in Seq(Bytes)
  /\ Len(SmbcWrite(c, p, data)) = Larger(Len(c), p + Len(data))
  /\ \A i \in 1 .. Larger(Len(c), p + Len(data)) : SmbcWrite(c, p, data)[i] =
       IF i \in p + 1 .. p + Len(data) THEN data[i - p]
       ELSE IF i <= Len(c) THEN c[i] ELSE Zero

LEMMA SmbcWriteFacts ==
  ASSUME NEW c \in Seq(Bytes), NEW p \in Nat, NEW data \in Seq(Bytes)
  PROVE  WritesAt(c, p, data)
<1> DEFINE L == Len(c)
           m == Len(data)
           n == Larger(L, p + m)
           w == SmbcWrite(c, p, data)
<1>1. L \in Nat /\ m \in Nat /\ n \in Nat
  <2>1. L \in Nat /\ m \in Nat
    BY LenProperties
  <2>2. QED
    BY <2>1 DEF Larger
<1>2. \A i \in 1 .. L : c[i] \in Bytes
  BY LenProperties
<1>3. \A i \in p + 1 .. p + m : data[i - p] \in Bytes
  <2>1. \A i \in p + 1 .. p + m : i - p \in 1 .. Len(data)
    BY <1>1
  <2>2. QED
    BY <2>1, LenProperties
<1>4. w = [i \in 1 .. n |-> IF i \in p + 1 .. p + m THEN data[i - p]
                            ELSE IF i <= L THEN c[i] ELSE Zero]
  BY DEF SmbcWrite
<1>5. w \in [1 .. n -> Bytes]
  <2> HIDE DEF n, w
  <2>1. Zero \in Bytes
    BY FilesAssumption
  <2>2. \A i \in 1 .. n : i <= L => i \in 1 .. L
    BY <1>1
  <2>3. QED
    BY <1>2, <1>3, <1>4, <2>1, <2>2
<1> HIDE DEF n, w
<1>6. w \in Seq(Bytes) /\ Len(w) = n
  BY <1>1, <1>5, SeqDef, LenProperties
<1>7. \A i \in 1 .. n : w[i] =
        IF i \in p + 1 .. p + m THEN data[i - p] ELSE IF i <= L THEN c[i] ELSE Zero
  BY <1>4
<1>8. QED
  BY <1>6, <1>7 DEF n, w, WritesAt

(* The file with the first m bytes of b in it, from p on. *)
Written(c, p, b, m) == IF m = 0 THEN c ELSE SmbcWrite(c, p, SubSeq(b, 1, m))

(* A part of a request, from a on up to z. *)
LEMMA PartFacts ==
  ASSUME NEW b \in Seq(Bytes), NEW a \in 0 .. Len(b), NEW z \in a .. Len(b)
  PROVE  /\ SubSeq(b, a + 1, z) \in Seq(Bytes)
         /\ Len(SubSeq(b, a + 1, z)) = z - a
         /\ \A i \in 1 .. z - a : SubSeq(b, a + 1, z)[i] = b[a + i]
<1>1. Len(b) \in Nat /\ \A i \in 1 .. Len(b) : b[i] \in Bytes
  BY LenProperties
<1>2. \A i \in a + 1 .. z : b[i] \in Bytes
  BY <1>1
<1>3. a + 1 \in Int /\ z \in Int /\ z - (a + 1) + 1 = z - a
  BY <1>1
<1>4. \A i \in 1 .. z - a : a + 1 + i - 1 = a + i
  BY <1>1
<1>5. QED
  BY <1>1, <1>2, <1>3, <1>4, SubSeqProperties

(* Two parts that follow each other are written as if they were one. *)
LEMMA WriteOn ==
  ASSUME NEW c \in Seq(Bytes), NEW p \in Nat, NEW b \in Seq(Bytes),
         NEW a \in 0 .. Len(b), NEW z \in 0 .. Len(b), a < z
  PROVE  SmbcWrite(Written(c, p, b, a), p + a, SubSeq(b, a + 1, z)) = Written(c, p, b, z)
<1>1. Len(b) \in Nat /\ Len(c) \in Nat
  BY LenProperties
<1>2. z # 0 /\ Written(c, p, b, z) = SmbcWrite(c, p, SubSeq(b, 1, z))
  BY <1>1 DEF Written
<1>3. CASE a = 0
  BY <1>1, <1>2, <1>3 DEF Written
<1>4. CASE a # 0
  <2> DEFINE u == SubSeq(b, 1, a)
             v == SubSeq(b, a + 1, z)
             w == SubSeq(b, 1, z)
             d == SmbcWrite(c, p, u)
             L == Len(c)
  <2>0. L = Len(c)
    OBVIOUS
  <2>1. /\ u \in Seq(Bytes) /\ Len(u) = a /\ \A i \in 1 .. a : u[i] = b[i]
        /\ w \in Seq(Bytes) /\ Len(w) = z /\ \A i \in 1 .. z : w[i] = b[i]
    <3>1. 0 \in 0 .. Len(b) /\ a \in 0 .. Len(b) /\ z \in 0 .. Len(b)
      BY <1>1
    <3>2. QED
      BY <3>1, PartFacts
  <2>2. v \in Seq(Bytes) /\ Len(v) = z - a /\ \A i \in 1 .. z - a : v[i] = b[a + i]
    BY <1>1, PartFacts
  <2> HIDE DEF u, v, w, L
  <2>3. /\ d \in Seq(Bytes) /\ Len(d) = Larger(L, p + a)
        /\ \A i \in 1 .. Larger(L, p + a) :
             d[i] = IF i \in p + 1 .. p + a THEN u[i - p] ELSE IF i <= L THEN c[i] ELSE Zero
    <3>1. WritesAt(c, p, u)
      BY <2>1, SmbcWriteFacts
    <3>2. QED
      BY <2>0, <2>1, <3>1 DEF WritesAt
  <2> HIDE DEF d
  <2>4. /\ SmbcWrite(d, p + a, v) \in Seq(Bytes)
        /\ Len(SmbcWrite(d, p + a, v)) = Larger(Len(d), p + a + (z - a))
        /\ \A i \in 1 .. Larger(Len(d), p + a + (z - a)) : SmbcWrite(d, p + a, v)[i] =
             IF i \in p + a + 1 .. p + a + (z - a) THEN v[i - (p + a)]
             ELSE IF i <= Len(d) THEN d[i] ELSE Zero
    <3>1. p + a \in Nat
      BY <1>1
    <3>2. WritesAt(d, p + a, v)
      BY <2>2, <2>3, <3>1, SmbcWriteFacts
    <3>3. QED
      BY <2>2, <3>2 DEF WritesAt
  <2>5. /\ SmbcWrite(c, p, w) \in Seq(Bytes)
        /\ Len(SmbcWrite(c, p, w)) = Larger(L, p + z)
        /\ \A i \in 1 .. Larger(L, p + z) : SmbcWrite(c, p, w)[i] =
             IF i \in p + 1 .. p + z THEN w[i - p] ELSE IF i <= L THEN c[i] ELSE Zero
    <3>1. WritesAt(c, p, w)
      BY <2>1, SmbcWriteFacts
    <3>2. QED
      BY <2>0, <2>1, <3>1 DEF WritesAt
  <2>6. p + a + (z - a) = p + z /\ Larger(Larger(L, p + a), p + z) = Larger(L, p + z)
    BY <1>1, <2>0 DEF Larger
  <2>7. ASSUME NEW i \in 1 .. Larger(L, p + z)
        PROVE  SmbcWrite(d, p + a, v)[i] = SmbcWrite(c, p, w)[i]
    <3>1. i \in Nat /\ L \in Nat
      BY <1>1, <2>0 DEF Larger
    <3>2. CASE i \in p + a + 1 .. p + z
      <4>1. v[i - (p + a)] = b[i - p] /\ w[i - p] = b[i - p]
        BY <1>1, <2>1, <2>2, <3>1, <3>2
      <4>2. QED
        BY <1>1, <2>3, <2>4, <2>5, <2>6, <3>1, <3>2, <4>1
    <3>3. CASE i \in p + 1 .. p + a
      <4>1. i <= Larger(L, p + a) /\ i \in 1 .. Larger(L, p + a)
        BY <1>1, <3>1, <3>3 DEF Larger
      <4>2. u[i - p] = b[i - p] /\ w[i - p] = b[i - p]
        BY <1>1, <2>1, <3>1, <3>3
      <4>3. QED
        BY <1>1, <2>3, <2>4, <2>5, <2>6, <3>1, <3>3, <4>1, <4>2
    <3>4. CASE i \notin p + 1 .. p + z
      <4>1. i \notin p + a + 1 .. p + z /\ i \notin p + 1 .. p + a
        BY <1>1, <2>0, <3>1, <3>4
      <4>2. CASE i <= L
        <5>1. i \in 1 .. Larger(L, p + a)
          BY <1>1, <3>1, <4>2 DEF Larger
        <5>2. QED
          BY <1>1, <2>3, <2>4, <2>5, <2>6, <3>1, <3>4, <4>1, <4>2, <5>1
      <4>3. CASE ~ (i <= L)
        BY <1>1, <2>3, <2>4, <2>5, <2>6, <3>1, <3>4, <4>1, <4>3
      <4>4. QED
        BY <4>2, <4>3
    <3>5. QED
      BY <1>1, <3>1, <3>2, <3>3, <3>4
  <2>8. Written(c, p, b, a) = d
    BY <1>4 DEF Written, d, u
  <2>9. SmbcWrite(d, p + a, v) = SmbcWrite(c, p, w)
    BY <2>3, <2>4, <2>5, <2>6, <2>7, SeqEqual
  <2>10. QED
    BY <1>2, <2>8, <2>9 DEF v, w
<1>5. QED
  BY <1>3, <1>4

(* What the file and the count are after any number of ranges. *)
LEMMA WriteRangesFacts ==
  ASSUME content \in Seq(Bytes), NEW p \in Nat, NEW b \in Seq(Bytes), NEW size, size = Len(b)
  PROVE  \A k \in 0 .. All(size) : WriteRanges(p, b)[k] =
           [file |-> Written(content, p, b, Reached(size, k)),
            bytesWritten |-> Reached(size, k)]
<1> DEFINE n == All(size)
           at(k) == Reached(size, k)
           part(range) == SubSeq(b, range.start + 1, range.start + range.span)
           g == [k \in 0 .. n |->
                  [file |-> Written(content, p, b, at(k)), bytesWritten |-> at(k)]]
           On(w, range) ==
             [file |-> SmbcWrite(w.file, p + w.bytesWritten, part(range)),
              bytesWritten |-> w.bytesWritten + Len(part(range))]
           Body(f, k) ==
             IF k = 0 THEN [file |-> content, bytesWritten |-> 0]
             ELSE On(f[k - 1], Ranges(size)[k])
<1>0. size \in Nat
  BY LenProperties
<1>1. n \in Nat
  BY <1>0, RangesFacts
<1>2. g[0] = Body(g, 0)
  <2>1. at(0) = 0 /\ Written(content, p, b, 0) = content
    BY <1>0, RangesFacts DEF Written
  <2>2. g[0] = [file |-> Written(content, p, b, at(0)), bytesWritten |-> at(0)]
    BY <1>1
  <2>3. QED
    BY <2>1, <2>2
<1>3. ASSUME NEW k \in 1 .. n PROVE g[k] = On(g[k - 1], Ranges(size)[k])
  <2> DEFINE a == at(k - 1)
             z == at(k)
  <2>1. k - 1 \in 0 .. n /\ k \in 0 .. n
    BY <1>1
  <2>2. /\ g[k - 1] = [file |-> Written(content, p, b, a), bytesWritten |-> a]
        /\ g[k] = [file |-> Written(content, p, b, z), bytesWritten |-> z]
    BY <2>1
  <2>3. /\ a \in 0 .. size /\ z \in 0 .. size /\ a < z
        /\ Ranges(size)[k].start = a /\ Ranges(size)[k].span = z - a
    BY <1>0, <2>1, RangesFacts
  <2> HIDE DEF a, z, g
  <2>4. part(Ranges(size)[k]) = SubSeq(b, a + 1, z)
    BY <1>0, <2>3
  <2>5. Len(SubSeq(b, a + 1, z)) = z - a
    BY <1>0, <2>3, PartFacts
  <2>6. SmbcWrite(Written(content, p, b, a), p + a, SubSeq(b, a + 1, z)) = Written(content, p, b, z)
    BY <1>0, <2>3, WriteOn
  <2>7. g[k - 1].file = Written(content, p, b, a) /\ g[k - 1].bytesWritten = a
    BY <2>2
  <2> HIDE DEF part
  <2>8. On(g[k - 1], Ranges(size)[k]) = [file |-> Written(content, p, b, z), bytesWritten |-> a + (z - a)]
    BY <2>4, <2>5, <2>6, <2>7
  <2>9. a + (z - a) = z
    BY <1>0, <2>3
  <2>10. QED
    BY <2>2, <2>8, <2>9
<1>a. g = [k \in 0 .. n |-> g[k]]
  OBVIOUS
<1>5. WriteRanges(p, b) = CHOOSE f : f = [k \in 0 .. n |-> Body(f, k)]
  BY DEF WriteRanges, All
<1> HIDE DEF g, On, n, part
<1>4. g = [k \in 0 .. n |-> Body(g, k)]
  <2>1. \A k \in 0 .. n : g[k] = Body(g, k)
    <3>1. \A k \in 0 .. n : k = 0 \/ k \in 1 .. n
      BY <1>1
    <3>2. QED
      BY <1>2, <1>3, <3>1
  <2> HIDE DEF Body
  <2>2. QED
    BY <1>a, <2>1
<1>6. WriteRanges(p, b) = [k \in 0 .. n |-> Body(WriteRanges(p, b), k)]
  BY <1>4, <1>5
<1>7. WriteRanges(p, b)[0] = g[0]
  BY <1>1, <1>2, <1>6
<1>8. ASSUME NEW k \in 1 .. n, WriteRanges(p, b)[k - 1] = g[k - 1]
      PROVE  WriteRanges(p, b)[k] = g[k]
  <2>1. k \in 0 .. n /\ k # 0
    BY <1>1
  <2>2. WriteRanges(p, b)[k] = On(WriteRanges(p, b)[k - 1], Ranges(size)[k])
    BY <1>6, <2>1
  <2>3. QED
    BY <1>3, <1>8, <2>2
<1>9. \A k \in 0 .. n : WriteRanges(p, b)[k] = g[k]
  <2>1. Agree(WriteRanges(p, b), g, n)
    BY <1>7, <1>8 DEF Agree
  <2>2. QED
    BY <1>1, <2>1, SameRecursion
<1>10. QED
  BY <1>9 DEF g, n

(* What a stream reads range by range is what it would read at once. *)
LEMMA ReadWhole ==
  ASSUME content \in Seq(Bytes), NEW p \in Nat, NEW size \in Nat,
         NEW r, r = ReadRanges(p, size)[All(size)]
  PROVE  r.bytesRead = Counted(p, size) /\ SubSeq(r.array, 1, r.bytesRead) = SmbcRead(p, size)
<1> DEFINE c == Counted(p, size)
<1>1. r = [array |-> Filled(p, size, c), bytesRead |-> c]
  <2>1. All(size) \in 0 .. All(size) /\ Reached(size, All(size)) = size
    BY RangesFacts
  <2>2. ReadRanges(p, size)[All(size)] =
          [array |-> Filled(p, size, Counted(p, Reached(size, All(size)))),
           bytesRead |-> Counted(p, Reached(size, All(size)))]
    BY <2>1, ReadRangesFacts
  <2>3. QED
    BY <2>1, <2>2
<1>2. /\ SmbcRead(p, size) \in Seq(Bytes)
      /\ c \in 0 .. size
      /\ Len(SmbcRead(p, size)) = c
      /\ \A i \in 1 .. c : SmbcRead(p, size)[i] = content[p + i]
  BY SmbcReadFacts
<1> HIDE DEF c
<1>3. \A i \in 1 .. c : Filled(p, size, c)[i] = SmbcRead(p, size)[i]
  BY <1>2 DEF Filled
<1>4. \A i \in 1 .. c : Filled(p, size, c)[i] \in Bytes
  BY <1>2, <1>3, LenProperties
<1>5. /\ SubSeq(Filled(p, size, c), 1, c) \in Seq(Bytes)
      /\ Len(SubSeq(Filled(p, size, c), 1, c)) = c
      /\ \A i \in 1 .. c : SubSeq(Filled(p, size, c), 1, c)[i] = Filled(p, size, c)[i]
  <2>1. /\ SubSeq(Filled(p, size, c), 1, c) \in Seq(Bytes)
        /\ Len(SubSeq(Filled(p, size, c), 1, c)) = IF 1 <= c THEN c - 1 + 1 ELSE 0
        /\ \A i \in 1 .. c - 1 + 1 : SubSeq(Filled(p, size, c), 1, c)[i] = Filled(p, size, c)[1 + i - 1]
    BY <1>2, <1>4, SubSeqProperties
  <2>2. c - 1 + 1 = c /\ (\A i \in 1 .. c : 1 + i - 1 = i) /\ (~ (1 <= c) => c = 0)
    BY <1>2
  <2>3. QED
    BY <2>1, <2>2
<1>6. SubSeq(Filled(p, size, c), 1, c) = SmbcRead(p, size)
  BY <1>2, <1>3, <1>5, SeqEqual
<1>7. QED
  BY <1>1, <1>6 DEF c

-----------------------------------------------------------------------------
(* What is transferred *)

(* Clients that may have been given something are those that can read. *)
Reading(t) == t.at = "open" \/ (t.at = "copying" /\ t.mode = "r")
Forgetful == \A s \in Streams : got[s] # <<>> => Reading(stream[s])

Transfers ==
  /\ content \in Data(MaxSize)
  /\ position \in [Streams -> 0 .. MaxSize]
  /\ got \in [Streams -> Data(MaxRequest)]
  /\ Forgetful

(* A step keeps this, and is one of RemoteFile or a stutter. *)
Steps == Transfers' /\ [Remote!Next]_(Remote!vars)

LEMMA Constants ==
  /\ Capacity \in Nat /\ MaxRequest \in Nat /\ MaxSize \in Nat
  /\ 0 < Capacity /\ 0 < MaxRequest /\ 0 < MaxSize
BY FilesAssumption

LEMMA ContentFacts ==
  ASSUME Transfers
  PROVE  content \in Seq(Bytes) /\ Len(content) \in 0 .. MaxSize
BY Constants, DataFacts, LenProperties DEF Transfers

(* Nothing happens to what the streams read and write. *)
LEMMA StutterSteps ==
  ASSUME Transfers, \A s \in Streams : fds'[s] = fds[s],
         UNCHANGED <<position, content, got>>, Forgetful'
  PROVE  Steps
<1>1. Transfers'
  BY DEF Transfers
<1>2. \A s \in Streams : Usable(s)' = Usable(s)
  BY DEF Usable
<1>3. [s \in Streams |-> IF Usable(s) THEN position[s] ELSE None]' =
        [s \in Streams |-> IF Usable(s) THEN position[s] ELSE None]
  BY <1>2
<1>4. UNCHANGED Remote!vars
  BY <1>3 DEF Remote!vars
<1>5. QED
  BY <1>1, <1>4 DEF Steps

(* Only the position of s changes, by as much as is transferred. *)
LEMMA MovedFacts ==
  ASSUME IInv, Transfers, NEW s \in Streams, NEW n \in Nat, Moved(s, n), fds[s] = "valid",
         position[s] + n <= MaxSize
  PROVE  /\ position' \in [Streams -> 0 .. MaxSize]
         /\ [r \in Streams |-> IF Usable(r) THEN position[r] ELSE None]' =
              [[r \in Streams |-> IF Usable(r) THEN position[r] ELSE None]
                 EXCEPT ![s] = @ + n]
         /\ [r \in Streams |-> IF Usable(r) THEN position[r] ELSE None][s] = position[s]
         /\ position[s] \in 0 .. MaxSize /\ position[s] # None
<1>1. position[s] \in 0 .. MaxSize
  BY DEF Transfers
<1>2. position[s] + n \in 0 .. MaxSize
  BY <1>1, Constants
<1>3. position' = [position EXCEPT ![s] = position[s] + n] /\ fds' = fds
  BY DEF Moved
<1>4. position' \in [Streams -> 0 .. MaxSize]
  BY <1>2, <1>3 DEF Transfers
<1>5. \A r \in Streams : /\ Usable(r)' = Usable(r)
                         /\ position'[r] = IF r = s THEN position[s] + n ELSE position[r]
  BY <1>3 DEF Usable, Transfers
<1>6. Usable(s)
  BY DEF Usable
<1>7. position[s] # None
  BY <1>1, FilesAssumption
<1>8. QED
  BY <1>1, <1>4, <1>5, <1>6, <1>7

(* A read that gets through, of bytes within the bounds. *)
LEMMA ReadSteps ==
  ASSUME IInv, Transfers, NEW s \in Streams, NEW size \in 1 .. MaxRequest, Read(s, size),
         Reading(stream[s]), UNCHANGED stream
  PROVE  Steps
<1> DEFINE p == position[s]
           d == SmbcRead(p, size)
           n == Smaller(size, MaxSize)
<1>1. content \in Seq(Bytes) /\ Len(content) \in 0 .. MaxSize
  BY ContentFacts
<1>2. p \in Nat /\ p <= MaxSize /\ size \in Nat /\ 1 <= size /\ size <= MaxRequest
  BY Constants DEF Transfers
<1>3. /\ d \in Seq(Bytes) /\ Len(d) = Counted(p, size)
      /\ Len(d) \in 0 .. size /\ Len(d) \in Nat
  <2> HIDE DEF p
  <2>1. /\ d \in Seq(Bytes)
        /\ Counted(p, size) \in 0 .. size
        /\ Len(d) = Counted(p, size)
    BY <1>1, <1>2, SmbcReadFacts
  <2>2. QED
    BY <1>2, <2>1
<1>4. p + Len(d) <= MaxSize
  BY <1>1, <1>2, <1>3, Constants DEF Counted, Smaller
<1>5. got' = [got EXCEPT ![s] = d] /\ Moved(s, Len(d)) /\ content' = content /\ fds[s] = "valid"
  <2> DEFINE r == ReadRanges(p, size)[All(size)]
  <2>1. r.bytesRead = Counted(p, size) /\ SubSeq(r.array, 1, r.bytesRead) = d
    BY <1>1, <1>2, ReadWhole
  <2>2. QED
    BY <1>3, <2>1 DEF Read, Usable
<1>6. d \in Data(MaxRequest)
  BY <1>2, <1>3, Constants, DataFacts
<1>7. n \in 1 .. MaxSize /\ Smaller(p + size, Len(content)) = Smaller(p + n, Len(content))
  BY <1>1, <1>2, Constants DEF Smaller
<1>8. d = SubSeq(content, p + 1, Remote!Smaller(p + n, Len(content)))
  BY <1>7 DEF SmbcRead, Smaller, Remote!Smaller
<1> HIDE DEF p, d, n
<1>9. got' \in [Streams -> Data(MaxRequest)] /\ got'[s] = d
  BY <1>5, <1>6 DEF Transfers
<1>10. Transfers'
  <2>1. Forgetful'
    BY <1>5 DEF Transfers, Forgetful
  <2>2. position' \in [Streams -> 0 .. MaxSize]
    BY <1>3, <1>4, <1>5, MovedFacts DEF p
  <2>3. QED
    BY <1>5, <1>9, <2>1, <2>2 DEF Transfers
<1>11. Remote!Read(s, n)
  <2> DEFINE w == [r \in Streams |-> IF Usable(r) THEN position[r] ELSE None]
  <2>1. w' = [w EXCEPT ![s] = @ + Len(d)] /\ w[s] = p /\ p # None
    BY <1>3, <1>4, <1>5, MovedFacts DEF p
  <2>2. got' = [got EXCEPT ![s] = Remote!ReadAt(content, w[s], n)]
    BY <1>5, <1>8, <2>1 DEF Remote!ReadAt
  <2>3. w' = [w EXCEPT ![s] = @ + Len(got'[s])]
    BY <1>9, <2>1
  <2>4. QED
    BY <1>5, <2>1, <2>2, <2>3 DEF Remote!Read
<1>12. QED
  BY <1>7, <1>10, <1>11 DEF Steps, Remote!Next

(* One that does not leaves the position at one of those it went through. *)
LEMMA FailToReadSteps ==
  ASSUME IInv, Transfers, NEW s \in Streams, NEW size \in 1 .. MaxRequest,
         FailToRead(s, size), UNCHANGED stream
  PROVE  Steps
<1> DEFINE p == position[s]
<1>1. PICK k \in Partial(size) :
        (k # 0 => Usable(s)) /\ Moved(s, ReadRanges(p, size)[k].bytesRead)
  BY DEF FailToRead
<1>2. UNCHANGED <<content, got>>
  BY DEF FailToRead
<1> DEFINE c == Counted(p, Reached(size, k))
<1>3. content \in Seq(Bytes) /\ Len(content) \in 0 .. MaxSize
  BY ContentFacts
<1>4. p \in Nat /\ p <= MaxSize /\ size \in Nat
  BY Constants DEF Transfers
<1>5. k \in 0 .. All(size) /\ Reached(size, k) \in 0 .. size /\ Reached(size, 0) = 0
  <2>1. All(size) \in Nat
    BY <1>4, RangesFacts
  <2>2. k \in 0 .. All(size)
    BY <2>1 DEF Partial
  <2>3. QED
    BY <1>4, <2>2, RangesFacts
<1>6. ReadRanges(p, size)[k].bytesRead = c
  <2>1. ReadRanges(p, size)[k] = [array |-> Filled(p, size, c), bytesRead |-> c]
    BY <1>3, <1>4, <1>5, ReadRangesFacts
  <2> HIDE DEF c
  <2>2. QED
    BY <2>1
<1>7. c \in Nat /\ (c # 0 => p + c <= Len(content) /\ k # 0)
  BY <1>3, <1>4, <1>5, Constants DEF Counted, Smaller
<1> HIDE DEF c, p
<1>8. CASE c = 0
  <2>1. position' = position /\ fds' = fds
    BY <1>1, <1>6, <1>8, Constants DEF Moved, Transfers, p
  <2>2. QED
    BY <1>2, <2>1, StutterSteps DEF Transfers, Forgetful
<1>9. CASE c # 0
  <2> DEFINE w == [r \in Streams |-> IF Usable(r) THEN position[r] ELSE None]
  <2>1. fds[s] = "valid" /\ Moved(s, c) /\ p + c <= MaxSize
    BY <1>1, <1>3, <1>4, <1>6, <1>7, <1>9, Constants DEF Usable
  <2>2. /\ position' \in [Streams -> 0 .. MaxSize]
        /\ w' = [w EXCEPT ![s] = @ + c] /\ w[s] = p /\ p # None
    BY <1>7, <2>1, MovedFacts DEF p
  <2>3. Transfers'
    BY <1>2, <2>2 DEF Transfers, Forgetful
  <2>4. p + c \in p .. Len(content)
    BY <1>3, <1>4, <1>7, <1>9, Constants
  <2>5. w' = [w EXCEPT ![s] = p + c]
    <3> HIDE DEF w
    <3>1. QED
      BY <2>2
  <2>6. Remote!FailToRead(s)
    BY <1>2, <2>2, <2>4, <2>5 DEF Remote!FailToRead
  <2>7. QED
    BY <2>3, <2>6 DEF Steps, Remote!Next
<1>10. QED
  BY <1>8, <1>9

(* The first bytes of a request, at the position of a stream. *)
LEMMA WrittenFacts ==
  ASSUME Transfers, NEW p \in 0 .. MaxSize, NEW b \in Requests, p + Len(b) <= MaxSize,
         NEW m \in 1 .. Len(b)
  PROVE  /\ SubSeq(b, 1, m) \in Remote!Contents /\ Len(SubSeq(b, 1, m)) = m
         /\ Written(content, p, b, m) = Remote!WriteAt(content, p, SubSeq(b, 1, m))
         /\ Written(content, p, b, m) \in Data(MaxSize)
<1> DEFINE d == SubSeq(b, 1, m)
<1>1. content \in Seq(Bytes) /\ Len(content) \in 0 .. MaxSize
  BY ContentFacts
<1>2. b \in Seq(Bytes) /\ Len(b) \in Nat
  BY Constants, DataFacts, LenProperties DEF Requests
<1>3. d \in Seq(Bytes) /\ Len(d) = m
  <2>1. 0 \in 0 .. Len(b) /\ m \in 0 .. Len(b)
    BY <1>2
  <2>2. QED
    BY <1>2, <2>1, PartFacts
<1>4. d \in Data(MaxSize)
  <2>1. Len(d) <= MaxSize
    BY <1>2, <1>3, Constants
  <2> HIDE DEF d
  <2>2. QED
    BY <1>3, <2>1, Constants, DataFacts
<1>5. Remote!Contents = Data(MaxSize)
  BY DEF Remote!Contents, Data
<1> HIDE DEF d
<1>6. d # <<>> /\ m # 0
  BY <1>2, <1>3
<1>7. Remote!WriteAt(content, p, d) = SmbcWrite(content, p, d)
  BY <1>6 DEF Remote!WriteAt, SmbcWrite, Larger, Remote!Larger
<1>8. SmbcWrite(content, p, d) \in Seq(Bytes)
      /\ Len(SmbcWrite(content, p, d)) = Larger(Len(content), p + Len(d))
  <2>1. WritesAt(content, p, d)
    BY <1>1, <1>3, Constants, SmbcWriteFacts
  <2>2. QED
    BY <2>1 DEF WritesAt
<1>9. Larger(Len(content), p + Len(d)) <= MaxSize
  BY <1>1, <1>2, <1>3, Constants DEF Larger
<1>10. SmbcWrite(content, p, d) \in Data(MaxSize)
  BY <1>8, <1>9, Constants, DataFacts
<1>11. QED
  BY <1>3, <1>4, <1>5, <1>6, <1>7, <1>10 DEF d, Written

(* The first m bytes of a request are written, and counted. *)
LEMMA WritesSome ==
  ASSUME IInv, Transfers, NEW s \in Streams, NEW b \in Requests,
         position[s] + Len(b) <= MaxSize, NEW m \in 0 .. Len(b), m # 0 => Usable(s),
         content' = Written(content, position[s], b, m), Moved(s, m),
         UNCHANGED <<got, stream>>
  PROVE  Steps
<1> DEFINE p == position[s]
<1>1. p \in 0 .. MaxSize
  BY DEF Transfers
<1>2. Len(b) \in Nat
  BY Constants, DataFacts, LenProperties DEF Requests
<1>3. CASE m = 0
  <2>1. position' = position /\ fds' = fds /\ content' = content
    BY <1>3, Constants DEF Moved, Transfers, Written
  <2>2. QED
    BY <2>1, StutterSteps DEF Transfers, Forgetful
<1>4. CASE m # 0
  <2> DEFINE w == [r \in Streams |-> IF Usable(r) THEN position[r] ELSE None]
             d == SubSeq(b, 1, m)
  <2>1. fds[s] = "valid" /\ p + m <= MaxSize /\ m \in Nat
    BY <1>1, <1>2, <1>4, Constants DEF Usable
  <2>2. /\ position' \in [Streams -> 0 .. MaxSize]
        /\ w' = [w EXCEPT ![s] = @ + m] /\ w[s] = p /\ p # None
    BY <2>1, MovedFacts
  <2>3. m \in 1 .. Len(b)
    BY <1>2, <1>4
  <2>4. /\ d \in Remote!Contents /\ Len(d) = m
        /\ content' = Remote!WriteAt(content, p, d)
        /\ content' \in Data(MaxSize)
    BY <1>1, <2>3, WrittenFacts
  <2>5. Transfers'
    BY <2>2, <2>4 DEF Transfers, Forgetful
  <2> HIDE DEF d, p
  <2>6. Remote!Write(s, d)
    BY <2>2, <2>4 DEF Remote!Write
  <2>7. QED
    BY <2>4, <2>5, <2>6 DEF Steps, Remote!Next
<1>5. QED
  BY <1>3, <1>4

(* After k ranges these are the ones that they consist of. *)
LEMMA WritesUpTo ==
  ASSUME Transfers, NEW s \in Streams, NEW b \in Requests, NEW k \in 0 .. All(Len(b))
  PROVE  /\ Reached(Len(b), k) \in 0 .. Len(b)
         /\ k = 0 => Reached(Len(b), k) = 0
         /\ WriteRanges(position[s], b)[k].file =
              Written(content, position[s], b, Reached(Len(b), k))
         /\ WriteRanges(position[s], b)[k].bytesWritten = Reached(Len(b), k)
<1> DEFINE p == position[s]
           m == Reached(Len(b), k)
<1>1. p \in Nat /\ content \in Seq(Bytes)
  BY ContentFacts, Constants DEF Transfers
<1>2. b \in Seq(Bytes) /\ Len(b) \in Nat
  BY Constants, DataFacts, LenProperties DEF Requests
<1>3. m \in 0 .. Len(b) /\ (k = 0 => m = 0)
  BY <1>2, RangesFacts
<1>4. WriteRanges(p, b)[k] = [file |-> Written(content, p, b, m), bytesWritten |-> m]
  BY <1>1, <1>2, WriteRangesFacts
<1> HIDE DEF m, p
<1>5. WriteRanges(p, b)[k].file = Written(content, p, b, m)
      /\ WriteRanges(p, b)[k].bytesWritten = m
  BY <1>4
<1>6. QED
  BY <1>3, <1>5 DEF m, p

LEMMA PartialFacts ==
  ASSUME NEW b \in Requests
  PROVE  /\ All(Len(b)) \in 0 .. All(Len(b)) /\ Reached(Len(b), All(Len(b))) = Len(b)
         /\ Partial(Len(b)) \subseteq 0 .. All(Len(b))
         /\ Len(b) \in Nat
<1>1. Len(b) \in Nat
  BY Constants, DataFacts, LenProperties DEF Requests
<1>2. All(Len(b)) \in Nat /\ Reached(Len(b), All(Len(b))) = Len(b)
  BY <1>1, RangesFacts
<1>3. QED
  BY <1>1, <1>2 DEF Partial

(* A request that is written, as a whole or in part. *)
LEMMA WriteSteps ==
  ASSUME IInv, Transfers, NEW s \in Streams, NEW b \in Requests,
         Write(s, b) \/ FailToWrite(s, b), UNCHANGED stream
  PROVE  Steps
<1>1. CASE Write(s, b)
  <2>1. All(Len(b)) \in 0 .. All(Len(b)) /\ Reached(Len(b), All(Len(b))) = Len(b)
        /\ Len(b) \in 0 .. Len(b)
    BY PartialFacts
  <2>2. /\ WriteRanges(position[s], b)[All(Len(b))].file = Written(content, position[s], b, Len(b))
        /\ WriteRanges(position[s], b)[All(Len(b))].bytesWritten = Len(b)
    BY <2>1, WritesUpTo
  <2>3. /\ Usable(s) /\ position[s] + Len(b) <= MaxSize
        /\ content' = Written(content, position[s], b, Len(b))
        /\ Moved(s, Len(b)) /\ UNCHANGED got
    BY <1>1, <2>2 DEF Write
  <2>4. QED
    BY <2>1, <2>3, WritesSome
<1>2. CASE FailToWrite(s, b)
  <2>1. PICK k \in Partial(Len(b)) :
          /\ k # 0 => Usable(s)
          /\ content' = WriteRanges(position[s], b)[k].file
          /\ Moved(s, WriteRanges(position[s], b)[k].bytesWritten)
    BY <1>2 DEF FailToWrite
  <2>2. k \in 0 .. All(Len(b))
    BY PartialFacts
  <2> DEFINE m == Reached(Len(b), k)
  <2>3. /\ m \in 0 .. Len(b) /\ (k = 0 => m = 0)
        /\ WriteRanges(position[s], b)[k].file = Written(content, position[s], b, m)
        /\ WriteRanges(position[s], b)[k].bytesWritten = m
    BY <2>2, WritesUpTo
  <2> HIDE DEF m
  <2>4. /\ m # 0 => Usable(s)
        /\ content' = Written(content, position[s], b, m)
        /\ Moved(s, m)
    BY <2>1, <2>3
  <2>5. position[s] + Len(b) <= MaxSize /\ UNCHANGED got
    BY <1>2 DEF FailToWrite
  <2>6. QED
    BY <2>3, <2>4, <2>5, WritesSome
<1>3. QED
  BY <1>1, <1>2

LEMMA EmptyData == <<>> \in Data(MaxSize) /\ <<>> \in Data(MaxRequest)
<1> DEFINE e == <<>>
<1>1. e \in Seq(Bytes) /\ Len(e) = 0
  OBVIOUS
<1> HIDE DEF e
<1>2. /\ \A q : q \in Data(MaxSize) <=> q \in Seq(Bytes) /\ Len(q) <= MaxSize
      /\ \A q : q \in Data(MaxRequest) <=> q \in Seq(Bytes) /\ Len(q) <= MaxRequest
  BY Constants, DataFacts
<1>3. Len(e) <= MaxSize /\ Len(e) <= MaxRequest
  BY <1>1, Constants
<1>4. e \in Data(MaxSize) /\ e \in Data(MaxRequest)
  BY <1>1, <1>2, <1>3, Zenon
<1>5. QED
  BY <1>4 DEF e

(* The streams of S lose their files, perhaps after a last write of one. *)
LEMMA LoseSteps ==
  ASSUME Transfers, NEW S \in SUBSET Streams,
         \A s \in S : fds'[s] # "valid",
         \A s \in Streams \ S : fds'[s] = fds[s] /\ position'[s] = position[s],
         position' \in [Streams -> 0 .. MaxSize],
         got' \in {got, [s \in Streams |-> IF s \in S THEN <<>> ELSE got[s]]},
         \/ UNCHANGED content
         \/ \E s \in S, data \in Remote!Contents :
              /\ Usable(s)
              /\ content' = Remote!WriteAt(content, position[s], data),
         content' \in Data(MaxSize), Forgetful'
  PROVE  Steps
<1> DEFINE w == [r \in Streams |-> IF Usable(r) THEN position[r] ELSE None]
<1>1. got' \in [Streams -> Data(MaxRequest)]
  BY EmptyData DEF Transfers
<1>2. Transfers'
  BY <1>1 DEF Transfers
<1>3. w' = [s \in Streams |-> IF s \in S THEN None ELSE w[s]]
  <2>1. \A s \in Streams : w'[s] = IF s \in S THEN None ELSE w[s]
    BY DEF Usable
  <2>2. QED
    BY <2>1
<1>4. \/ UNCHANGED content
      \/ \E s \in S, data \in Remote!Contents :
           w[s] # None /\ content' = Remote!WriteAt(content, w[s], data)
  <2>1. ASSUME NEW s \in S, Usable(s) PROVE w[s] = position[s] /\ w[s] # None
    <3>1. position[s] \in 0 .. MaxSize
      BY DEF Transfers
    <3>2. position[s] # None
      BY <3>1, FilesAssumption
    <3>3. QED
      BY <2>1, <3>2
  <2> HIDE DEF w
  <2>2. QED
    BY <2>1
<1>5. Remote!Lose(S)
  BY <1>3, <1>4 DEF Remote!Lose
<1>6. QED
  BY <1>2, <1>5 DEF Steps, Remote!Next

(* The context is replaced: nobody can use what was open. *)
LEMMA ResetSteps ==
  ASSUME IInv, Transfers, Reset
  PROVE  Steps
<1>1. \A s \in Streams : fds'[s] # "valid"
  BY DEF Reset, NativeDestroy, Owners
<1>2. /\ UNCHANGED <<content, got>>
      /\ stream' = [s \in Streams |-> IF s \in Refused THEN Closed ELSE stream[s]]
      /\ position' = [s \in Streams |-> IF s \in Refused THEN 0 ELSE position[s]]
  BY DEF Reset
<1>a. position' \in [Streams -> 0 .. MaxSize]
  BY <1>2, Constants DEF Transfers
<1>b. \A s \in Streams : stream'[s] = stream[s] \/ got[s] = <<>>
  BY <1>2 DEF Refused, Transfers, Forgetful, Reading
<1>3. Forgetful' /\ Streams \in SUBSET Streams
  BY <1>2, <1>b DEF Transfers, Forgetful
<1>4. QED
  BY <1>1, <1>2, <1>a, <1>3, LoseSteps DEF Transfers

(* The process ends, perhaps after a last write. *)
LEMMA VanishSteps ==
  ASSUME Transfers, Vanish,
         \/ UNCHANGED content
         \/ \E s \in Streams, data \in Remote!Contents :
              /\ Usable(s)
              /\ content' = Remote!WriteAt(content, position[s], data),
         content' \in Data(MaxSize)
  PROVE  Steps
<1>1. \A s \in Streams : fds'[s] = "none" /\ got'[s] = <<>>
  BY DEF Vanish, NothingOpen, Owners
<1>2. position' \in [Streams -> 0 .. MaxSize]
  BY Constants DEF Vanish, NothingOpen
<1>3. got' = [s \in Streams |-> IF s \in Streams THEN <<>> ELSE got[s]]
  BY DEF Vanish
<1>4. Forgetful'
  BY <1>1 DEF Forgetful
<1>5. Streams \in SUBSET Streams
  OBVIOUS
<1>6. QED
  BY <1>1, <1>2, <1>3, <1>4, <1>5, LoseSteps

(* The file of one stream is closed. *)
LEMMA FreeSteps ==
  ASSUME IInv, Transfers, NEW s \in Streams, FreeFile(s), UNCHANGED content,
         got' \in {got, Forgotten(s)}, Forgetful'
  PROVE  Steps
<1>1. fds'[s] = "none" /\ \A r \in Streams \ {s} : fds'[r] = fds[r]
  BY DEF FreeFile, Free, IInv, Shape, Owners
<1>2. /\ position' \in [Streams -> 0 .. MaxSize]
      /\ \A r \in Streams \ {s} : position'[r] = position[r]
  BY Constants DEF FreeFile, Transfers
<1>3. Forgotten(s) = [r \in Streams |-> IF r \in {s} THEN <<>> ELSE got[r]]
  BY DEF Forgotten, Transfers
<1>4. {s} \in SUBSET Streams
  OBVIOUS
<1>5. QED
  BY <1>1, <1>2, <1>3, <1>4, LoseSteps DEF Transfers

LEMMA OpenedFacts ==
  ASSUME Transfers, NEW mode
  PROVE  Opened(mode) \in {content, <<>>} /\ Opened(mode) \in Data(MaxSize)
BY EmptyData DEF Opened, Transfers

(* A stream that has been given nothing gets a file. *)
LEMMA OpenSteps ==
  ASSUME IInv, Transfers, NEW s \in Streams, NEW mode, OpenFile(s, mode), got[s] = <<>>,
         UNCHANGED got, \A r \in Streams \ {s} : stream'[r] = stream[r]
  PROVE  Steps
<1> DEFINE w == [r \in Streams |-> IF Usable(r) THEN position[r] ELSE None]
           p == IF mode = "wa" THEN Len(content) ELSE 0
<1>1. content' \in {content, <<>>} /\ content' \in Data(MaxSize)
  BY OpenedFacts DEF OpenFile
<1>2. p \in 0 .. MaxSize /\ p \in {0, Len(content')}
  <2>1. Len(content) \in 0 .. MaxSize
    BY ContentFacts
  <2>2. mode = "wa" => content' = content
    BY DEF OpenFile, Opened
  <2>3. QED
    BY <2>1, <2>2, Constants
<1> HIDE DEF p
<1>3. position' = [position EXCEPT ![s] = p]
  BY DEF OpenFile, p
<1>4. \A r \in Streams : w'[r] = IF r = s THEN p ELSE w[r]
  BY <1>3 DEF OpenFile, Usable, IInv, Shape, Owners, Transfers
<1>5. w[s] = None
  BY DEF OpenFile, Usable
<1>6. w' = [w EXCEPT ![s] = p]
  BY <1>4
<1>7. got' = [got EXCEPT ![s] = <<>>]
  BY DEF Transfers
<1>8. Remote!Open(s)
  BY <1>1, <1>2, <1>5, <1>6, <1>7 DEF Remote!Open
<1>9. Transfers'
  <2>1. position' \in [Streams -> 0 .. MaxSize]
    BY <1>2, <1>3 DEF Transfers
  <2>2. Forgetful'
    BY DEF Transfers, Forgetful
  <2>3. QED
    BY <1>1, <2>1, <2>2 DEF Transfers
<1>10. QED
  BY <1>8, <1>9 DEF Steps, Remote!Next

(* A stream that is "closed", "starting" or "ended" has been given nothing,   *)
(* and neither has one that writes into the file.                             *)
LEMMA ForgetfulFacts ==
  ASSUME IInv, Transfers, NEW s \in Streams, ~ Reading(stream[s])
  PROVE  got[s] = <<>>
BY DEF Transfers, Forgetful

(* A client that may read goes on with what it was given. *)
LEMMA StreamChange ==
  ASSUME IInv, Transfers, NEW s \in Streams, NEW t, stream' = [stream EXCEPT ![s] = t],
         got' \in {got, Forgotten(s)}, got'[s] = <<>> \/ Reading(t)
  PROVE  Forgetful'
<1>1. \A r \in Streams \ {s} : got'[r] = got[r]
  BY DEF Forgotten, Transfers
<1>2. ASSUME NEW r \in Streams, got'[r] # <<>> PROVE Reading(stream'[r])
  <2>1. CASE r # s
    <3>1. stream'[r] = stream[r] /\ got[r] # <<>>
      BY <1>1, <1>2, <2>1
    <3>2. QED
      BY <3>1 DEF Transfers, Forgetful
  <2>2. CASE r = s
    BY <1>2, <2>2 DEF IInv, Shape
  <2>3. QED
    BY <2>1, <2>2
<1>3. QED
  BY <1>2 DEF Forgetful

(* The callbacks of proxies, and opening them. *)
LEMMA ProxySteps ==
  ASSUME IInv, Transfers, NEW s \in Streams, Proxy(s)
  PROVE  Steps
<1>1. ASSUME NEW mode \in Modes, OpenProxy(s, mode) PROVE Steps
  <2>1. got[s] = <<>>
    BY <1>1, ForgetfulFacts DEF OpenProxy, Reading
  <2>2. UNCHANGED got /\ \A r \in Streams \ {s} : stream'[r] = stream[r]
    BY <1>1 DEF OpenProxy, IInv, Shape
  <2>3. QED
    BY <1>1, <2>1, <2>2, OpenSteps DEF OpenProxy
<1>2. ASSUME NEW mode \in Modes, RefuseProxy(s, mode) PROVE Steps
  <2>1. got[s] = <<>>
    BY <1>2, ForgetfulFacts DEF RefuseProxy, Reading
  <2>2. UNCHANGED got /\ \A r \in Streams \ {s} : stream'[r] = stream[r]
    BY <1>2 DEF RefuseProxy, IInv, Shape
  <2>3. QED
    BY <1>2, <2>1, <2>2, OpenSteps DEF RefuseProxy
<1>3. ASSUME NEW size \in 1 .. MaxRequest, OnRead(s, size) PROVE Steps
  <2>1. Reading(stream[s]) /\ UNCHANGED stream
    BY <1>3 DEF OnRead, IsProxy, Reading
  <2>2. QED
    BY <1>3, <2>1, ReadSteps, FailToReadSteps DEF OnRead
<1>4. ASSUME NEW b \in Requests, OnWrite(s, b) PROVE Steps
  BY <1>4, WriteSteps DEF OnWrite
<1>5. CASE OnRelease(s)
  <2>1. PICK t \in [at : {"closed", "ended"}, client : BOOLEAN, mode : Modes \cup {"r"}] :
          stream' = [stream EXCEPT ![s] = t]
    BY <1>5, EndedFacts DEF OnRelease
  <2>2. got'[s] = <<>>
    BY <1>5 DEF OnRelease, Forgotten, Transfers
  <2>3. FreeFile(s) /\ got' = Forgotten(s) /\ content' = content
    BY <1>5 DEF OnRelease
  <2>4. Forgetful'
    BY <2>1, <2>2, <2>3, StreamChange
  <2>5. QED
    BY <2>3, <2>4, FreeSteps
<1>6. QED
  BY <1>1, <1>2, <1>3, <1>4, <1>5 DEF Proxy

(* Only how far a stream has got changes. *)
LEMMA StreamSteps ==
  ASSUME IInv, Transfers, NEW s \in Streams, NEW t, stream' = [stream EXCEPT ![s] = t],
         UNCHANGED <<handles, content, got>>, got[s] = <<>> \/ Reading(t)
  PROVE  Steps
<1>1. Forgetful'
  BY StreamChange
<1>2. UNCHANGED <<fds, position>>
  BY DEF handles
<1>3. QED
  BY <1>1, <1>2, StutterSteps

(* The report that a written file is closed. *)
LEMMA ReportSteps ==
  ASSUME IInv, Transfers, NEW s \in Streams, Report(s)
  PROVE  Steps
<1>1. got[s] = <<>>
  BY ForgetfulFacts DEF Report, Reading
<1>2. QED
  BY <1>1, StreamSteps DEF Report

(* A copy that is given up closes its file. *)
LEMMA GiveUpSteps ==
  ASSUME IInv, Transfers, NEW s \in Streams, GiveUp(s), UNCHANGED content
  PROVE  Steps
<1>1. got'[s] = <<>>
  BY DEF GiveUp, Forgotten, Transfers
<1>2. Forgetful'
  BY <1>1, StreamChange DEF GiveUp
<1>3. QED
  BY <1>2, FreeSteps DEF GiveUp

(* The coroutines that fill and empty pipes. *)
LEMMA PipeSteps ==
  ASSUME IInv, Transfers, NEW s \in Streams, Pipe(s)
  PROVE  Steps
<1>a. content \in Data(MaxSize) /\ stream \in [Streams -> StreamStates]
  BY DEF Transfers, IInv, Shape
<1>1. ASSUME NEW mode \in Modes, OpenPipe(s, mode) PROVE Steps
  <2>1. got[s] = <<>>
    BY <1>1, ForgetfulFacts DEF OpenPipe, Reading
  <2>2. QED
    BY <1>1, <2>1, StreamSteps DEF OpenPipe
<1>2. CASE ClosePipe(s)
  <2> DEFINE t == [stream[s] EXCEPT !.client = FALSE]
  <2>1. t.at = stream[s].at /\ t.mode = stream[s].mode
    BY <1>a DEF StreamStates
  <2>2. stream' = [stream EXCEPT ![s] = t] /\ UNCHANGED <<handles, content, got>>
    BY <1>2 DEF ClosePipe
  <2> HIDE DEF t
  <2>3. got[s] = <<>> \/ Reading(t)
    BY <2>1, ForgetfulFacts DEF Reading
  <2>4. QED
    BY <2>2, <2>3, StreamSteps
<1>3. CASE StartCopy(s)
  <2>1. got[s] = <<>>
    BY <1>3, ForgetfulFacts DEF StartCopy, Reading
  <2>2. UNCHANGED got /\ \A r \in Streams \ {s} : stream'[r] = stream[r]
    BY <1>3, <1>a DEF StartCopy
  <2>3. QED
    BY <1>3, <2>1, <2>2, OpenSteps DEF StartCopy
<1>4. CASE FailToStart(s)
  BY <1>4, <1>a, GiveUpSteps, VanishSteps DEF FailToStart
<1>5. CASE CopyOut(s)
  <2>1. Reading(stream[s]) /\ UNCHANGED stream /\ MaxRequest \in 1 .. MaxRequest
    BY <1>5, Constants DEF CopyOut, Reading
  <2>2. QED
    BY <1>5, <2>1, ReadSteps DEF CopyOut
<1>6. CASE FailToCopyOut(s)
  BY <1>6, GiveUpSteps DEF FailToCopyOut
<1>7. ASSUME NEW b \in Requests, CopyIn(s, b) PROVE Steps
  BY <1>7, WriteSteps DEF CopyIn
<1>8. ASSUME NEW b \in Requests, FailToCopyIn(s, b) PROVE Steps
  <2> DEFINE p == position[s]
  <2>1. PICK k \in Partial(Len(b)) :
          (k # 0 => Usable(s)) /\ content' = WriteRanges(p, b)[k].file
    BY <1>8 DEF FailToCopyIn
  <2>2. p \in 0 .. MaxSize /\ p + Len(b) <= MaxSize
    BY <1>8 DEF FailToCopyIn, Transfers
  <2>3. k \in 0 .. All(Len(b)) /\ Len(b) \in Nat
    BY PartialFacts
  <2> DEFINE m == Reached(Len(b), k)
  <2>4. /\ m \in 0 .. Len(b) /\ (k = 0 => m = 0)
        /\ WriteRanges(p, b)[k].file = Written(content, p, b, m)
    BY <2>3, WritesUpTo
  <2> HIDE DEF m
  <2>5. content' = Written(content, p, b, m)
    BY <2>1, <2>4
  <2>6. CASE m = 0
    <3>1. content' = content
      BY <2>5, <2>6 DEF Written
    <3>2. QED
      BY <1>8, <1>a, <3>1, VanishSteps DEF FailToCopyIn
  <2>7. CASE m # 0
    <3>1. Usable(s) /\ m \in 1 .. Len(b)
      BY <2>1, <2>3, <2>4, <2>7
    <3>2. /\ SubSeq(b, 1, m) \in Remote!Contents
          /\ content' = Remote!WriteAt(content, p, SubSeq(b, 1, m))
          /\ content' \in Data(MaxSize)
      BY <2>2, <2>5, <3>1, WrittenFacts
    <3>3. QED
      BY <1>8, <3>1, <3>2, VanishSteps DEF FailToCopyIn
  <2>8. QED
    BY <2>6, <2>7
<1>9. CASE EndCopy(s)
  <2>1. CASE Usable(s)
    <3>1. PICK t \in [at : {"closed", "ended"}, client : BOOLEAN, mode : Modes \cup {"r"}] :
            stream' = [stream EXCEPT ![s] = t]
      BY <1>9, <2>1, EndedFacts DEF EndCopy
    <3>2. got[s] = <<>>
      BY <1>9, ForgetfulFacts DEF EndCopy, Reading
    <3>3. FreeFile(s) /\ got' = got /\ content' = content
      BY <1>9, <2>1 DEF EndCopy
    <3>4. Forgetful'
      BY <3>1, <3>2, <3>3, StreamChange
    <3>5. QED
      BY <3>3, <3>4, FreeSteps
  <2>2. CASE ~ Usable(s)
    BY <1>9, <1>a, <2>2, VanishSteps DEF EndCopy
  <2>3. QED
    BY <2>1, <2>2
<1>10. QED
  BY <1>1, <1>2, <1>3, <1>4, <1>5, <1>6, <1>7, <1>8, <1>9 DEF Pipe

(* A listing touches no stream. *)
LEMMA ListerSteps ==
  ASSUME IInv, Transfers, NEW l \in Listers, Lister(l)
  PROVE  Steps
<1>1. UNCHANGED <<position, content, stream, got>>
  BY DEF Lister, Rethrow, StartListing, OpenDir, FailToList, ReadDir, EndListing, CloseDir,
         FreeDir, handles
<1>2. \A s \in Streams : fds'[s] = fds[s]
  <2>1. \A s \in Streams : s # l
    BY FilesAssumption
  <2>2. fds' = fds \/ \E d : fds' = [fds EXCEPT ![l] = d]
    BY DEF Lister, Rethrow, StartListing, OpenDir, FailToList, ReadDir, EndListing, CloseDir,
           FreeDir, Free, handles
  <2>3. QED
    BY <2>1, <2>2 DEF IInv, Shape, Owners
<1>3. QED
  BY <1>1, <1>2, StutterSteps DEF Transfers, Forgetful

(* Every step, or none, is one of RemoteFile or leaves its variables alone. *)
LEMMA AllSteps ==
  ASSUME IInv, Transfers, [Next]_vars
  PROVE  Steps
<1>1. CASE InitializeSambaConf \/ OnAvailable
  BY <1>1, ResetSteps DEF InitializeSambaConf, OnAvailable
<1>2. CASE ProcessEnds
  BY <1>2, VanishSteps DEF ProcessEnds, Transfers
<1>3. ASSUME NEW s \in Streams, Proxy(s) \/ Pipe(s) \/ Report(s) PROVE Steps
  BY <1>3, ProxySteps, PipeSteps, ReportSteps
<1>4. ASSUME NEW l \in Listers, Lister(l) PROVE Steps
  BY <1>4, ListerSteps
<1>5. CASE UNCHANGED vars
  BY <1>5, StutterSteps DEF vars, handles, Transfers, Forgetful
<1>6. QED
  BY <1>1, <1>2, <1>3, <1>4, <1>5 DEF Next

(* In the beginning nothing is open and nothing has been read. *)
LEMMA InitTransfers == Init => Transfers /\ Remote!Init
<1> SUFFICES ASSUME Init PROVE Transfers /\ Remote!Init
  OBVIOUS
<1>1. Transfers
  BY EmptyData, Constants DEF Init, NothingOpen, Transfers, Forgetful
<1>2. \A s \in Streams : ~ Usable(s)
  BY DEF Init, NothingOpen, Usable, Owners
<1>3. content \in Remote!Contents
  BY DEF Init, Remote!Contents, Data
<1>4. QED
  BY <1>1, <1>2, <1>3 DEF Init, Remote!Init

(* Every variable keeps its type, the bytes of the file and of what clients   *)
(* are given too, whose number stays within what the bounds allow: whichever  *)
(* ranges a transfer goes through, none stores or counts beyond them.         *)
THEOREM TypeCorrect == Spec => []TypeOK
<1>1. IInv /\ Transfers => TypeOK
  BY DEF IInv, Shape, Transfers, TypeOK, Descriptors, StreamStates, ListerStates
<1>2. IInv /\ Transfers /\ [Next]_vars => Transfers'
  BY AllSteps DEF Steps
<1>3. Init => Transfers
  BY InitTransfers
<1>4. QED
  BY <1>1, <1>2, <1>3, InitHolds, IInvNext, PTL DEF Spec, Safe

(* What the clients of proxies and pipes read and write, range by range and   *)
(* through whichever context, is what they would through a file of their own: *)
(* every step is one of RemoteFile or leaves what it tells of as it was.      *)
THEOREM FileImplemented == Spec => ImplementsRemoteFile
<1>1. Init => Transfers /\ Remote!Init
  BY InitTransfers
<1>2. IInv /\ Transfers /\ [Next]_vars => Transfers' /\ [Remote!Next]_(Remote!vars)
  BY AllSteps DEF Steps
<1>3. QED
  BY <1>1, <1>2, InitHolds, IInvNext, PTL DEF Spec, Safe, ImplementsRemoteFile, Remote!Spec

(* What libsmbclient has open is used by its owner, but for the files whose   *)
(* proxies were refused, which are of the present context: for any number of  *)
(* streams, listings and resets.                                              *)
THEOREM NoFdLeakHolds == Spec => []NoFdLeak
<1>1. IInv => NoFdLeak
  BY DEF IInv
<1>2. QED
  BY <1>1, InitHolds, IInvNext, PTL DEF Spec, Safe

(* A query that does not fail is given the children of the whole directory,   *)
(* unless one has failed for this listing before or readDir hid an error: for *)
(* any entries, and any resets while it is read.                              *)
THEOREM ListingIsWholeHolds == Spec => []ListingIsWhole
<1>1. IInv => ListingIsWhole
  BY DEF IInv
<1>2. QED
  BY <1>1, InitHolds, IInvNext, PTL DEF Spec, Safe
=============================================================================
