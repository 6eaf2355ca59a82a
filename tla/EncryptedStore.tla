--------------------------- MODULE EncryptedStore ---------------------------
(***************************************************************************)
(* What ShareManager keeps from one process to the next: a string for each *)
(* share, encrypted by EncryptionManager with a key of the platform's key  *)
(* store and an initialisation vector.  The strings and the vector are in  *)
(* two preference files, both written later, by apply(), in the order of   *)
(* the calls; the key is stored at once.  The process may die between any  *)
(* two steps, and a start that cannot decrypt what it finds dies of it.    *)
(***************************************************************************)
EXTENDS Naturals, Sequences

CONSTANTS
  None,          \* no value
  Shares,        \* the uris of shares
  Contents,      \* what else there is to a ShareTuple
  Vectors,       \* the initialisation vectors
  PendingWrites  \* bound: how many writes of apply() wait

ASSUME EncryptedStoreAssumption ==
  /\ None \notin Vectors
  /\ None \notin [vector : Vectors, content : Contents]
  /\ PendingWrites \in Nat

VARIABLES
  key,        \* whether the key store has the key
  vectorFile, \* the vector in the encryption preferences, or None
  shareFile,  \* the string of each share in the server preferences, or None
  at,         \* where the process is in ShareManager's constructor
  vector,     \* EncryptionKey.iv, or None
  strings,    \* serverStringMap
  writes,     \* what apply() has been called for and is not yet in its file
  lost        \* history: whether a write of the vector has failed

storeVars == <<key, vectorFile, shareFile, at, vector, strings, writes, lost>>
files == <<key, vectorFile, shareFile>>

(* A string decrypts with the vector it was encrypted with, and no other. *)
EncryptedStrings == [vector : Vectors, content : Contents]
StringMaps == [Shares -> EncryptedStrings \cup {None}]
NoShares == [s \in Shares |-> None]

VectorWrites == [file : {"vector"}, vector : Vectors]
ShareWrites == [file : {"shares"}, strings : StringMaps]

StoreTypeOK ==
  /\ key \in BOOLEAN
  /\ vectorFile \in Vectors \cup {None}
  /\ shareFile \in StringMaps
  /\ at \in {"dead", "key", "newVector", "shares", "running"}
  /\ vector \in Vectors \cup {None}
  /\ strings \in StringMaps
  /\ writes \in Seq(VectorWrites \cup ShareWrites)
  /\ lost \in BOOLEAN
  /\ vector # None <=> at \in {"shares", "running"}

StoreInit ==
  /\ key = FALSE
  /\ vectorFile = None
  /\ shareFile = NoShares
  /\ at = "dead"
  /\ vector = None
  /\ strings = NoShares
  /\ writes = <<>>
  /\ lost = FALSE

-----------------------------------------------------------------------------
(* The constructors of EncryptionManager and ShareManager *)

Start ==
  /\ at = "dead"
  /\ at' = "key"
  /\ UNCHANGED <<files, vector, strings, writes, lost>>

(* saveIv() *)
SaveVector(v) ==
  writes' = Append(writes, [file |-> "vector", vector |-> v])

(* Mutant: loadIv() takes the vector to be in its file. *)
LoadKeyTrusts ==
  /\ at = "key"
  /\ key
  /\ vector' = vectorFile
  /\ at' = "shares"
  /\ UNCHANGED <<files, strings, writes, lost>>

(* Mutant: loadIv() does not save the vector it makes. *)
LoadKeyForgets ==
  /\ at = "key"
  /\ key
  /\ vector' \in IF vectorFile = None THEN Vectors ELSE {vectorFile}
  /\ at' = "shares"
  /\ UNCHANGED <<files, strings, writes, lost>>

(* loadKey(): the key is there and loadIv() finds or makes the vector ... *)
LoadKey ==
  /\ at = "key"
  /\ key
  /\ IF vectorFile = None
     THEN \E v \in Vectors : vector' = v /\ SaveVector(v)
     ELSE vector' = vectorFile /\ UNCHANGED writes
  /\ at' = "shares"
  /\ UNCHANGED <<files, strings, lost>>

(* ... or the key is generated, which stores it, ... *)
GenerateKey ==
  /\ at = "key"
  /\ ~ key
  /\ key' = TRUE
  /\ at' = "newVector"
  /\ UNCHANGED <<vectorFile, shareFile, vector, strings, writes, lost>>

(* ... and then a vector for it. *)
GenerateVector ==
  /\ at = "newVector"
  /\ \E v \in Vectors : vector' = v /\ SaveVector(v)
  /\ at' = "shares"
  /\ UNCHANGED <<files, strings, lost>>

Decrypts(file, v) == \A s \in Shares : file[s] # None => file[s].vector = v

LoadShares ==
  /\ at = "shares"
  /\ Decrypts(shareFile, vector)
  /\ strings' = shareFile
  /\ at' = "running"
  /\ UNCHANGED <<files, vector, writes, lost>>

(* decryptTuple() throws, and with it the application's onCreate(). *)
CannotLoadShares == at = "shares" /\ ~ Decrypts(shareFile, vector)

-----------------------------------------------------------------------------
(* The shares change *)

Change(new) ==
  /\ at = "running"
  /\ Len(writes) < PendingWrites
  /\ strings' = new
  /\ writes' = Append(writes, [file |-> "shares", strings |-> new])
  /\ UNCHANGED <<files, at, vector, lost>>

(* updateServersData() *)
AddServer ==
  \E s \in Shares, c \in Contents :
    Change([strings EXCEPT ![s] = [vector |-> vector, content |-> c]])

(* Mutant: unmountServer() does not save what is left. *)
UnmountUnsaved ==
  /\ at = "running"
  /\ \E s \in Shares : strings' = [strings EXCEPT ![s] = None]
  /\ UNCHANGED <<files, at, vector, writes, lost>>

UnmountServer ==
  \E s \in Shares :
    /\ strings[s] # None
    /\ Change([strings EXCEPT ![s] = None])

-----------------------------------------------------------------------------
(* The thread that writes the preferences *)

(* Mutant: the files are written in any order. *)
WriteAny ==
  \E n \in 1..Len(writes) :
    /\ IF writes[n].file = "vector"
       THEN vectorFile' = writes[n].vector /\ UNCHANGED shareFile
       ELSE shareFile' = writes[n].strings /\ UNCHANGED vectorFile
    /\ writes' = [i \in 1..(Len(writes) - 1) |-> writes[IF i < n THEN i ELSE i + 1]]
    /\ UNCHANGED <<key, at, vector, strings, lost>>

Write ==
  /\ writes # <<>>
  /\ IF Head(writes).file = "vector"
     THEN vectorFile' = Head(writes).vector /\ UNCHANGED shareFile
     ELSE shareFile' = Head(writes).strings /\ UNCHANGED vectorFile
  /\ writes' = Tail(writes)
  /\ UNCHANGED <<key, at, vector, strings, lost>>

(* A write fails, which nobody is told; or it is left to a later one. *)
LoseWrite ==
  /\ writes # <<>>
  /\ lost' = (lost \/ Head(writes).file = "vector")
  /\ writes' = Tail(writes)
  /\ UNCHANGED <<files, at, vector, strings>>

(* The end of the process. *)
StoreDies ==
  /\ at # "dead"
  /\ at' = "dead"
  /\ vector' = None
  /\ strings' = NoShares
  /\ writes' = <<>>
  /\ UNCHANGED <<files, lost>>

StoreStarts == Start \/ LoadKey \/ GenerateKey \/ GenerateVector \/ LoadShares
StoreChanges == AddServer \/ UnmountServer
StoreWrites == Write \/ LoseWrite

-----------------------------------------------------------------------------
(***************************************************************************)
(* Whatever the order in which the process dies and the files are written, *)
(* the strings that are saved were encrypted with the vector that is, so   *)
(* that the next start reads them; only a failed write of the vector (of   *)
(* which apply() tells nobody) breaks this.                                *)
(***************************************************************************)
Readable == ~ lost => Decrypts(shareFile, vectorFile)

(* What of a map of strings can be read with v. *)
Read(map, v) ==
  [s \in Shares |-> IF map[s] = None \/ map[s].vector # v THEN None
                    ELSE map[s].content]

(* What the queue of writes holds of the shares, as v reads it: the vector, *)
(* if it is there, is first.                                               *)
PendingShares ==
  IF writes # <<>> /\ Head(writes).file = "vector" THEN Tail(writes) ELSE writes
ReadAll(queue, v) == [n \in 1..Len(queue) |-> Read(queue[n].strings, v)]

Running == at = "running"

Saved == INSTANCE SavedShares WITH
  up <- Running,
  shares <- Read(strings, vector),
  saved <- Read(shareFile, vectorFile),
  pending <- ReadAll(PendingShares, vector)
=============================================================================
