---------------------------- MODULE StartupProofs ----------------------------
(***************************************************************************)
(* What Startup shows on an instance, proved for any shares, contents,     *)
(* vectors, lines and length of the queue of writes.                       *)
(***************************************************************************)
EXTENDS Startup, SequenceTheorems, TLAPS

-----------------------------------------------------------------------------
(* The shares and the files they are in *)

AllWrites == VectorWrites \cup ShareWrites

(* Where the vector in memory can come from, and what it encrypted.  A      *)
(* vector's write is always the first of the queue, and only there when the *)
(* file has none: it is this that keeps the strings behind their vector.    *)
StoreInv ==
  /\ StoreTypeOK
  /\ at \in {"dead", "key", "newVector"} => writes = <<>> /\ strings = NoShares
  /\ at = "shares" =>
       strings = NoShares /\ \A n \in DOMAIN writes : writes[n].file = "vector"
  /\ at \in {"newVector", "shares", "running"} => key
  /\ at = "newVector" => vectorFile = None
  /\ ~ key => vectorFile = None
  /\ \A n \in DOMAIN writes :
       IF writes[n].file = "vector"
       THEN n = 1 /\ vectorFile = None /\ writes[n].vector = vector
       ELSE Decrypts(writes[n].strings, vector)
  /\ Decrypts(strings, vector)
  /\ ~ lost => Decrypts(shareFile, vectorFile)
  /\ ~ lost /\ vector # None =>
       vectorFile = vector \/ (writes # <<>> /\ Head(writes).file = "vector")

LEMMA WriteTypes ==
  /\ \A w \in VectorWrites : w.file = "vector" /\ w.vector \in Vectors
  /\ \A w \in ShareWrites : w.file = "shares" /\ w.strings \in StringMaps
  /\ \A v \in Vectors : [file |-> "vector", vector |-> v] \in VectorWrites
  /\ \A m \in StringMaps : [file |-> "shares", strings |-> m] \in ShareWrites
BY DEF VectorWrites, ShareWrites

LEMMA StoreInitInv == StoreInit => StoreInv
<1> SUFFICES ASSUME StoreInit PROVE StoreInv
  OBVIOUS
<1>1. NoShares \in StringMaps
  BY DEF NoShares, StringMaps
<1>2. StoreTypeOK
  <2>1. writes \in Seq(VectorWrites \cup ShareWrites)
    BY DEF StoreInit
  <2>2. key \in BOOLEAN /\ lost \in BOOLEAN
    BY DEF StoreInit
  <2> QED
    BY <1>1, <2>1, <2>2 DEF StoreInit, StoreTypeOK
<1>3. \A v : Decrypts(NoShares, v)
  BY DEF NoShares, Decrypts
<1> QED
  BY <1>2, <1>3 DEF StoreInit, StoreInv

LEMMA StartInv == StoreInv /\ Start => StoreInv'
BY DEF StoreInv, StoreTypeOK, Start, files, Decrypts

LEMMA GenerateKeyInv == StoreInv /\ GenerateKey => StoreInv'
BY DEF StoreInv, StoreTypeOK, GenerateKey, Decrypts

LEMMA LoadSharesInv == StoreInv /\ LoadShares => StoreInv'
BY DEF StoreInv, StoreTypeOK, LoadShares, files, Decrypts

LEMMA StoreDiesInv == StoreInv /\ StoreDies => StoreInv'
BY EncryptedStoreAssumption
   DEF StoreInv, StoreTypeOK, StoreDies, files, Decrypts, NoShares, StringMaps

(* The first write of a process, of its vector. *)
LEMMA SaveVectorInv ==
  ASSUME StoreInv, NEW v \in Vectors, writes = <<>>, strings = NoShares,
         key, vectorFile = None, vector' = v, SaveVector(v), at' = "shares",
         UNCHANGED <<files, strings, lost>>
  PROVE  StoreInv'
<1> DEFINE w == [file |-> "vector", vector |-> v]
<1>1. w \in AllWrites /\ w.file = "vector" /\ w.vector = v
  BY DEF AllWrites, VectorWrites
<1> HIDE DEF w
<1>2. writes' = <<w>>
  BY DEF SaveVector, w
<1>3. writes' \in Seq(AllWrites) /\ Len(writes') = 1 /\ writes'[1] = w
  BY <1>1, <1>2
<1>4. StoreTypeOK'
  BY <1>3, EncryptedStoreAssumption DEF StoreInv, StoreTypeOK, files, AllWrites
<1>5. v # None
  BY EncryptedStoreAssumption
<1> QED
  BY <1>1, <1>2, <1>3, <1>4, <1>5 DEF StoreInv, files, Decrypts, NoShares

LEMMA LoadKeyInv == StoreInv /\ LoadKey => StoreInv'
<1> SUFFICES ASSUME StoreInv, LoadKey PROVE StoreInv'
  OBVIOUS
<1>1. writes = <<>> /\ strings = NoShares /\ key
  BY DEF StoreInv, LoadKey
<1>2. CASE vectorFile = None
  BY <1>1, <1>2, SaveVectorInv DEF LoadKey
<1>3. CASE vectorFile # None
  BY <1>1, <1>3 DEF StoreInv, StoreTypeOK, LoadKey, files, Decrypts, NoShares
<1> QED
  BY <1>2, <1>3

LEMMA GenerateVectorInv == StoreInv /\ GenerateVector => StoreInv'
BY SaveVectorInv DEF StoreInv, GenerateVector

(* What is stored anew is encrypted with the vector of the process. *)
LEMMA ChangeInv ==
  ASSUME StoreInv, NEW new \in StringMaps, Decrypts(new, vector), Change(new)
  PROVE  StoreInv'
<1> DEFINE w == [file |-> "shares", strings |-> new]
<1>1. w \in AllWrites /\ w.file = "shares" /\ w.strings = new
  BY DEF AllWrites, ShareWrites
<1> HIDE DEF w
<1>2. writes \in Seq(AllWrites) /\ writes' = Append(writes, w)
  BY DEF StoreInv, StoreTypeOK, Change, AllWrites, w
<1>3. /\ writes' \in Seq(AllWrites) /\ writes' # <<>>
      /\ DOMAIN writes' = DOMAIN writes \cup {Len(writes) + 1}
      /\ \A n \in DOMAIN writes : writes'[n] = writes[n]
      /\ writes'[Len(writes) + 1] = w
      /\ writes # <<>> => Head(writes') = Head(writes)
  BY <1>1, <1>2
<1>4. StoreTypeOK'
  BY <1>3 DEF StoreInv, StoreTypeOK, Change, files, AllWrites
<1> QED
  BY <1>1, <1>3, <1>4 DEF StoreInv, Change, files, Decrypts

LEMMA StoreChangesInv == StoreInv /\ StoreChanges => StoreInv'
<1> SUFFICES ASSUME StoreInv, StoreChanges PROVE StoreInv'
  OBVIOUS
<1>1. vector \in Vectors /\ strings \in StringMaps /\ Decrypts(strings, vector)
  BY DEF StoreInv, StoreTypeOK, StoreChanges, AddServer, UnmountServer, Change
<1>2. CASE AddServer
  <2> PICK s \in Shares, c \in Contents :
        Change([strings EXCEPT ![s] = [vector |-> vector, content |-> c]])
    BY <1>2 DEF AddServer
  <2> DEFINE new == [strings EXCEPT ![s] = [vector |-> vector, content |-> c]]
  <2>1. new \in StringMaps /\ Decrypts(new, vector)
    BY <1>1 DEF StringMaps, EncryptedStrings, Decrypts
  <2> QED
    BY <2>1, ChangeInv
<1>3. CASE UnmountServer
  <2> PICK s \in Shares : Change([strings EXCEPT ![s] = None])
    BY <1>3 DEF UnmountServer
  <2> DEFINE new == [strings EXCEPT ![s] = None]
  <2>1. new \in StringMaps /\ Decrypts(new, vector)
    BY <1>1 DEF StringMaps, Decrypts
  <2> QED
    BY <2>1, ChangeInv
<1> QED
  BY <1>2, <1>3 DEF StoreChanges

(* Taking the first write off the queue. *)
LEMMA QueueTail ==
  ASSUME NEW S, NEW q \in Seq(S), q # <<>>
  PROVE  /\ Tail(q) \in Seq(S)
         /\ Head(q) = q[1] /\ Head(q) \in S /\ 1 \in DOMAIN q
         /\ \A n \in DOMAIN Tail(q) :
              n + 1 \in DOMAIN q /\ n + 1 # 1 /\ Tail(q)[n] = q[n + 1]
OBVIOUS

LEMMA StoreWritesInv == StoreInv /\ StoreWrites => StoreInv'
<1> SUFFICES ASSUME StoreInv, StoreWrites PROVE StoreInv'
  OBVIOUS
<1>1. writes \in Seq(AllWrites) /\ writes # <<>> /\ writes' = Tail(writes)
  BY DEF StoreInv, StoreTypeOK, StoreWrites, Write, LoseWrite, AllWrites
<1>2. /\ writes' \in Seq(AllWrites)
      /\ Head(writes) = writes[1] /\ Head(writes) \in AllWrites /\ 1 \in DOMAIN writes
      /\ \A n \in DOMAIN writes' :
           n + 1 \in DOMAIN writes /\ n + 1 # 1 /\ writes'[n] = writes[n + 1]
  BY <1>1, QueueTail
<1>3. \A n \in DOMAIN writes' :
        writes'[n].file # "vector" /\ Decrypts(writes'[n].strings, vector)
  BY <1>2 DEF StoreInv
<1>4. /\ key' = key /\ at' = at /\ vector' = vector /\ strings' = strings
      /\ at \in {"shares", "running"} /\ key
      /\ at = "shares" => strings = NoShares
  BY <1>1 DEF StoreInv, StoreTypeOK, StoreWrites, Write, LoseWrite, files
<1>5. CASE Write /\ Head(writes).file = "vector"
  <2>1. /\ vectorFile' = vector /\ vectorFile = None
        /\ shareFile' = shareFile /\ lost' = lost
    BY <1>2, <1>5 DEF Write, StoreInv
  <2>2. StoreTypeOK'
    BY <1>2, <1>4, <2>1, EncryptedStoreAssumption DEF StoreInv, StoreTypeOK, AllWrites
  <2>3. ~ lost => Decrypts(shareFile, vector)
    BY <2>1, EncryptedStoreAssumption
       DEF StoreInv, StoreTypeOK, Decrypts, StringMaps, EncryptedStrings
  <2> QED
    BY <1>1, <1>2, <1>3, <1>4, <2>1, <2>2, <2>3 DEF StoreInv, Decrypts
<1>6. CASE Write /\ Head(writes).file # "vector"
  <2>1. /\ vectorFile' = vectorFile /\ shareFile' = Head(writes).strings
        /\ lost' = lost /\ Head(writes) \in ShareWrites
    BY <1>2, <1>6, WriteTypes DEF Write, AllWrites
  <2>2. StoreTypeOK'
    BY <1>2, <1>4, <2>1, WriteTypes DEF StoreInv, StoreTypeOK, AllWrites
  <2>3. Decrypts(shareFile', vector) /\ (~ lost => vectorFile = vector)
    BY <1>2, <1>4, <1>6, <2>1 DEF StoreInv, StoreTypeOK
  <2> QED
    BY <1>1, <1>2, <1>3, <1>4, <2>1, <2>2, <2>3 DEF StoreInv, Decrypts
<1>7. CASE LoseWrite
  <2>1. /\ vectorFile' = vectorFile /\ shareFile' = shareFile
        /\ lost' = (lost \/ Head(writes).file = "vector")
    BY <1>7 DEF LoseWrite, files
  <2>2. StoreTypeOK'
    BY <1>2, <1>4, <2>1 DEF StoreInv, StoreTypeOK, AllWrites
  <2> QED
    BY <1>1, <1>2, <1>3, <1>4, <2>1, <2>2 DEF StoreInv, Decrypts
<1> QED
  BY <1>5, <1>6, <1>7 DEF StoreWrites

LEMMA StoreStutterInv == StoreInv /\ UNCHANGED storeVars => StoreInv'
BY DEF StoreInv, StoreTypeOK, storeVars, Decrypts

LEMMA StoreStartsInv == StoreInv /\ StoreStarts => StoreInv'
BY StartInv, LoadKeyInv, GenerateKeyInv, GenerateVectorInv, LoadSharesInv
   DEF StoreStarts

-----------------------------------------------------------------------------
(* The configuration *)

(* What is known of the lines, from where they are read to where they are  *)
(* written, unless they are of two files.                                  *)
LinesInv ==
  /\ conf = "parse" /\ ~ reader.mixed =>
       /\ reader.text \in Externals
       /\ reader.at \in 0..Len(reader.text)
       /\ left = Parsed(reader.text, reader.at)
  /\ conf = "write" /\ ~ reader.mixed => left \in Wholes
  /\ conf = "print" /\ ~ torn => file.lines \cup left \in Wholes
  /\ conf \notin {"parse", "write"} => reader = NotReading

ConfInv ==
  /\ ConfTypeOK
  /\ LinesInv
  /\ conf = "print" => file.there
  /\ conf = "reset" => file.there
  /\ ~ ext.there \/ ext.lines \in Externals
  /\ FileIsWhole
  /\ ContextIsCurrent

LEMMA ConfInitInv == ConfInit => ConfInv
<1> SUFFICES ASSUME ConfInit PROVE ConfInv
  OBVIOUS
<1>1. /\ file \in [there : BOOLEAN, lines : SUBSET Settings]
      /\ ext \in [there : BOOLEAN, lines : Externals \cup {<<>>}, newer : BOOLEAN]
      /\ left \in SUBSET Settings
      /\ reader \in [text : Externals \cup {<<>>}, at : Nat, mixed : BOOLEAN]
  BY DEF ConfInit, NotReading
<1>2. torn \in BOOLEAN /\ home \in BOOLEAN
  BY DEF ConfInit
<1>3. file.there = FALSE /\ ext.there = FALSE
  BY DEF ConfInit
<1> QED
  BY <1>1, <1>2, <1>3 DEF ConfInit, ConfInv, ConfTypeOK, LinesInv, FileIsWhole, ContextIsCurrent

(* What read() does with a line is what makes one more line parsed. *)
LEMMA NoneParsed == \A text : Parsed(text, 0) = {}
BY DEF Parsed

LEMMA OneMoreParsed ==
  ASSUME NEW text \in Seq(Lines), NEW n \in 0..Len(text), n < Len(text)
  PROVE  Put(Parsed(text, n), text[n + 1]) = Parsed(text, n + 1)
<1> DEFINE line == text[n + 1]
           Last(k, m) == /\ text[k] \in Settings
                         /\ \A j \in (k + 1)..m :
                              text[j] \in Settings => Key[text[j]] # Key[text[k]]
<1>1. \A m \in Nat : \A s : s \in Parsed(text, m) <=> \E k \in 1..m : s = text[k] /\ Last(k, m)
  BY DEF Parsed
<1>2. \A k \in 1..n : (k + 1)..(n + 1) = ((k + 1)..n) \cup {n + 1}
  OBVIOUS
<1>3. 1..(n + 1) = (1..n) \cup {n + 1} /\ (n + 1 + 1)..(n + 1) = {} /\ n \in Nat /\ n + 1 \in Nat
  OBVIOUS
<1>4. \A k \in 1..n :
        Last(k, n + 1) <=> Last(k, n) /\ (line \in Settings => Key[line] # Key[text[k]])
  BY <1>2
<1>5. Last(n + 1, n + 1) <=> line \in Settings
  BY <1>3
<1> HIDE DEF line, Last
<1>6. text[n + 1] = line
  BY DEF line
<1>7. \A s : s \in Parsed(text, n + 1) <=>
        \/ \E k \in 1..n : s = text[k] /\ Last(k, n + 1)
        \/ s = line /\ line \in Settings
  BY <1>1, <1>3, <1>5, <1>6
<1>8. \A s : s \in Parsed(text, n + 1) <=>
        \/ s \in Parsed(text, n) /\ (line \in Settings => Key[line] # Key[s])
        \/ s = line /\ line \in Settings
  BY <1>1, <1>3, <1>4, <1>7
<1>9. \A s : s \in Put(Parsed(text, n), line) <=> s \in Parsed(text, n + 1)
  BY <1>8 DEF Put
<1>10. Put(Parsed(text, n), line) = Parsed(text, n + 1)
  BY <1>9
<1> QED
  BY <1>6, <1>10

LEMMA PutSettings ==
  ASSUME NEW settings \in SUBSET Settings, NEW line
  PROVE  Put(settings, line) \in SUBSET Settings
BY DEF Put

LEMMA LinesOf == Default \subseteq Settings /\ Default \in Wholes
BY SambaConfigurationAssumption DEF Wholes

LEMMA EnvironmentInv == ConfInv /\ ConfEnvironment => ConfInv'
<1> SUFFICES ASSUME ConfInv, ConfEnvironment PROVE ConfInv'
  OBVIOUS
<1>1. CASE WriteExternal
  <2> USE DEF ConfInv, ConfTypeOK, LinesInv, FileIsWhole, ContextIsCurrent
  <2>1. UNCHANGED <<file, torn, conf, left, home, context>>
    BY <1>1 DEF WriteExternal
  <2>2. ext' \in [there : BOOLEAN, lines : Externals, newer : BOOLEAN]
    BY <1>1 DEF WriteExternal
  <2>3. CASE UNCHANGED reader
    BY <2>1, <2>2, <2>3
  <2>4. CASE ~ UNCHANGED reader
    <3>1. PICK lines \in Externals :
            conf = "parse" /\ reader' = [reader EXCEPT !.text = lines, !.mixed = TRUE]
      BY <1>1, <2>4 DEF WriteExternal
    <3>2. /\ reader' \in [text : Externals \cup {<<>>}, at : Nat, mixed : BOOLEAN]
          /\ reader'.mixed
      BY <3>1
    <3> QED
      BY <2>1, <2>2, <3>1, <3>2
  <2> QED
    BY <2>3, <2>4
<1>2. CASE RemoveExternal
  BY <1>2 DEF RemoveExternal, ConfInv, ConfTypeOK, LinesInv, FileIsWhole, ContextIsCurrent
<1>3. CASE OnAvailable
  BY <1>3 DEF OnAvailable, NewContext, ConfInv, ConfTypeOK, LinesInv, FileIsWhole,
              ContextIsCurrent
<1> QED
  BY <1>1, <1>2, <1>3 DEF ConfEnvironment

LEMMA ConfigureInv == ConfInv /\ Configure => ConfInv'
BY DEF ConfInv, ConfTypeOK, LinesInv, FileIsWhole, ContextIsCurrent, Configure

LEMMA ConfDiesInv == ConfInv /\ ConfDies => ConfInv'
<1> SUFFICES ASSUME ConfInv, ConfDies PROVE ConfInv'
  OBVIOUS
<1>1. /\ torn' = (torn \/ (conf = "print" /\ left # {}))
      /\ conf' = "off" /\ reader' = NotReading /\ left' = {} /\ home' = FALSE
      /\ context' = NoContext /\ UNCHANGED <<file, ext>>
  BY DEF ConfDies
<1>2. ConfTypeOK'
  BY <1>1 DEF ConfInv, ConfTypeOK, NotReading
<1>3. FileIsWhole'
  <2>1. CASE conf = "print" /\ ~ torn'
    <3>1. file.lines \cup left = file.lines /\ ~ torn
      BY <1>1, <2>1
    <3> QED
      BY <1>1, <2>1, <3>1 DEF ConfInv, LinesInv, FileIsWhole
  <2>2. CASE conf # "print"
    BY <1>1, <2>2 DEF ConfInv, FileIsWhole
  <2> QED
    BY <2>1, <2>2 DEF FileIsWhole
<1> QED
  BY <1>1, <1>2, <1>3 DEF ConfInv, LinesInv, ContextIsCurrent

LEMMA ConfStepInv == ConfInv /\ ConfStep => ConfInv'
<1> SUFFICES ASSUME ConfInv, ConfStep PROVE ConfInv'
  OBVIOUS
<1> USE DEF ConfInv, ConfTypeOK, LinesInv, FileIsWhole, ContextIsCurrent
<1>1. CASE SyncFromExternal
  BY <1>1 DEF SyncFromExternal
<1>2. CASE FlushDefault
  BY <1>2, LinesOf DEF FlushDefault
<1>3. CASE OpenExternal
  <2>1. /\ UNCHANGED <<file, ext, torn, home, context>>
        /\ reader' = [text |-> ext.lines, at |-> 0, mixed |-> FALSE]
        /\ left' = {} /\ conf = "read" /\ conf' = "parse" /\ ext.lines \in Externals
    BY <1>3 DEF OpenExternal
  <2>2. reader' \in [text : Externals \cup {<<>>}, at : Nat, mixed : BOOLEAN]
    BY <2>1
  <2>3. Len(ext.lines) \in Nat
    BY <2>1, SambaConfigurationAssumption
  <2>4. reader'.at \in 0..Len(reader'.text) /\ left' = Parsed(reader'.text, reader'.at)
    BY <2>1, <2>3, NoneParsed
  <2>5. reader'.text \in Externals /\ conf' \notin {"write", "print", "reset", "done"}
    BY <2>1
  <2>6. ConfTypeOK'
    BY <2>1, <2>2
  <2>7. LinesInv'
    BY <2>1, <2>4, <2>5
  <2>8. FileIsWhole' /\ ContextIsCurrent'
    BY <2>1, <2>5
  <2> QED
    BY <2>1, <2>5, <2>6, <2>7, <2>8
<1>8. CASE ReadLine
  <2> DEFINE line == reader.text[reader.at + 1]
  <2>1. /\ UNCHANGED <<file, ext, torn, conf, home, context>> /\ conf = "parse"
        /\ reader.at < Len(reader.text) /\ left' = Put(left, line)
        /\ reader' = [reader EXCEPT !.at = @ + 1]
    BY <1>8 DEF ReadLine
  <2>2. /\ reader' \in [text : Externals \cup {<<>>}, at : Nat, mixed : BOOLEAN]
        /\ reader'.text = reader.text /\ reader'.at = reader.at + 1
        /\ reader'.mixed = reader.mixed
    BY <2>1
  <2>3. left' \in SUBSET Settings
    BY <2>1, PutSettings
  <2>4. ASSUME ~ reader.mixed
        PROVE  /\ reader.at + 1 \in 0..Len(reader.text)
               /\ left' = Parsed(reader.text, reader.at + 1)
    <3>1. /\ reader.text \in Seq(Lines) /\ reader.at \in 0..Len(reader.text)
          /\ left = Parsed(reader.text, reader.at)
      BY <2>1, <2>4, SambaConfigurationAssumption
    <3>2. Put(Parsed(reader.text, reader.at), line) = Parsed(reader.text, reader.at + 1)
      BY <2>1, <3>1, OneMoreParsed
    <3>3. Len(reader.text) \in Nat
      BY <3>1
    <3> QED
      BY <2>1, <3>1, <3>2, <3>3
  <2> HIDE DEF line
  <2> QED
    BY <2>1, <2>2, <2>3, <2>4
<1>9. CASE EndOfFile
  <2>1. /\ UNCHANGED <<file, ext, torn, left, home, context>>
        /\ conf = "parse" /\ conf' = "write"
        /\ reader.at >= Len(reader.text)
        /\ reader' = [NotReading EXCEPT !.mixed = reader.mixed]
    BY <1>9 DEF EndOfFile
  <2>2. /\ reader' \in [text : Externals \cup {<<>>}, at : Nat, mixed : BOOLEAN]
        /\ reader'.mixed = reader.mixed
    BY <2>1 DEF NotReading
  <2>3. ASSUME ~ reader.mixed PROVE left \in Wholes
    <3>1. Len(reader.text) \in Nat
      BY <2>1, <2>3, SambaConfigurationAssumption
    <3>2. reader.at = Len(reader.text)
      BY <2>1, <2>3, <3>1
    <3> QED
      BY <2>1, <2>3, <3>2 DEF Wholes
  <2> QED
    BY <2>1, <2>2, <2>3
<1>4. CASE Truncate
  BY <1>4 DEF Truncate, NotReading
<1>5. CASE PrintLine
  <2>1. PICK line \in left :
          /\ left' = left \ {line}
          /\ \/ /\ file' = [file EXCEPT !.lines = @ \cup {line}]
                /\ UNCHANGED torn
             \/ torn' = TRUE /\ UNCHANGED file
    BY <1>5 DEF PrintLine
  <2>2. UNCHANGED <<ext, conf, reader, home, context>> /\ conf = "print"
    BY <1>5 DEF PrintLine
  <2>3. CASE file' = [file EXCEPT !.lines = @ \cup {line}] /\ UNCHANGED torn
    <3>1. /\ file'.there = file.there /\ file'.lines = file.lines \cup {line}
          /\ file' \in [there : BOOLEAN, lines : SUBSET Settings]
      BY <2>1, <2>3
    <3>2. file'.lines \cup left' = file.lines \cup left
      BY <2>1, <3>1
    <3> QED
      BY <2>1, <2>2, <2>3, <3>1, <3>2
  <2>4. CASE torn' = TRUE /\ UNCHANGED file
    BY <2>1, <2>2, <2>4
  <2> QED
    BY <2>1, <2>3, <2>4
<1>6. CASE Close
  <2>1. file.lines \cup left = file.lines
    BY <1>6 DEF Close
  <2> QED
    BY <1>6, <2>1 DEF Close
<1>7. CASE Finish
  BY <1>7 DEF Finish, NewContext
<1> QED
  BY <1>1, <1>2, <1>3, <1>4, <1>5, <1>6, <1>7, <1>8, <1>9 DEF ConfStep

LEMMA ConfStutterInv == ConfInv /\ UNCHANGED confVars => ConfInv'
BY DEF ConfInv, ConfTypeOK, LinesInv, FileIsWhole, ContextIsCurrent, confVars

-----------------------------------------------------------------------------
(* The two together *)

IInv == StoreInv /\ ConfInv

LEMMA DiesInv == IInv /\ Dies => IInv'
BY StoreDiesInv, ConfDiesInv DEF IInv, Dies

LEMMA InductiveStep == IInv /\ [Next]_vars => IInv'
<1> SUFFICES ASSUME IInv, [Next]_vars PROVE IInv'
  OBVIOUS
<1>1. CASE Main
  BY <1>1, StoreStartsInv, ConfStutterInv, ConfigureInv, StoreStutterInv, DiesInv
     DEF Main, Throw, IInv
<1>2. CASE Coroutine
  BY <1>2, ConfStepInv, StoreStutterInv, DiesInv DEF Coroutine, ConfThrows, IInv
<1>3. CASE Application
  BY <1>3, StoreChangesInv, ConfStutterInv DEF Application, IInv
<1>4. CASE StoreWrites /\ UNCHANGED confVars
  BY <1>4, StoreWritesInv, ConfStutterInv DEF IInv
<1>5. CASE ConfEnvironment /\ UNCHANGED storeVars
  BY <1>5, EnvironmentInv, StoreStutterInv DEF IInv
<1>6. CASE Kill
  BY <1>6, DiesInv DEF Kill
<1>7. CASE UNCHANGED vars
  BY <1>7, StoreStutterInv, ConfStutterInv DEF vars, IInv
<1> QED
  BY <1>1, <1>2, <1>3, <1>4, <1>5, <1>6, <1>7 DEF Next

(***************************************************************************)
(* The inductive invariant holds of every state that Startup reaches.      *)
(***************************************************************************)
THEOREM StartupInvariant == Spec => []IInv
<1>1. Init => IInv
  BY StoreInitInv, ConfInitInv DEF Init, IInv
<1> QED
  BY <1>1, InductiveStep, PTL DEF Spec

(***************************************************************************)
(* The store of ShareManager and EncryptionManager, and the configuration  *)
(* of SambaConfiguration, are well formed.                                 *)
(***************************************************************************)
THEOREM TypeCorrect == Spec => []TypeOK
<1>1. IInv => TypeOK
  BY DEF IInv, StoreInv, ConfInv, TypeOK
<1> QED
  BY <1>1, StartupInvariant, PTL

(***************************************************************************)
(* The saved strings were encrypted with the saved vector, whenever the    *)
(* process dies and however far its writes have come.                      *)
(***************************************************************************)
THEOREM SavedIsReadable == Spec => []Readable
<1>1. IInv => Readable
  BY DEF IInv, StoreInv, Readable
<1> QED
  BY <1>1, StartupInvariant, PTL

(***************************************************************************)
(* Whatever the network does meanwhile, the SMB context ends with the      *)
(* lines of the file: no reset comes between the write and the last one.   *)
(***************************************************************************)
THEOREM ContextIsCurrentHolds == Spec => []ContextIsCurrent
<1>1. IInv => ContextIsCurrent
  BY DEF IInv, ConfInv
<1> QED
  BY <1>1, StartupInvariant, PTL

(***************************************************************************)
(* While nobody writes it, the file that libsmbclient reads is the         *)
(* defaults or the settings of one file that the user had, every key with  *)
(* its last value: unless a process died or lost a line writing it, or the *)
(* user wrote over the file while it was read.                             *)
(***************************************************************************)
THEOREM FileIsWholeHolds == Spec => []FileIsWhole
<1>1. IInv => FileIsWhole
  BY DEF IInv, ConfInv
<1> QED
  BY <1>1, StartupInvariant, PTL

-----------------------------------------------------------------------------
(* The refinement of SavedShares *)

LEMMA ReadAllAppend ==
  ASSUME NEW q \in Seq(AllWrites), NEW w \in AllWrites, NEW v
  PROVE  ReadAll(Append(q, w), v) = Append(ReadAll(q, v), Read(w.strings, v))
<1> DEFINE a == ReadAll(Append(q, w), v)
           b == ReadAll(q, v)
<1>1. /\ Len(Append(q, w)) = Len(q) + 1
      /\ \A n \in 1..Len(q) : Append(q, w)[n] = q[n]
      /\ Append(q, w)[Len(q) + 1] = w
  OBVIOUS
<1>2. /\ a = [n \in 1..(Len(q) + 1) |-> Read(Append(q, w)[n].strings, v)]
      /\ b = [n \in 1..Len(q) |-> Read(q[n].strings, v)]
  BY <1>1 DEF ReadAll
<1>3. b \in Seq({Read(q[n].strings, v) : n \in 1..Len(q)}) /\ Len(b) = Len(q)
  BY <1>2
<1> HIDE DEF a, b
<1> DEFINE c == Append(b, Read(w.strings, v))
<1>4. c = [n \in 1..(Len(q) + 1) |-> IF n = Len(q) + 1 THEN Read(w.strings, v) ELSE b[n]]
  BY <1>3
<1>5. \A n \in 1..(Len(q) + 1) : n # Len(q) + 1 => n \in 1..Len(q)
  OBVIOUS
<1>6. \A n \in 1..(Len(q) + 1) : a[n] = c[n]
  BY <1>1, <1>2, <1>4, <1>5
<1> QED
  BY <1>2, <1>4, <1>6 DEF a, b

LEMMA ReadAllTail ==
  ASSUME NEW q \in Seq(AllWrites), q # <<>>, NEW v
  PROVE  /\ ReadAll(q, v) # <<>>
         /\ Head(ReadAll(q, v)) = Read(Head(q).strings, v)
         /\ Tail(ReadAll(q, v)) = ReadAll(Tail(q), v)
<1> DEFINE b == ReadAll(q, v)
<1>1. b = [n \in 1..Len(q) |-> Read(q[n].strings, v)]
  BY DEF ReadAll
<1>2. b \in Seq({Read(q[n].strings, v) : n \in 1..Len(q)}) /\ Len(b) = Len(q)
  BY <1>1
<1>3. Len(q) >= 1 /\ Head(q) = q[1]
  OBVIOUS
<1> HIDE DEF b
<1>4. b # <<>> /\ Head(b) = b[1] /\ b[1] = Read(q[1].strings, v)
  BY <1>1, <1>2, <1>3
<1>5. /\ Len(Tail(q)) = Len(q) - 1
      /\ \A n \in 1..(Len(q) - 1) : Tail(q)[n] = q[n + 1]
  BY <1>3
<1>6. Tail(b) = [n \in 1..(Len(q) - 1) |-> b[n + 1]]
  <2> DEFINE S == {Read(q[n].strings, v) : n \in 1..Len(q)}
             t == Tail(b)
             u == [n \in 1..(Len(q) - 1) |-> b[n + 1]]
  <2>1. /\ t \in Seq(S) /\ Len(t) = Len(q) - 1
        /\ \A n \in 1..Len(t) : t[n] = b[n + 1]
    BY <1>2, <1>4, HeadTailProperties
  <2>2. \A n \in 1..(Len(q) - 1) : b[n + 1] \in S
    BY <1>1
  <2>3. u \in Seq(S) /\ Len(u) = Len(q) - 1
    BY <1>3, <2>2
  <2> HIDE DEF t, S
  <2>4. t = u
    BY <2>1, <2>3, SeqEqual
  <2> QED
    BY <2>4 DEF t
<1>7. ReadAll(Tail(q), v) = [n \in 1..(Len(q) - 1) |-> Read(Tail(q)[n].strings, v)]
  BY <1>5 DEF ReadAll
<1>8. \A n \in 1..(Len(q) - 1) : b[n + 1] = Read(Tail(q)[n].strings, v)
  BY <1>1, <1>3, <1>5
<1>9. Tail(b) = ReadAll(Tail(q), v)
  BY <1>6, <1>7, <1>8
<1> QED
  BY <1>3, <1>4, <1>9 DEF b

LEMMA ReadTypes ==
  ASSUME NEW map \in StringMaps, NEW v
  PROVE  /\ Read(map, v) \in Saved!Maps
         /\ Read(NoShares, v) = Saved!Nothing
BY DEF Read, StringMaps, EncryptedStrings, NoShares, Saved!Maps, Saved!Nothing

(* A file whose vector is not there yet has no strings. *)
LEMMA NothingToRead ==
  ASSUME StoreInv, ~ lost, vectorFile = None, NEW v
  PROVE  Read(shareFile, vectorFile) = Read(shareFile, v)
<1>1. \A s \in Shares : shareFile[s] = None
  BY EncryptedStoreAssumption
     DEF StoreInv, StoreTypeOK, Decrypts, StringMaps, EncryptedStrings
<1> QED
  BY <1>1 DEF Read

LEMMA EmptyReadAll == \A v : ReadAll(<<>>, v) = <<>>
BY DEF ReadAll

(* Before the shares are loaded nothing but the vector waits to be written. *)
LEMMA PendingBefore == StoreInv /\ at # "running" => PendingShares = <<>>
<1> SUFFICES ASSUME StoreInv, at # "running" PROVE PendingShares = <<>>
  OBVIOUS
<1>1. CASE writes = <<>>
  BY <1>1 DEF PendingShares
<1>2. CASE writes # <<>>
  <2>1. at = "shares"
    BY <1>2 DEF StoreInv, StoreTypeOK
  <2>2. writes \in Seq(AllWrites)
    BY DEF StoreInv, StoreTypeOK, AllWrites
  <2>3. \A n \in DOMAIN writes : writes[n].file = "vector" /\ n = 1
    BY <2>1 DEF StoreInv
  <2>4. Tail(writes) = <<>> /\ Head(writes).file = "vector"
    <3>1. DOMAIN writes = 1..Len(writes) /\ Len(writes) \in Nat /\ Len(writes) # 0
      BY <1>2, <2>2
    <3>2. Len(writes) = 1
      BY <2>3, <3>1
    <3>3. Head(writes) = writes[1]
      BY <1>2, <2>2
    <3>4. Tail(writes) \in Seq(AllWrites) /\ Len(Tail(writes)) = 0
      <4>1. /\ Tail(writes) \in Seq(AllWrites)
            /\ Len(Tail(writes)) = Len(writes) - 1
        BY <1>2, <2>2, HeadTailProperties
      <4> QED
        BY <3>2, <4>1
    <3>5. Tail(writes) = <<>>
      BY <3>4, EmptySeq
    <3>6. writes[1].file = "vector"
      BY <2>3, <3>1, <3>2
    <3> QED
      BY <3>3, <3>5, <3>6
  <2> QED
    BY <1>2, <2>4 DEF PendingShares
<1> QED
  BY <1>1, <1>2

LEMMA PendingBeforePrime == (StoreInv /\ at # "running" => PendingShares = <<>>)'
BY PendingBefore, PTL

LEMMA SavedInit == Init => Saved!Init
<1> SUFFICES ASSUME Init PROVE Saved!Init
  OBVIOUS
<1>1. at = "dead" /\ strings = NoShares /\ shareFile = NoShares
  BY DEF Init, StoreInit
<1>2. StoreInv
  BY StoreInitInv DEF Init
<1>3. NoShares \in StringMaps
  BY <1>1, <1>2 DEF StoreInv, StoreTypeOK
<1>4. ReadAll(PendingShares, vector) = <<>>
  BY <1>1, <1>2, PendingBefore, EmptyReadAll
<1> QED
  BY <1>1, <1>3, <1>4, ReadTypes DEF Saved!Init, Running

(* The steps of a start, which the abstract specification does not see ... *)
LEMMA SavedStarts ==
  ASSUME StoreInv, StoreInv', ~ lost, StoreStarts, ~ LoadShares
  PROVE  UNCHANGED Saved!vars
<1>1. /\ at # "running" /\ at' # "running"
      /\ UNCHANGED <<shareFile, vectorFile, strings>>
      /\ strings = NoShares
  <2>1. CASE Start
    BY <2>1 DEF StoreInv, Start, files
  <2>2. CASE LoadKey
    BY <2>2 DEF StoreInv, LoadKey, files
  <2>3. CASE GenerateKey
    BY <2>3 DEF StoreInv, GenerateKey
  <2>4. CASE GenerateVector
    BY <2>4 DEF StoreInv, GenerateVector, files
  <2> QED
    BY <2>1, <2>2, <2>3, <2>4 DEF StoreStarts
<1>2. PendingShares = <<>> /\ PendingShares' = <<>>
  BY <1>1, PendingBefore, PendingBeforePrime
<1>3. ReadAll(PendingShares, vector) = <<>> /\ ReadAll(PendingShares, vector)' = <<>>
  BY <1>2, EmptyReadAll
<1>4. NoShares \in StringMaps
  BY <1>1 DEF StoreInv, StoreTypeOK
<1>5. Read(strings, vector) = Saved!Nothing /\ Read(strings, vector)' = Saved!Nothing
  BY <1>1, <1>4, ReadTypes
<1>6. Read(shareFile, vectorFile)' = Read(shareFile, vectorFile)
  BY <1>1
<1> QED
  BY <1>1, <1>3, <1>5, <1>6 DEF Saved!vars, Running

(* ... and the one that it does. *)
LEMMA SavedLoads ==
  ASSUME StoreInv, StoreInv', ~ lost, LoadShares
  PROVE  Saved!Start
<1>1. /\ at = "shares" /\ at' = "running"
      /\ UNCHANGED <<shareFile, vectorFile, vector, writes>>
      /\ strings' = shareFile /\ vector # None
  BY DEF LoadShares, files, StoreInv, StoreTypeOK
<1>2. Read(shareFile, vectorFile) = Read(shareFile, vector)
  <2>1. CASE vectorFile = None
    BY <2>1, NothingToRead
  <2>2. CASE vectorFile # None
    <3>1. vectorFile = vector
      BY <1>1, <2>2 DEF StoreInv, StoreTypeOK
    <3> QED
      BY <3>1
  <2> QED
    BY <2>1, <2>2
<1>3. PendingShares' = PendingShares
  BY <1>1 DEF PendingShares
<1>4. ReadAll(PendingShares, vector)' = ReadAll(PendingShares, vector)
  BY <1>1, <1>3
<1>5. /\ Read(strings, vector)' = Read(shareFile, vectorFile)
      /\ Read(shareFile, vectorFile)' = Read(shareFile, vectorFile)
  BY <1>1, <1>2
<1> QED
  BY <1>1, <1>4, <1>5 DEF Saved!Start, Running

(* A change is one of the abstract specification and waits to be saved. *)
LEMMA SavedChanges ==
  ASSUME StoreInv, StoreInv', StoreChanges
  PROVE  Saved!Change
<1>1. PICK new : Change(new)
  BY DEF StoreChanges, AddServer, UnmountServer
<1>2. /\ at = "running" /\ at' = "running"
      /\ UNCHANGED <<shareFile, vectorFile, vector>> /\ strings' = new
      /\ new \in StringMaps
  BY <1>1 DEF Change, files, StoreInv, StoreTypeOK
<1> DEFINE w == [file |-> "shares", strings |-> new]
<1>3. w \in AllWrites /\ w.file = "shares" /\ w.strings = new
  BY <1>2 DEF AllWrites, ShareWrites
<1>4. writes \in Seq(AllWrites) /\ writes' = Append(writes, w)
  BY <1>1 DEF StoreInv, StoreTypeOK, Change, AllWrites
<1> HIDE DEF w
<1>5. PendingShares \in Seq(AllWrites) /\ PendingShares' = Append(PendingShares, w)
  <2>1. CASE writes = <<>>
    <3>1. writes' = <<w>> /\ Head(writes').file # "vector"
      BY <1>3, <1>4, <2>1
    <3> QED
      BY <1>3, <1>4, <2>1, <3>1 DEF PendingShares
  <2>2. CASE writes # <<>>
    <3>1. /\ writes' # <<>> /\ Head(writes') = Head(writes)
          /\ Tail(writes') = Append(Tail(writes), w) /\ Tail(writes) \in Seq(AllWrites)
      BY <1>3, <1>4, <2>2, HeadTailAppend, AppendProperties, HeadTailProperties
    <3> QED
      BY <1>4, <2>2, <3>1 DEF PendingShares
  <2> QED
    BY <2>1, <2>2
<1>6. ReadAll(PendingShares, vector)'
        = Append(ReadAll(PendingShares, vector), Read(new, vector))
  <2>1. ReadAll(Append(PendingShares, w), vector)
          = Append(ReadAll(PendingShares, vector), Read(new, vector))
    BY <1>3, <1>5, ReadAllAppend
  <2> QED
    BY <1>2, <1>5, <2>1
<1>7. /\ Read(strings, vector)' = Read(new, vector)
      /\ Read(new, vector) \in Saved!Maps
      /\ Read(shareFile, vectorFile)' = Read(shareFile, vectorFile)
  BY <1>2, ReadTypes
<1> QED
  BY <1>2, <1>6, <1>7 DEF Saved!Change, Running

(* A write saves the oldest change, or is the vector's, which nobody sees. *)
LEMMA SavedWrites ==
  ASSUME StoreInv, StoreInv', ~ lost', StoreWrites
  PROVE  Saved!Save \/ Saved!Skip \/ UNCHANGED Saved!vars
<1>1. /\ writes \in Seq(AllWrites) /\ writes # <<>> /\ writes' = Tail(writes)
      /\ UNCHANGED <<at, vector, strings>> /\ ~ lost
  BY DEF StoreInv, StoreTypeOK, StoreWrites, Write, LoseWrite, AllWrites
<1>2. Read(strings, vector)' = Read(strings, vector)
  BY <1>1
<1>3. at # "running" => PendingShares = <<>> /\ PendingShares' = <<>>
  BY <1>1, PendingBefore, PendingBeforePrime
<1>4. /\ Head(writes) = writes[1] /\ Head(writes) \in AllWrites /\ 1 \in DOMAIN writes
      /\ \A n \in DOMAIN Tail(writes) :
           n + 1 \in DOMAIN writes /\ n + 1 # 1 /\ Tail(writes)[n] = writes[n + 1]
      /\ Tail(writes) \in Seq(AllWrites)
  BY <1>1, QueueTail
<1>5. PendingShares' = Tail(writes)
  <2>1. CASE Tail(writes) = <<>>
    BY <1>1, <2>1 DEF PendingShares
  <2>2. CASE Tail(writes) # <<>>
    <3>1. Head(Tail(writes)) = Tail(writes)[1] /\ 1 \in DOMAIN Tail(writes)
      BY <1>4, <2>2
    <3>2. Head(Tail(writes)).file # "vector"
      BY <1>4, <3>1 DEF StoreInv
    <3> QED
      BY <1>1, <3>2 DEF PendingShares
  <2> QED
    BY <2>1, <2>2
<1>6. CASE Head(writes).file = "vector"
  <2>1. PendingShares = Tail(writes)
    BY <1>1, <1>6 DEF PendingShares
  <2>2. Write
    BY <1>1, <1>6 DEF StoreWrites, LoseWrite
  <2>3. vectorFile = None /\ shareFile' = shareFile
    BY <1>4, <1>6, <2>2 DEF StoreInv, Write
  <2>4. Read(shareFile, vectorFile)' = Read(shareFile, vectorFile)
    BY <1>1, <2>3, NothingToRead
  <2>5. ReadAll(PendingShares, vector)' = ReadAll(PendingShares, vector)
    BY <1>1, <1>5, <2>1
  <2> QED
    BY <1>1, <1>2, <2>4, <2>5 DEF Saved!vars, Running
<1>7. CASE Head(writes).file # "vector"
  <2>1. PendingShares = writes
    BY <1>1, <1>7 DEF PendingShares
  <2>2. /\ ReadAll(PendingShares, vector) # <<>>
        /\ Head(ReadAll(PendingShares, vector)) = Read(Head(writes).strings, vector)
        /\ Tail(ReadAll(PendingShares, vector)) = ReadAll(PendingShares, vector)'
    <3>1. Tail(ReadAll(writes, vector)) = ReadAll(Tail(writes), vector)
      BY <1>1, ReadAllTail
    <3> QED
      BY <1>1, <1>5, <2>1, <3>1, ReadAllTail
  <2>3. CASE Write
    <3>1. shareFile' = Head(writes).strings /\ vectorFile' = vectorFile
      BY <1>7, <2>3 DEF Write
    <3>2. vectorFile = vector
      BY <1>1, <1>3, <1>7, <2>1 DEF StoreInv, StoreTypeOK
    <3>3. Read(shareFile, vectorFile)' = Read(Head(writes).strings, vector)
      BY <3>1, <3>2
    <3> QED
      BY <1>1, <1>2, <2>2, <3>3 DEF Saved!Save, Running
  <2>4. CASE LoseWrite
    <3>1. UNCHANGED <<shareFile, vectorFile>>
      BY <2>4 DEF LoseWrite, files
    <3>2. Read(shareFile, vectorFile)' = Read(shareFile, vectorFile)
      BY <3>1
    <3> QED
      BY <1>1, <1>2, <2>2, <3>2 DEF Saved!Skip, Running
  <2> QED
    BY <2>3, <2>4 DEF StoreWrites
<1> QED
  BY <1>6, <1>7

LEMMA SavedDies ==
  ASSUME StoreInv, StoreInv', StoreDies
  PROVE  Saved!Stop \/ UNCHANGED Saved!vars
<1>1. /\ at' = "dead" /\ strings' = NoShares /\ UNCHANGED <<shareFile, vectorFile>>
      /\ NoShares \in StringMaps
  BY DEF StoreDies, files, StoreInv, StoreTypeOK
<1>2. PendingShares' = <<>> /\ ReadAll(PendingShares, vector)' = <<>>
  BY <1>1, PendingBeforePrime, EmptyReadAll
<1>3. Read(strings, vector)' = Saved!Nothing
  BY <1>1, ReadTypes
<1>4. Read(shareFile, vectorFile)' = Read(shareFile, vectorFile)
  BY <1>1
<1>5. CASE at = "running"
  BY <1>1, <1>2, <1>3, <1>4, <1>5 DEF Saved!Stop, Running
<1>6. CASE at # "running"
  <2>1. strings = NoShares
    BY <1>6 DEF StoreInv, StoreTypeOK
  <2>2. Read(strings, vector) = Saved!Nothing
    BY <1>1, <2>1, ReadTypes
  <2>3. ReadAll(PendingShares, vector) = <<>>
    BY <1>6, PendingBefore, EmptyReadAll
  <2> QED
    BY <1>1, <1>2, <1>3, <1>4, <1>6, <2>2, <2>3 DEF Saved!vars, Running
<1> QED
  BY <1>5, <1>6

LEMMA SavedStutters == UNCHANGED storeVars => UNCHANGED Saved!vars
<1> SUFFICES ASSUME UNCHANGED storeVars PROVE UNCHANGED Saved!vars
  OBVIOUS
<1>1. UNCHANGED <<at, vector, strings, shareFile, vectorFile, writes>>
  BY DEF storeVars
<1>2. PendingShares' = PendingShares
  BY <1>1 DEF PendingShares
<1> QED
  BY <1>1, <1>2 DEF Saved!vars, Running

LEMMA SavedStep ==
  ASSUME IInv, IInv', [Next]_vars, ~ lost'
  PROVE  Saved!Next \/ UNCHANGED Saved!vars
<1> USE DEF Saved!Next
<1>0. StoreInv /\ StoreInv' /\ (Dies => Saved!Stop \/ UNCHANGED Saved!vars)
  BY SavedDies DEF IInv, Dies
<1>1. CASE Main
  <2>1. CASE StoreStarts
    <3>1. ~ lost
      BY <2>1 DEF StoreStarts, Start, LoadKey, GenerateKey, GenerateVector, LoadShares
    <3> QED
      BY <1>0, <2>1, <3>1, SavedStarts, SavedLoads
  <2>2. CASE UNCHANGED storeVars
    BY <2>2, SavedStutters
  <2> QED
    BY <1>0, <1>1, <2>1, <2>2 DEF Main, Throw
<1>2. CASE Coroutine
  BY <1>0, <1>2, SavedStutters DEF Coroutine, ConfThrows
<1>3. CASE Application
  BY <1>0, <1>3, SavedChanges DEF Application
<1>4. CASE StoreWrites
  BY <1>0, <1>4, SavedWrites
<1>5. CASE UNCHANGED storeVars
  BY <1>5, SavedStutters
<1>6. CASE Kill
  BY <1>0, <1>6 DEF Kill
<1> QED
  BY <1>1, <1>2, <1>3, <1>4, <1>5, <1>6 DEF Next, vars

(***************************************************************************)
(* Unless the vector's own write fails, keys, vectors and two files keep   *)
(* the shares as one place would: a start finds them whole, as they were   *)
(* at some change, and never older than before.                            *)
(***************************************************************************)
THEOREM SharesAreSaved == Spec => ImplementsSaved
<1>1. IInv /\ IInv' /\ [Next]_vars => [lost' \/ Saved!Next]_(Saved!vars)
  BY SavedStep
<1> QED
  BY <1>1, SavedInit, StartupInvariant, PTL DEF Spec, ImplementsSaved
=============================================================================
