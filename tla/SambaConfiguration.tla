------------------------- MODULE SambaConfiguration -------------------------
(***************************************************************************)
(* smb.conf: the copy in the application's own folder, which a coroutine   *)
(* brings up to date once in every process, from the copy that the user    *)
(* may keep in the external folder or from the defaults, and the SMB       *)
(* context, which reads it whenever it is made anew.  Nothing keeps the    *)
(* callback of the network from making one while the file is written.      *)
(***************************************************************************)
EXTENDS Integers, Sequences

CONSTANTS
  NoContext,  \* there is no SMB context
  Lines,      \* the lines that a smb.conf may have
  Key,        \* the key of every line that is a setting, of the form "key = value"
  Default,    \* the lines that flushDefault() writes
  Externals   \* what the user may write: sequences of lines

(* The settings: what does not split in exactly two at " = ", as a section, *)
(* a comment or "key=value", has no key.                                    *)
Settings == DOMAIN Key

ASSUME SambaConfigurationAssumption ==
  /\ Settings \subseteq Lines
  /\ Default \subseteq Settings
  /\ Externals \subseteq Seq(Lines)
  /\ \A lines \in SUBSET Settings : lines # NoContext

VARIABLES
  file,     \* the internal smb.conf: whether it is there, and its lines
  ext,      \* the external one, and whether it is newer than the internal
  torn,     \* history: whether the last write() was cut short, lost lines, or
            \* wrote what had been read of two files
  conf,     \* where the coroutine of initializeSambaConf is
  reader,   \* read(): the file it has open, how many lines of it are read,
            \* and whether the user has written over it since
  left,     \* mConfigurations, as far as it is not written
  home,     \* whether HOME names the application's folder
  context   \* the lines that the SMB context was made with, or NoContext

confVars == <<file, ext, torn, conf, reader, left, home, context>>

NotReading == [text |-> <<>>, at |-> 0, mixed |-> FALSE]

ConfTypeOK ==
  /\ file \in [there : BOOLEAN, lines : SUBSET Settings]
  /\ ext \in [there : BOOLEAN, lines : Externals \cup {<<>>}, newer : BOOLEAN]
  /\ torn \in BOOLEAN
  /\ conf \in {"off", "sync", "read", "parse", "write", "print", "reset", "done"}
  /\ reader \in [text : Externals \cup {<<>>}, at : Nat, mixed : BOOLEAN]
  /\ left \in SUBSET Settings
  /\ home \in BOOLEAN
  /\ context = NoContext \/ context \in SUBSET Settings

ConfInit ==
  /\ file = [there |-> FALSE, lines |-> {}]
  /\ ext = [there |-> FALSE, lines |-> <<>>, newer |-> FALSE]
  /\ torn = FALSE
  /\ conf = "off"
  /\ reader = NotReading
  /\ left = {}
  /\ home = FALSE
  /\ context = NoContext

-----------------------------------------------------------------------------
(* The user changes the external file; a copy may keep an older time.  If  *)
(* it is being read it may be another file that replaces it, of which the  *)
(* reader sees nothing, or the same one written over.  The reader is       *)
(* always between two lines.                                               *)
WriteExternal ==
  /\ \E lines \in Externals, newer \in BOOLEAN :
       /\ ext' = [there |-> TRUE, lines |-> lines, newer |-> newer]
       /\ \/ UNCHANGED reader
          \/ /\ conf = "parse" /\ ext.there
             /\ reader' = [reader EXCEPT !.text = lines, !.mixed = TRUE]
  /\ UNCHANGED <<file, torn, conf, left, home, context>>

(* What is open can still be read. *)
RemoveExternal ==
  /\ ext' = [there |-> FALSE, lines |-> <<>>, newer |-> FALSE]
  /\ UNCHANGED <<file, torn, conf, reader, left, home, context>>

(* initializeSambaConf(): HOME is set, or not, and the coroutine launched. *)
Configure ==
  /\ conf = "off"
  /\ conf' = "sync"
  /\ home' \in BOOLEAN
  /\ UNCHANGED <<file, ext, torn, reader, left, context>>

(* A file that is not there is older than any other. *)
ExternalIsNewer == ext.there /\ (ext.newer \/ ~ file.there)

SyncFromExternal ==
  /\ conf = "sync"
  /\ ExternalIsNewer
  /\ conf' = "read"
  /\ UNCHANGED <<file, ext, torn, reader, left, home, context>>

FlushDefault ==
  /\ conf = "sync"
  /\ ~ ExternalIsNewer
  /\ left' = Default
  /\ conf' = IF file.there THEN "reset" ELSE "write"
  /\ UNCHANGED <<file, ext, torn, reader, home, context>>

(* read(): mConfigurations is cleared and the external file opened, ... *)
OpenExternal ==
  /\ conf = "read"
  /\ ext.there
  /\ reader' = [text |-> ext.lines, at |-> 0, mixed |-> FALSE]
  /\ left' = {}
  /\ conf' = "parse"
  /\ UNCHANGED <<file, ext, torn, home, context>>

(* ... a setting replaces the one of the same key, anything else is passed *)
(* over, ...                                                               *)
Put(settings, line) ==
  IF line \in Settings THEN {s \in settings : Key[s] # Key[line]} \cup {line} ELSE settings

ReadLine ==
  /\ conf = "parse"
  /\ reader.at < Len(reader.text)
  /\ left' = Put(left, reader.text[reader.at + 1])
  /\ reader' = [reader EXCEPT !.at = @ + 1]
  /\ UNCHANGED <<file, ext, torn, conf, home, context>>

(* ... up to the end of what has become of the file. *)
EndOfFile ==
  /\ conf = "parse"
  /\ reader.at >= Len(reader.text)
  /\ reader' = [NotReading EXCEPT !.mixed = reader.mixed]
  /\ conf' = "write"
  /\ UNCHANGED <<file, ext, torn, left, home, context>>

(* Mutant: the file is written over, and not truncated first. *)
WriteOver ==
  /\ conf = "write"
  /\ file' = [file EXCEPT !.there = TRUE]
  /\ ext' = [ext EXCEPT !.newer = FALSE]
  /\ torn' = reader.mixed
  /\ conf' = "print"
  /\ reader' = NotReading
  /\ UNCHANGED <<left, home, context>>

(* write(): opening the PrintStream makes the file, or makes it empty, ... *)
Truncate ==
  /\ conf = "write"
  /\ file' = [there |-> TRUE, lines |-> {}]
  /\ ext' = [ext EXCEPT !.newer = FALSE]
  /\ torn' = reader.mixed
  /\ conf' = "print"
  /\ reader' = NotReading
  /\ UNCHANGED <<left, home, context>>

(* ... and the lines are printed in the order of a HashMap; a PrintStream *)
(* goes on when one cannot be written.                                    *)
PrintLine ==
  /\ conf = "print"
  /\ \E line \in left :
       /\ left' = left \ {line}
       /\ \/ /\ file' = [file EXCEPT !.lines = @ \cup {line}]
             /\ UNCHANGED torn
          \/ torn' = TRUE /\ UNCHANGED file
  /\ UNCHANGED <<ext, conf, reader, home, context>>

Close ==
  /\ conf = "print"
  /\ left = {}
  /\ conf' = "reset"
  /\ UNCHANGED <<file, ext, torn, reader, left, home, context>>

-----------------------------------------------------------------------------
(* NativeSambaFacade.reset(): the old context is freed and a new one made,  *)
(* which reads $HOME/.smb/smb.conf; it may fail.                           *)
NewContext == context' \in {IF home THEN file.lines ELSE {}, NoContext}

(* Mutant: the SMB context is not made anew when the file has been written. *)
FinishWithoutReset ==
  /\ conf = "reset"
  /\ conf' = "done"
  /\ context' \in IF context = NoContext
                  THEN {IF home THEN file.lines ELSE {}, NoContext} ELSE {context}
  /\ UNCHANGED <<file, ext, torn, reader, left, home>>

Finish ==
  /\ conf = "reset"
  /\ conf' = "done"
  /\ NewContext
  /\ UNCHANGED <<file, ext, torn, reader, left, home>>

(* The callback of the network, registered after initializeSambaConf(). *)
OnAvailable ==
  /\ conf # "off"
  /\ NewContext
  /\ UNCHANGED <<file, ext, torn, conf, reader, left, home>>

-----------------------------------------------------------------------------
(* An exception of the coroutine is one nobody catches: no file to read, a  *)
(* line that cannot be, or no file to write.                               *)
ConfFails == conf \in {"read", "parse", "write"}

(* The end of the process. *)
ConfDies ==
  /\ torn' = (torn \/ (conf = "print" /\ left # {}))
  /\ conf' = "off"
  /\ reader' = NotReading
  /\ left' = {}
  /\ home' = FALSE
  /\ context' = NoContext
  /\ UNCHANGED <<file, ext>>

ConfStep ==
  SyncFromExternal \/ FlushDefault \/ OpenExternal \/ ReadLine \/ EndOfFile
    \/ Truncate \/ PrintLine \/ Close \/ Finish

ConfEnvironment == WriteExternal \/ RemoveExternal \/ OnAvailable

-----------------------------------------------------------------------------
(***************************************************************************)
(* Once the coroutine is over, what the SMB context has read is the file   *)
(* as it is, although contexts were made while it was being written.       *)
(***************************************************************************)
ContextIsCurrent ==
  conf = "done" /\ home => context \in {file.lines, NoContext}

(* The settings among the first n lines of a file, the last one of a key. *)
Parsed(text, n) ==
  {text[i] : i \in {k \in 1..n :
     /\ text[k] \in Settings
     /\ \A j \in (k + 1)..n : text[j] \in Settings => Key[text[j]] # Key[text[k]]}}

Wholes == {Default} \cup {Parsed(text, Len(text)) : text \in Externals}

(***************************************************************************)
(* Outside of write() the file is the defaults, or the settings of one     *)
(* file that the user had, each key with its last value, and nothing else: *)
(* unless the last write() was cut short or lost a line, or the user wrote *)
(* over the file while it was being read.  Then it stays as it is, because *)
(* a file that is there is not written again before the user's is newer.   *)
(***************************************************************************)
FileIsWhole ==
  conf # "print" /\ file.there /\ ~ torn => file.lines \in Wholes
=============================================================================
