------------------------------- MODULE Startup -------------------------------
(***************************************************************************)
(* Components.initialize(): the shares are loaded, smb.conf is brought up  *)
(* to date beside whatever the application then does, and the process may  *)
(* die at any moment, by itself or because something could not be read.    *)
(***************************************************************************)
EXTENDS EncryptedStore, SambaConfiguration

vars == <<storeVars, confVars>>

TypeOK == StoreTypeOK /\ ConfTypeOK

Init == StoreInit /\ ConfInit

Dies == StoreDies /\ ConfDies

(* The system, or a user, ends the process. *)
Kill == Dies

(* An exception that nobody catches does. *)
Throw == CannotLoadShares /\ Dies
ConfThrows == ConfFails /\ Dies

(* The main thread. *)
Main ==
  \/ StoreStarts /\ UNCHANGED confVars
  \/ Running /\ Configure /\ UNCHANGED storeVars
  \/ Throw

(* The coroutine. *)
Coroutine == (ConfStep /\ UNCHANGED storeVars) \/ ConfThrows

(* The application has been initialised before it changes any share. *)
Application == conf # "off" /\ StoreChanges /\ UNCHANGED confVars

Next ==
  \/ Main
  \/ Coroutine
  \/ Application
  \/ StoreWrites /\ UNCHANGED confVars
  \/ ConfEnvironment /\ UNCHANGED storeVars
  \/ Kill

(* The threads of the process run; nothing else is certain. *)
Spec ==
  /\ Init /\ [][Next]_vars
  /\ WF_vars(Main) /\ WF_vars(Coroutine)

-----------------------------------------------------------------------------
(***************************************************************************)
(* A start ends with the shares loaded and the configuration read, unless  *)
(* processes are killed, or fail at their configuration, again and again:  *)
(* what a process leaves behind never keeps the next ones from starting.   *)
(***************************************************************************)
Interrupted == (Kill /\ ~ CannotLoadShares) \/ ConfThrows
StartsUp ==
  [](~ lost) => ([]<><<Interrupted>>_vars \/ []<>(Running /\ conf = "done"))

(***************************************************************************)
(* Saving the shares in two files under a vector is saving them.           *)
(***************************************************************************)
ImplementsSaved ==
  Saved!Init /\ [][lost' \/ Saved!Next]_(Saved!vars)
=============================================================================
