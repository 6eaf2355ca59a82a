------------------------------ MODULE ServerList ------------------------------
(***************************************************************************)
(* ServerListActivity beside the operations on shares: it shows the shares *)
(* that it finds, and then those that its listener finds each time that    *)
(* ShareManager calls it.  The listener is added after the first look.     *)
(***************************************************************************)
EXTENDS ShareMounts

VARIABLES
  view,    \* where the activity is
  listed,  \* the shares that its StateFlow was given last
  missed   \* history: the shares changed before the listener was added

listVars == <<view, listed, missed>>
allVars == <<vars, listVars>>

Stored == {s \in Shares : stored[s] # None}

ListInit ==
  /\ Init
  /\ view = "closed"
  /\ listed = {}
  /\ missed = FALSE

(* getShareUris is @Synchronized: it waits for an operation to end. *)
Open ==
  /\ view = "closed"
  /\ lock = None
  /\ view' = "opened"
  /\ listed' = Stored
  /\ missed' = FALSE
  /\ UNCHANGED vars

AddListener ==
  /\ view = "opened"
  /\ view' = "listening"
  /\ UNCHANGED <<vars, listed, missed>>

(* The activity is destroyed, and its listener removed. *)
Leave ==
  /\ view # "closed"
  /\ view' = "closed"
  /\ UNCHANGED <<vars, listed, missed>>

(* Mutant: only those who mount a share tell of it. *)
NotifiesOfMounts(u) == Store(u) /\ op[u].tuple.mounted

(* notifyServerChange, at the end of a @Synchronized method. *)
Notifies(u) ==
  \/ Store(u) /\ op[u].tuple.mounted
  \/ ForgetCredential(u)

(* The listener, if there is one, looks at the shares again. *)
ShareStep ==
  /\ Running
  /\ UNCHANGED view
  /\ IF view = "listening" /\ \E u \in Users : Notifies(u)
     THEN listed' = Stored' /\ missed' = FALSE
     ELSE /\ missed' = (missed \/ (view = "opened" /\ Stored' # Stored))
          /\ UNCHANGED listed

ProcessDies ==
  /\ Crash
  /\ view' = "closed"
  /\ UNCHANGED <<listed, missed>>

ListNext == Open \/ AddListener \/ Leave \/ ShareStep \/ ProcessDies

ListSpec == ListInit /\ [][ListNext]_allVars
-----------------------------------------------------------------------------
(***************************************************************************)
(* The server list has the shares that are stored, whenever no operation   *)
(* is under way.  A login tells nobody that it stores a share              *)
(* (mount = false), which is right only because it never stores one that   *)
(* was not there; and what changes before the listener is added is missed, *)
(* until the next change.                                                  *)
(***************************************************************************)
ListIsCurrent ==
  view = "listening" /\ lock = None /\ ~ missed => listed = Stored
=============================================================================
