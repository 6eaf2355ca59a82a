--------------------------- MODULE CredentialCache ---------------------------
(***************************************************************************)
(* The native credential cache (cpp/credential_cache), which libsmbclient  *)
(* asks for the credential of every server it connects to.  It has a map   *)
(* for the mounted shares and a temporary one for browsing; one flag says  *)
(* which of the two every operation uses.                                  *)
(***************************************************************************)
CONSTANTS
  Shares,   \* the URIs of shares, smb://server/share
  Creds,    \* pairs of a user name and a password, neither of them empty
  None      \* no credential, no share, no thread

Guest == "guest"   \* the empty user name

IPC == "IPC$"   \* the key smb://server/IPC$ under which servers are browsed

ASSUME CredentialAssumption ==
  /\ None \notin Shares \cup Creds \cup {Guest}
  /\ Guest \notin Creds
  /\ IPC \notin Shares

Keys == Shares \cup {IPC}

Credentials == Creds \cup {Guest}

Caches == [tempMode : BOOLEAN,
           temp : [Keys -> Credentials \cup {None}],
           main : [Keys -> Credentials \cup {None}]]

NewCache == [tempMode |-> FALSE,
             temp |-> [k \in Keys |-> None],
             main |-> [k \in Keys |-> None]]

Put(cache, key, cred) ==
  IF cache.tempMode THEN [cache EXCEPT !.temp[key] = cred]
                    ELSE [cache EXCEPT !.main[key] = cred]

Remove(cache, key) == Put(cache, key, None)

Get(cache, key) == IF cache.tempMode THEN cache.temp[key] ELSE cache.main[key]

SetTempMode(cache, temp) == [cache EXCEPT !.tempMode = temp]
=============================================================================
