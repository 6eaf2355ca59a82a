----------------------------- MODULE RemoteFile -----------------------------
(***************************************************************************)
(* What the clients of an opened document may rely on as long as nothing   *)
(* fails: each has a position of its own, what it reads are the bytes of   *)
(* the file from there on, what it writes is in the file from there on.  A *)
(* transfer that fails may have got through in part.  A client may lose    *)
(* the file at any time, it never gets another one's position.             *)
(***************************************************************************)
EXTENDS Integers, Sequences

CONSTANTS
  Streams,  \* the documents that are opened, by whomever
  Bytes,
  Zero,     \* the byte a gap in a file is filled with
  MaxSize,  \* bound: the size of the file
  None      \* no position

VARIABLES
  content,   \* the bytes of the file
  position,  \* position[s]: where s reads or writes next, None if it cannot
  got        \* got[s]: what s has read last

vars == <<content, position, got>>

Smaller(i, j) == IF i < j THEN i ELSE j
Larger(i, j) == IF i > j THEN i ELSE j

ReadAt(c, p, n) == SubSeq(c, p + 1, Smaller(p + n, Len(c)))

WriteAt(c, p, data) ==
  IF data = <<>> THEN c
  ELSE [i \in 1 .. Larger(Len(c), p + Len(data)) |->
         IF i \in p + 1 .. p + Len(data) THEN data[i - p]
         ELSE IF i <= Len(c) THEN c[i] ELSE Zero]

Contents == UNION {[1 .. n -> Bytes] : n \in 0 .. MaxSize}

Init ==
  /\ content \in Contents
  /\ position = [s \in Streams |-> None]
  /\ got = [s \in Streams |-> <<>>]

Open(s) ==
  /\ position[s] = None
  /\ content' \in {content, <<>>}
  /\ \E p \in {0, Len(content')} : position' = [position EXCEPT ![s] = p]
  /\ got' = [got EXCEPT ![s] = <<>>]

Read(s, n) ==
  /\ position[s] # None
  /\ UNCHANGED content
  /\ got' = [got EXCEPT ![s] = ReadAt(content, position[s], n)]
  /\ position' = [position EXCEPT ![s] = @ + Len(got'[s])]

(* Writing, or writing only the first bytes before it fails. *)
Write(s, data) ==
  /\ position[s] # None
  /\ UNCHANGED got
  /\ position' = [position EXCEPT ![s] = @ + Len(data)]
  /\ content' = WriteAt(content, position[s], data)

(* A read that fails gives nothing, wherever it leaves the position. *)
FailToRead(s) ==
  /\ position[s] # None
  /\ \E p \in position[s] .. Len(content) : position' = [position EXCEPT ![s] = p]
  /\ UNCHANGED <<content, got>>

(* Closed, or cut off from the server, with or without a last write; what     *)
(* was read may be forgotten.                                                 *)
Lose(S) ==
  /\ position' = [s \in Streams |-> IF s \in S THEN None ELSE position[s]]
  /\ got' \in {got, [s \in Streams |-> IF s \in S THEN <<>> ELSE got[s]]}
  /\ \/ UNCHANGED content
     \/ \E s \in S, data \in Contents :
          /\ position[s] # None
          /\ content' = WriteAt(content, position[s], data)

Next ==
  \/ \E S \in SUBSET Streams : Lose(S)
  \/ \E s \in Streams :
       \/ Open(s)
       \/ \E n \in 1 .. MaxSize : Read(s, n)
       \/ \E data \in Contents : Write(s, data)
       \/ FailToRead(s)

Spec == Init /\ [][Next]_vars
=============================================================================
