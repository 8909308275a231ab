----------------------------- MODULE SecretFile -----------------------------
(***************************************************************************)
(* The steps in which secure_write_secret_file_blocking replaces the       *)
(* secret file (playit-runtime/src/secret.rs), a reset that removes it at  *)
(* any time, the death of the process and the loss of power between any    *)
(* two steps.  Unix and Windows take the same steps; Windows also protects *)
(* the temporary file before it writes to it.                              *)
(*                                                                         *)
(* A file is its secret and how much of it there is: nothing, a part, all  *)
(* of it, all of it on disk.  The directory is not synced: what the path   *)
(* names reaches the disk at any time after the rename, or never.          *)
(***************************************************************************)
CONSTANTS Secrets, None, Garbage

VARIABLES
  path,       \* the file that the path names
  disk,       \* the file that the path names on disk
  tmp,        \* the temporary file of this write
  pc,         \* where the writer is
  secret,     \* the secret it writes
  result,     \* how the last write ended
  removing    \* reset_secret_file is under way

vars == <<path, disk, tmp, pc, secret, result, removing>>

Files == [secret : Secrets, data : {"empty", "part", "whole", "synced"}]

ASSUME DistinctValues ==
  /\ Garbage \notin Secrets \cup {None}
  /\ None \notin Secrets \cup Files

File(s, data) == [secret |-> s, data |-> data]

(* Every variable keeps to its type.                                       *)
TypeOK ==
  /\ path \in Files \cup {None} /\ disk \in Files \cup {None} /\ tmp \in Files \cup {None}
  /\ pc \in {"idle", "create", "write", "sync", "replace", "protect", "discard", "unprotected"}
  /\ secret \in Secrets \cup {None}
  /\ pc # "idle" => secret # None
  /\ pc \in {"write", "sync", "replace"} => tmp # None
  /\ result \in {"none", "ok", "failed"}
  /\ removing \in BOOLEAN

Init ==
  /\ path \in {File(s, "synced") : s \in Secrets} \cup {None}
  /\ disk = path
  /\ tmp = None /\ pc = "idle" /\ secret = None
  /\ result = "none" /\ removing = FALSE

(* parse_secret_file: what a load makes of a file                          *)
Content(f) ==
  IF f = None THEN None
  ELSE IF f.data \in {"whole", "synced"} THEN f.secret ELSE Garbage

(* What is left of a file after a loss of power                            *)
AfterLoss(f) ==
  IF f = None THEN None
  ELSE IF f.data = "synced" THEN f ELSE File(f.secret, "part")

-----------------------------------------------------------------------------
(* secure_write_secret_file_blocking                                       *)

Begin(s) ==
  /\ pc = "idle"
  /\ secret' = s
  /\ pc' = "create"
  /\ UNCHANGED <<path, disk, tmp, result, removing>>

Create ==
  /\ pc = "create"
  /\ \/ tmp' = File(secret, "empty") /\ pc' = "write"
     \/ tmp' = tmp /\ pc' = "discard"
  /\ UNCHANGED <<path, disk, secret, result, removing>>

WriteAll ==
  /\ pc = "write"
  /\ \/ tmp' = File(secret, "whole") /\ pc' = "sync"
     \/ tmp' = File(secret, "part") /\ pc' = "discard"
  /\ UNCHANGED <<path, disk, secret, result, removing>>

SyncAll ==
  /\ pc = "sync"
  /\ \/ tmp' = File(secret, "synced") /\ pc' = "replace"
     \/ tmp' = tmp /\ pc' = "discard"
  /\ UNCHANGED <<path, disk, secret, result, removing>>

(* Mutated form: the old file is removed before the rename.                *)
Rename_removes_first ==
  /\ pc = "replace"
  /\ \/ path # None /\ path' = None /\ UNCHANGED <<tmp, pc>>
     \/ path' = tmp /\ tmp' = None /\ pc' = "protect"
     \/ path' = path /\ tmp' = tmp /\ pc' = "discard"
  /\ UNCHANGED <<disk, secret, result, removing>>

Rename ==
  /\ pc = "replace"
  /\ \/ path' = tmp /\ tmp' = None /\ pc' = "protect"
     \/ path' = path /\ tmp' = tmp /\ pc' = "discard"
  /\ UNCHANGED <<disk, secret, result, removing>>

SetPermissions ==
  /\ pc = "protect"
  /\ \/ pc' = "idle" /\ result' = "ok" /\ secret' = None
     \/ pc' = "unprotected" /\ UNCHANGED <<result, secret>>
  /\ UNCHANGED <<path, disk, tmp, removing>>

(* On every error the temporary file is removed                            *)
Discard ==
  /\ pc \in {"discard", "unprotected"}
  /\ tmp' = None /\ secret' = None
  /\ result' = "failed"
  /\ pc' = "idle"
  /\ UNCHANGED <<path, disk, removing>>

-----------------------------------------------------------------------------
(* reset_secret_file                                                       *)

AskReset ==
  /\ ~removing
  /\ removing' = TRUE
  /\ UNCHANGED <<path, disk, tmp, pc, secret, result>>

reset_secret_file ==
  /\ removing
  /\ path' \in {None, path}
  /\ removing' = FALSE
  /\ UNCHANGED <<disk, tmp, pc, secret, result>>

(* The file system                                                         *)
Flush ==
  /\ disk' = path
  /\ UNCHANGED <<path, tmp, pc, secret, result, removing>>

(* The process dies, alone or with the machine                             *)
Die ==
  /\ tmp' = None /\ pc' = "idle" /\ secret' = None /\ removing' = FALSE
  /\ UNCHANGED result

ProcessDies == Die /\ UNCHANGED <<path, disk>>

PowerFails ==
  /\ Die
  /\ disk' = AfterLoss(disk)
  /\ path' = AfterLoss(disk)

Next ==
  \/ \E s \in Secrets : Begin(s)
  \/ Create \/ WriteAll \/ SyncAll \/ Rename \/ SetPermissions \/ Discard
  \/ AskReset \/ reset_secret_file
  \/ Flush \/ ProcessDies \/ PowerFails

Spec == Init /\ [][Next]_vars

-----------------------------------------------------------------------------
(* A load never finds half a secret, whatever the writer was doing when    *)
(* the process died or the power failed.                                   *)
FileIsWhole == Content(path) # Garbage /\ Content(AfterLoss(disk)) # Garbage

Store == INSTANCE SecretStore WITH
  value <- Content(path),
  stable <- Content(AfterLoss(disk)),
  pending <- IF pc = "idle" THEN None ELSE secret,
  stored <- pc \in {"protect", "unprotected"}

(* The steps on files implement the register of SecretStore.               *)
ImplementsStore == Store!Spec
=============================================================================
