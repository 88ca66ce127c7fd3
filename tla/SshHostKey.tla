----------------------------- MODULE SshHostKey -----------------------------
(***************************************************************************)
(* The SSH host key of a device (internal/protocols/ssh_host_key.go).      *)
(* Processes of the same user start simulations of the same device and     *)
(* load or create its key; any of them dies at any step.  A file is the    *)
(* key written to it and how much of it is there.                          *)
(***************************************************************************)
EXTENDS FiniteSets

CONSTANTS Processes, None

VARIABLES
  file,    \* the published key: None, or its key and "empty" or "whole"
  pc,      \* where each process is
  signer,  \* the key it serves, once it has one
  failed   \* processes told that the key is unreadable

vars == <<file, pc, signer, failed>>

Init ==
  /\ file = None
  /\ pc = [p \in Processes |-> "start"]
  /\ signer = [p \in Processes |-> None]
  /\ failed = {}

Goes(p, step) == pc' = [pc EXCEPT ![p] = step]

(* Serves what the file holds; a file of another length is refused.          *)
readSSHHostPrivateKey(p) ==
  IF file.content = "whole"
  THEN signer' = [signer EXCEPT ![p] = file.key] /\ UNCHANGED failed
  ELSE failed' = failed \union {p} /\ UNCHANGED signer

loadOrCreateSSHHostSignerIn(p) ==
  /\ pc[p] = "start"
  /\ IF file = None THEN Goes(p, "generated") /\ UNCHANGED <<signer, failed>>
     ELSE readSSHHostPrivateKey(p) /\ Goes(p, "serving")
  /\ UNCHANGED file

(* Each process generates its own key: the key is the process.               *)
WritesInPlace(p) ==
  /\ pc[p] \in {"generated", "linked"}
  /\ IF pc[p] = "generated"
     THEN /\ file' = IF file = None THEN [key |-> p, content |-> "empty"] ELSE file
          /\ Goes(p, IF file = None THEN "linked" ELSE "exists")
          /\ UNCHANGED <<signer, failed>>
     ELSE /\ file' = [file EXCEPT !.content = "whole"]
          /\ signer' = [signer EXCEPT ![p] = p]
          /\ Goes(p, "serving")
          /\ UNCHANGED failed

(* The temporary file, written, synced and closed, is linked: the name       *)
(* exists at once with all of the key, or another's does.                    *)
publishSSHHostPrivateKey(p) ==
  /\ pc[p] = "generated"
  /\ IF file = None
     THEN /\ file' = [key |-> p, content |-> "whole"]
          /\ signer' = [signer EXCEPT ![p] = p]
          /\ Goes(p, "serving")
     ELSE Goes(p, "exists") /\ UNCHANGED <<file, signer>>
  /\ UNCHANGED failed

readsOther(p) ==
  /\ pc[p] = "exists"
  /\ readSSHHostPrivateKey(p)
  /\ Goes(p, "serving")
  /\ UNCHANGED file

restart(p) ==
  /\ pc[p] # "start"
  /\ Goes(p, "start")
  /\ signer' = [signer EXCEPT ![p] = None]
  /\ UNCHANGED <<file, failed>>

Next ==
  \E p \in Processes :
    \/ loadOrCreateSSHHostSignerIn(p) \/ publishSSHHostPrivateKey(p) \/ readsOther(p) \/ restart(p)

Spec == Init /\ [][Next]_vars

(* Every process that serves the device serves one and the same key, now and *)
(* after a restart, and none ever meets a key cut short.                     *)
OneHostKey ==
  /\ failed = {}
  /\ \A p \in Processes : signer[p] # None => file # None /\ signer[p] = file.key
=============================================================================
