------------------------------ MODULE Identity -------------------------------
(***************************************************************************)
(* The signing identity of the relay: LoadOrCreateRelayIdentity reads the  *)
(* key file or, if there is none, generates a key, writes it to a          *)
(* temporary file, syncs that, and renames it over the path.  A relay does *)
(* this before it listens, so what excludes two relays from serving (the   *)
(* port) does not exclude them from creating an identity.                  *)
(*                                                                         *)
(* The file system is external.  A crash of a process loses nothing that   *)
(* was written.  A power loss ends every process; it can undo a rename     *)
(* that was not flushed yet, and tear the contents of a file that was      *)
(* never synced.                                                           *)
(***************************************************************************)
EXTENDS Naturals, FiniteSets

CONSTANTS
  Processes,    \* processes of "mycodex-relay serve" on one state path
  IdentityKeys, \* keys that can be generated; bounds the creations
  Absent, Torn

\* A file holds a key; synced says whether the contents are on the disk.
File == [key : IdentityKeys \cup {Torn}, synced : BOOLEAN]

Phases == {"down", "generated", "written", "synced", "loaded", "serving"}

ASSUME IdentityConstants ==
  /\ Absent \notin File \cup IdentityKeys \cup Processes
  /\ Torn \notin IdentityKeys

VARIABLES
  file,      \* what the path names: a file or Absent
  durable,   \* what the path names on the disk
  temp,      \* the temporary file of a process
  signer,    \* the key that a process has generated or loaded
  phase,
  port,      \* the process that listens
  used,      \* the keys generated so far
  served,    \* history: the identities that clients have been shown
  orderly    \* history: no relay was started while another one ran, and the
             \* power never failed

identityVars ==
  <<file, durable, temp, signer, phase, port, used, served, orderly>>

IdentityTypeOK ==
  /\ file \in File \cup {Absent}
  /\ durable \in File \cup {Absent}
  /\ temp \in [Processes -> File \cup {Absent}]
  /\ signer \in [Processes -> IdentityKeys \cup {Absent}]
  /\ phase \in [Processes -> Phases]
  /\ port \in Processes \cup {Absent}
  /\ used \subseteq IdentityKeys
  /\ served \subseteq IdentityKeys
  /\ orderly \in BOOLEAN

IdentityInit ==
  /\ file = Absent
  /\ durable = Absent
  /\ temp = [p \in Processes |-> Absent]
  /\ signer = [p \in Processes |-> Absent]
  /\ phase = [p \in Processes |-> "down"]
  /\ port = Absent
  /\ used = {}
  /\ served = {}
  /\ orderly = TRUE

disk == <<file, durable>>

Enter(p, point) == phase' = [phase EXCEPT ![p] = point]

Start(p) ==
  /\ phase[p] = "down"
  /\ orderly' = (orderly /\ \A q \in Processes : phase[q] = "down")

-----------------------------------------------------------------------------
(* LoadOrCreateRelayIdentity *)

\* ReadFile finds a key; a torn file does not parse and the relay stays down.
Load(p) ==
  /\ Start(p)
  /\ file # Absent
  /\ file.key # Torn
  /\ signer' = [signer EXCEPT ![p] = file.key]
  /\ Enter(p, "loaded")
  /\ UNCHANGED <<disk, temp, port, used, served>>

MutAlwaysGenerate(p, k) ==
  /\ Start(p)
  /\ k \notin used
  /\ used' = used \cup {k}
  /\ signer' = [signer EXCEPT ![p] = k]
  /\ Enter(p, "generated")
  /\ UNCHANGED <<disk, temp, port, served>>

\* ReadFile finds no file, and a fresh key is generated.
Generate(p, k) ==
  /\ Start(p)
  /\ file = Absent
  /\ k \notin used
  /\ used' = used \cup {k}
  /\ signer' = [signer EXCEPT ![p] = k]
  /\ Enter(p, "generated")
  /\ UNCHANGED <<disk, temp, port, served>>

\* writeIdentityAtomically: CreateTemp, Chmod and Write.
WriteTemp(p) ==
  /\ phase[p] = "generated"
  /\ temp' = [temp EXCEPT ![p] = [key |-> signer[p], synced |-> FALSE]]
  /\ Enter(p, "written")
  /\ UNCHANGED <<disk, signer, port, used, served, orderly>>

MutNoSync(p) ==
  /\ phase[p] = "written"
  /\ Enter(p, "synced")
  /\ UNCHANGED <<disk, temp, signer, port, used, served, orderly>>

MutHalfKey(p) ==
  /\ phase[p] = "written"
  /\ temp' = [temp EXCEPT ![p] = [key |-> Absent, synced |-> TRUE]]
  /\ Enter(p, "synced")
  /\ UNCHANGED <<disk, signer, port, used, served, orderly>>

\* Sync and Close.
SyncTemp(p) ==
  /\ phase[p] = "written"
  /\ temp' = [temp EXCEPT ![p].synced = TRUE]
  /\ Enter(p, "synced")
  /\ UNCHANGED <<disk, signer, port, used, served, orderly>>

\* Rename and Chmod.  The signer that is returned holds the key that was
\* generated, not what the path names.  If Chmod fails, the call fails after
\* the file was published.
Publish(p) ==
  /\ phase[p] = "synced"
  /\ file' = temp[p]
  /\ temp' = [temp EXCEPT ![p] = Absent]
  /\ \/ Enter(p, "loaded") /\ UNCHANGED signer
     \/ Enter(p, "down") /\ signer' = [signer EXCEPT ![p] = Absent]
  /\ UNCHANGED <<durable, port, used, served, orderly>>

\* A step before the rename fails: the temporary file is removed.
WriteFails(p) ==
  /\ phase[p] \in {"generated", "written", "synced"}
  /\ temp' = [temp EXCEPT ![p] = Absent]
  /\ signer' = [signer EXCEPT ![p] = Absent]
  /\ Enter(p, "down")
  /\ UNCHANGED <<disk, port, used, served, orderly>>

-----------------------------------------------------------------------------
(* The relay around it *)

\* Serve, once the identity is there: net.Listen succeeds for one process
\* and fails for all others, which exit.
Listen(p) ==
  /\ phase[p] = "loaded"
  /\ IF port = Absent
     THEN /\ port' = p
          /\ served' = served \cup {signer[p]}
          /\ Enter(p, "serving")
          /\ UNCHANGED signer
     ELSE /\ signer' = [signer EXCEPT ![p] = Absent]
          /\ Enter(p, "down")
          /\ UNCHANGED <<port, served>>
  /\ UNCHANGED <<disk, temp, used, orderly>>

\* A process stops or is killed.  A temporary file that it leaves behind is
\* never looked at again.
Crash(p) ==
  /\ phase[p] # "down"
  /\ temp' = [temp EXCEPT ![p] = Absent]
  /\ signer' = [signer EXCEPT ![p] = Absent]
  /\ port' = IF port = p THEN Absent ELSE port
  /\ Enter(p, "down")
  /\ UNCHANGED <<disk, used, served, orderly>>

\* The operating system writes the directory back.
Flush ==
  /\ durable # file
  /\ durable' = file
  /\ UNCHANGED <<file, temp, signer, phase, port, used, served, orderly>>

\* The contents of a file after the power has failed.
Survivors(f) ==
  IF f = Absent \/ f.synced THEN {f}
  ELSE {f, [key |-> Torn, synced |-> TRUE]}

PowerLoss ==
  /\ \E f \in Survivors(file) \cup Survivors(durable) :
       file' = f /\ durable' = f
  /\ temp' = [p \in Processes |-> Absent]
  /\ signer' = [p \in Processes |-> Absent]
  /\ phase' = [p \in Processes |-> "down"]
  /\ port' = Absent
  /\ orderly' = FALSE
  /\ UNCHANGED <<used, served>>

\* The steps of one relay.
RelayStep(p) ==
  \/ Load(p)
  \/ \E k \in IdentityKeys : Generate(p, k)
  \/ WriteTemp(p) \/ SyncTemp(p) \/ Publish(p) \/ WriteFails(p)
  \/ Listen(p)
  \/ Crash(p)

IdentityNext ==
  \/ \E p \in Processes : RelayStep(p)
  \/ Flush
  \/ PowerLoss

IdentitySpec == IdentityInit /\ [][IdentityNext]_identityVars

-----------------------------------------------------------------------------
(* Properties *)

\* The path never names half a key: whenever the processes crash and the
\* power fails, what LoadOrCreateRelayIdentity reads next is a whole key or
\* no file at all (the sync before the rename).
NeverTorn == file # Absent => file.key # Torn

\* Clients are only ever shown one identity, and it is the one that the next
\* start will load, whenever the relay crashes while it creates or publishes
\* its key.  Two relays that start at once may break this, because the second
\* rename wins and the first to listen does; and so may a power loss, because
\* the rename is not flushed.
IdentityIsStable ==
  orderly =>
    /\ \A a, b \in served : a = b
    /\ port # Absent => file # Absent /\ file.key = signer[port]

=============================================================================
