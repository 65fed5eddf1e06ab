---------------------------- MODULE Credentials ----------------------------
(***************************************************************************)
(* The credential store (internal/airplay/credentials.go,                   *)
(* credentials_keyring.go): connections that save a pairing identity and a  *)
(* screencast restore token for their device at the same time, writes that  *)
(* fail, and a process that dies while it writes.                           *)
(***************************************************************************)
EXTENDS Integers

CONSTANTS
    Devices,
    Workers,        \* the connections that save
    MaxSaves        \* BOUND: calls of SavePairing and SaveRestoreToken

\* mu is free or held by a connection.
ASSUME CredentialsAssumption == MaxSaves \in Nat /\ "free" \notin Workers

VARIABLES
    backend,    \* where credentials are kept
    process,    \* the program that has the store open
    memory,     \* fileBackend.devices, which the callers share
    disk,       \* the file, and whether it can be parsed, or the keyring
    mu,         \* who holds CredentialStore.mu
    call,       \* what each connection is doing
    saves,      \* how many saves were made
    saved       \* per device: what the last successful saves stored

vars == <<backend, process, memory, disk, mu, call, saves, saved>>

\* Every save has a number, and stores it in the fields it sets.  0 is an empty field.
Empty == [id |-> 0, keys |-> 0, token |-> 0]
NoCall == [at |-> "none"]
Store(whole, devices) == [whole |-> whole, devices |-> devices]
Nothing == [d \in Devices |-> Empty]

Init ==
    /\ backend \in {"file", "keyring"} /\ process = "running"
    /\ memory = Nothing /\ disk = Store(TRUE, Nothing)
    /\ mu = "free" /\ call = [w \in Workers |-> NoCall]
    /\ saves = 0 /\ saved = [d \in Devices |-> [pairing |-> 0, token |-> 0]]

-----------------------------------------------------------------------------
Free_Always == TRUE                  \* no CredentialStore.mu
Free == mu = "free"

\* The file backend hands out the entry everybody shares, the keyring a copy.
Looked_Fresh(kind, d) ==             \* SaveRestoreToken starts from an empty entry
    IF kind = "token" THEN Empty ELSE IF backend = "file" THEN memory[d] ELSE disk.devices[d]
Looked(kind, d) == IF backend = "file" THEN memory[d] ELSE disk.devices[d]
Entry(w) == IF backend = "file" THEN memory[call[w].device] ELSE call[w].creds

\* Lookup, under mu; the keyring may refuse, which ends the call.
Begin(w) ==
    /\ process = "running" /\ call[w] = NoCall /\ Free /\ saves < MaxSaves
    /\ \E d \in Devices, kind \in {"id", "token"} :
          \/ /\ call' = [call EXCEPT ![w] =
                    [at |-> kind, device |-> d, number |-> saves + 1,
                     creds |-> IF backend = "keyring" THEN Looked(kind, d) ELSE Empty]]
             /\ memory' = IF backend = "file" THEN [memory EXCEPT ![d] = Looked(kind, d)] ELSE memory
             /\ mu' = w /\ saves' = saves + 1
          \/ backend = "keyring" /\ UNCHANGED <<memory, call, mu, saves>>
    /\ UNCHANGED <<backend, process, disk, saved>>

\* One field after the other: SavePairing the identity and its keys, SaveRestoreToken the
\* token.
Working(w, at) == process = "running" /\ call[w] # NoCall /\ call[w].at = at
After == [id |-> "keys", keys |-> "save", token |-> "save"]
Assign(w, field) ==
    /\ Working(w, field)
    /\ LET creds == [Entry(w) EXCEPT ![field] = call[w].number] IN
       IF backend = "file"
       THEN /\ memory' = [memory EXCEPT ![call[w].device] = creds]
            /\ call' = [call EXCEPT ![w].at = After[field]]
       ELSE /\ call' = [call EXCEPT ![w].at = After[field], ![w].creds = creds]
            /\ UNCHANGED memory
    /\ UNCHANGED <<backend, process, disk, mu, saves, saved>>

\* How a save ends: what it returns, and mu is released.
Succeeds(w) ==
    /\ call' = [call EXCEPT ![w] = NoCall]
    /\ mu' = "free"
    /\ saved' = [saved EXCEPT ![call[w].device] = [pairing |-> Entry(w).keys, token |-> Entry(w).token]]
Fails(w) ==
    /\ call' = [call EXCEPT ![w] = NoCall]
    /\ mu' = "free"
    /\ UNCHANGED saved

\* persist: os.WriteFile empties the file before it writes the whole map.
Open(w) ==
    /\ Working(w, "save") /\ backend = "file"
    /\ \/ /\ disk' = Store(FALSE, Nothing)
          /\ call' = [call EXCEPT ![w].at = "write"]
          /\ UNCHANGED <<mu, saved>>
       \/ Fails(w) /\ UNCHANGED disk
    /\ UNCHANGED <<backend, process, memory, saves>>
Write(w) ==
    /\ Working(w, "write")
    /\ \/ Succeeds(w) /\ disk' = Store(TRUE, memory)
       \/ Fails(w) /\ UNCHANGED disk
    /\ UNCHANGED <<backend, process, memory, saves>>
\* The keyring takes an entry at once.
SetEntry(w) ==
    /\ Working(w, "save") /\ backend = "keyring"
    /\ \/ /\ Succeeds(w)
          /\ disk' = [disk EXCEPT !.devices[call[w].device] = Entry(w)]
       \/ Fails(w) /\ UNCHANGED disk
    /\ UNCHANGED <<backend, process, memory, saves>>

\* The process dies; one that is started again reads the file, and gives up if it cannot.
Crash ==
    /\ process = "running" /\ process' = "dead"
    /\ memory' = Nothing /\ mu' = "free" /\ call' = [w \in Workers |-> NoCall]
    /\ UNCHANGED <<backend, disk, saves, saved>>
Restart ==
    /\ process = "dead"
    /\ IF disk.whole
       THEN /\ process' = "running"
            /\ memory' = IF backend = "file" THEN disk.devices ELSE Nothing
       ELSE process' = "refused" /\ UNCHANGED memory
    /\ UNCHANGED <<backend, disk, mu, call, saves, saved>>
\* Only the user can help then, by removing the file.
Remove ==
    /\ process = "refused" /\ process' = "dead"
    /\ disk' = Store(TRUE, Nothing)
    /\ saved' = [d \in Devices |-> [pairing |-> 0, token |-> 0]]
    /\ UNCHANGED <<backend, memory, mu, call, saves>>

Next ==
    \/ \E w \in Workers :
          \/ Begin(w) \/ Assign(w, "id") \/ Assign(w, "keys") \/ Assign(w, "token")
          \/ Open(w) \/ Write(w) \/ SetEntry(w)
    \/ Crash \/ Restart \/ Remove
Spec == Init /\ [][Next]_vars

-----------------------------------------------------------------------------
(* Properties.                                                               *)
Busy(d) == \E w \in Workers : call[w] # NoCall /\ call[w].device = d
Whole(e) == e.id = e.keys

\* Whatever is saved at the same time and wherever the process dies, the identity of a device
\* and its keys are of one save: in the store, and, unless it is being changed, in memory.
IdentityIsWhole ==
    \A d \in Devices : Whole(disk.devices[d]) /\ (Busy(d) \/ Whole(memory[d]))

\* What a save has stored outlives every later save, of the other kind and of other devices,
\* that fails or succeeds, and every restart, as long as the file can be read; nothing older
\* comes back.
Keeps(e, s) == e.keys >= s.pairing /\ e.token >= s.token
SavedIsKept ==
    \A d \in Devices :
        /\ disk.whole => Keeps(disk.devices[d], saved[d])
        /\ process = "running" /\ backend = "file" => Keeps(memory[d], saved[d])
=============================================================================
