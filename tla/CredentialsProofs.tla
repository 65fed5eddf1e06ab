------------------------- MODULE CredentialsProofs -------------------------
(***************************************************************************)
(* Proofs about Credentials: for any number of devices, connections and     *)
(* saves, and wherever a save fails or the process dies, identities stay    *)
(* whole and what was saved is kept.                                        *)
(***************************************************************************)
EXTENDS Credentials, TLAPS

\* Types.  A field of an entry is the number of a save that was begun.
Creds == [id : Nat, keys : Nat, token : Nat]
Call == [at : {"id", "keys", "token", "save", "write"}, device : Devices, number : Nat, creds : Creds]
TypeInv ==
    /\ backend \in {"file", "keyring"} /\ saves \in Nat
    /\ memory \in [Devices -> Creds]
    /\ disk \in [whole : BOOLEAN, devices : [Devices -> Creds]]
    /\ call \in [Workers -> Call \cup {NoCall}]
    /\ saved \in [Devices -> [pairing : Nat, token : Nat]]

\* A connection that saves holds mu, and the process it belongs to lives.
Locked == \A w \in Workers : call[w] # NoCall => mu = w /\ process = "running"

\* No number is larger than that of the save that began last.
Recent(e) == e.keys <= saves /\ e.token <= saves
Bounded ==
    /\ \A w \in Workers : call[w] # NoCall => call[w].number = saves /\ Recent(Entry(w))
    /\ \A d \in Devices : Recent(memory[d]) /\ Recent(disk.devices[d])
    /\ \A d \in Devices : saved[d].pairing <= saves /\ saved[d].token <= saves

\* The keyring is never unreadable, and nothing is remembered of it.
KeyringInv == backend = "keyring" => disk.whole /\ \A d \in Devices : memory[d] = Empty

\* The entry that is being saved: half an identity between its two assignments, and never
\* older than what was saved.
EntryInv ==
    \A w \in Workers : call[w] # NoCall =>
        /\ Entry(w) \in Creds
        /\ IF call[w].at = "keys" THEN Entry(w).id = call[w].number ELSE Whole(Entry(w))
        /\ Keeps(Entry(w), saved[call[w].device])
        /\ call[w].at = "write" => backend = "file"

StoreInv == TypeInv /\ Locked /\ Bounded /\ KeyringInv /\ EntryInv /\ IdentityIsWhole /\ SavedIsKept
-----------------------------------------------------------------------------
\* While a connection holds mu, no other one is inside the store.
LEMMA Alone ==
    ASSUME Locked, NEW w \in Workers, call[w] # NoCall, NEW v \in Workers, call[v] # NoCall
    PROVE  v = w
BY DEF Locked

LEMMA InitSound == Init => StoreInv
<1> SUFFICES ASSUME Init PROVE StoreInv
  OBVIOUS
<1> USE CredentialsAssumption DEF Init, Nothing, Empty, Store
<1>1. TypeInv
  BY DEF TypeInv, Creds
<1>2. Locked /\ Bounded /\ KeyringInv /\ EntryInv
  BY DEF Locked, Bounded, KeyringInv, EntryInv, Recent
<1>3. IdentityIsWhole /\ SavedIsKept
  BY DEF IdentityIsWhole, SavedIsKept, Whole, Keeps, Busy
<1> QED BY <1>1, <1>2, <1>3 DEF StoreInv

LEMMA BeginSound == ASSUME StoreInv, NEW w \in Workers, Begin(w) PROVE StoreInv'
<1> USE DEF StoreInv
<1>1. CASE UNCHANGED <<memory, call, mu, saves>>
  BY <1>1 DEF Begin, TypeInv, Locked, Bounded, Recent, KeyringInv, EntryInv, IdentityIsWhole,
              SavedIsKept, Entry, Busy
<1>2. ASSUME NEW d \in Devices, NEW kind \in {"id", "token"},
             call' = [call EXCEPT ![w] =
                 [at |-> kind, device |-> d, number |-> saves + 1,
                  creds |-> IF backend = "keyring" THEN Looked(kind, d) ELSE Empty]],
             memory' = IF backend = "file" THEN [memory EXCEPT ![d] = Looked(kind, d)] ELSE memory,
             mu' = w, saves' = saves + 1
      PROVE  StoreInv'
  <2>1. \A v \in Workers : call[v] = NoCall
    BY CredentialsAssumption DEF Begin, Free, Locked
  <2>2. UNCHANGED <<backend, process, disk, saved>> /\ process = "running"
    BY DEF Begin
  <2>3. memory' = memory
    BY <1>2 DEF Looked, TypeInv
  <2>4. call'[w].at = kind /\ call'[w].device = d /\ call'[w].number = saves'
        /\ call'[w] \in Call /\ \A v \in Workers : v # w => call'[v] = NoCall
    BY <1>2, <2>1 DEF TypeInv, Call, Creds, Looked, Empty
  <2>6. Entry(w)' = Looked(kind, d)
    BY <1>2, <2>2, <2>3, <2>4 DEF Entry, Looked, TypeInv
  <2>7. /\ Looked(kind, d) \in Creds /\ Whole(Looked(kind, d)) /\ Recent(Looked(kind, d))
        /\ Keeps(Looked(kind, d), saved[d])
    BY <2>1, <2>2 DEF Looked, TypeInv, IdentityIsWhole, SavedIsKept, KeyringInv, Busy, Bounded
  <2>8. EntryInv'
    BY <2>2, <2>4, <2>6, <2>7 DEF EntryInv, Whole, Keeps
  <2>9. TypeInv' /\ Locked' /\ KeyringInv'
    BY <1>2, <2>2, <2>3, <2>4 DEF TypeInv, Locked, KeyringInv
  <2>10. Bounded'
    BY <1>2, <2>2, <2>3, <2>4, <2>6, <2>7 DEF TypeInv, Bounded, Recent, Creds
  <2>11. IdentityIsWhole' /\ SavedIsKept'
    BY <2>1, <2>2, <2>3 DEF IdentityIsWhole, SavedIsKept, Busy, Whole, Keeps
  <2> QED BY <2>8, <2>9, <2>10, <2>11
<1> QED BY <1>1, <1>2 DEF Begin

\* What is known of the connection that is inside the store.
LEMMA Saving ==
    ASSUME StoreInv, NEW w \in Workers, call[w] # NoCall
    PROVE  /\ call[w] \in Call /\ process = "running" /\ mu = w
           /\ \A v \in Workers : v # w => call[v] = NoCall
           /\ Entry(w) \in Creds
BY Alone DEF StoreInv, TypeInv, Locked, EntryInv

\* One assignment to the entry leaves the others as they are.
LEMMA AssignSound ==
    ASSUME StoreInv, NEW w \in Workers, NEW field \in {"id", "keys", "token"}, Assign(w, field)
    PROVE  StoreInv'
<1> DEFINE creds == [Entry(w) EXCEPT ![field] = call[w].number]
<1>1. /\ call[w] # NoCall /\ call[w].at = field
      /\ UNCHANGED <<backend, process, disk, mu, saves, saved>>
  BY DEF Assign, Working
<1>2. /\ call[w] \in Call /\ process = "running" /\ mu = w /\ Entry(w) \in Creds
      /\ \A v \in Workers : v # w => call[v] = NoCall
  BY <1>1, Saving
<1>3. call[w].number = saves /\ creds \in Creds /\ Recent(creds)
  BY <1>1, <1>2 DEF StoreInv, Bounded, Recent, Creds, Call
<1>4. After[field] \in {"keys", "save"} /\ After[field] # field
      /\ (After[field] = "keys" <=> field = "id")
  BY DEF After
<1>5. IF field = "keys" THEN Entry(w).id = saves ELSE Whole(Entry(w))
  BY <1>1, <1>2, <1>3 DEF StoreInv, EntryInv
<1>6. IF After[field] = "keys" THEN creds.id = saves ELSE Whole(creds)
  BY <1>2, <1>3, <1>4, <1>5 DEF Creds, Whole, After
<1>7. Keeps(creds, saved[call[w].device])
  BY <1>1, <1>2, <1>3 DEF StoreInv, EntryInv, Bounded, Keeps, Creds, Call
<1>8. /\ call'[w] \in Call /\ call'[w].at = After[field] /\ call'[w].device = call[w].device
      /\ call'[w].number = saves
      /\ \A v \in Workers : v # w => call'[v] = NoCall
      /\ call' \in [Workers -> Call \cup {NoCall}]
      /\ IF backend = "file" THEN memory' = [memory EXCEPT ![call[w].device] = creds]
                              ELSE memory' = memory /\ call'[w].creds = creds
  <2>1. CASE backend = "file"
    BY <2>1, <1>2, <1>3, <1>4 DEF Assign, StoreInv, TypeInv, Call
  <2>2. CASE backend # "file"
    BY <2>2, <1>2, <1>3, <1>4 DEF Assign, StoreInv, TypeInv, Call
  <2> QED BY <2>1, <2>2
<1>9. call'[w] # NoCall
  BY <1>8 DEF Call, NoCall
<1>10. Entry(w)' = creds
  BY <1>1, <1>2, <1>8 DEF Entry, StoreInv, TypeInv, Call
<1>11. TypeInv'
  <2>1. memory' \in [Devices -> Creds]
    <3>1. call[w].device \in Devices /\ memory \in [Devices -> Creds]
      BY <1>2 DEF StoreInv, TypeInv, Call
    <3>2. CASE backend = "file"
      BY <3>1, <3>2, <1>3, <1>8
    <3>3. CASE backend # "file"
      BY <3>1, <3>3, <1>8
    <3> QED BY <3>2, <3>3
  <2> QED BY <1>1, <1>8, <2>1 DEF StoreInv, TypeInv, Assign
<1>12. Locked' /\ Bounded'
  BY <1>1, <1>2, <1>3, <1>8, <1>10 DEF StoreInv, Locked, Bounded, Recent, TypeInv
<1>13. KeyringInv'
  BY <1>1, <1>8 DEF StoreInv, KeyringInv, TypeInv
<1>14. EntryInv'
  BY <1>1, <1>3, <1>4, <1>6, <1>7, <1>8, <1>10 DEF EntryInv
<1>15. IdentityIsWhole'
  BY <1>1, <1>2, <1>8, <1>9 DEF StoreInv, IdentityIsWhole, Busy, TypeInv, Call
<1>16. SavedIsKept'
  BY <1>1, <1>2, <1>7, <1>8 DEF StoreInv, SavedIsKept, TypeInv, Call
<1> QED BY <1>11, <1>12, <1>13, <1>14, <1>15, <1>16 DEF StoreInv

\* Outside of a save, and once both fields of an identity are assigned, memory is whole.
LEMMA AssignedIsWhole ==
    ASSUME StoreInv, NEW w \in Workers, call[w] # NoCall, call[w].at \in {"save", "write"},
           NEW d \in Devices
    PROVE  Whole(memory[d])
<1>1. call[w] \in Call /\ Whole(Entry(w)) /\ \A v \in Workers : v # w => call[v] = NoCall
  BY Saving DEF StoreInv, EntryInv
<1>2. CASE backend = "keyring"
  BY <1>2 DEF StoreInv, KeyringInv, Empty, Whole
<1>3. CASE backend = "file" /\ d = call[w].device
  BY <1>1, <1>3 DEF Entry
<1>4. CASE d # call[w].device
  BY <1>1, <1>4 DEF StoreInv, IdentityIsWhole, Busy
<1> QED BY <1>2, <1>3, <1>4 DEF StoreInv, TypeInv

\* A save that fails leaves everything but its call and mu.
LEMMA FailsSound ==
    ASSUME StoreInv, NEW w \in Workers, call[w] # NoCall, call[w].at \in {"save", "write"},
           Fails(w), UNCHANGED <<backend, process, memory, disk, saves>>
    PROVE  StoreInv'
<1>1. \A v \in Workers : call'[v] = NoCall
  BY Saving DEF Fails, StoreInv, TypeInv
<1>2. TypeInv' /\ Locked' /\ Bounded' /\ KeyringInv' /\ EntryInv'
  BY <1>1 DEF Fails, StoreInv, TypeInv, Locked, Bounded, Recent, KeyringInv, EntryInv
<1>3. IdentityIsWhole' /\ SavedIsKept'
  BY AssignedIsWhole DEF Fails, StoreInv, IdentityIsWhole, SavedIsKept
<1> QED BY <1>2, <1>3 DEF StoreInv

\* A save that succeeds has stored the entry of its device, and no other one.
LEMMA SucceedsSound ==
    ASSUME StoreInv, NEW w \in Workers, call[w] # NoCall, call[w].at \in {"save", "write"},
           Succeeds(w), UNCHANGED <<backend, process, memory, saves>>,
           disk' = IF backend = "file" THEN Store(TRUE, memory)
                                       ELSE [disk EXCEPT !.devices[call[w].device] = Entry(w)]
    PROVE  StoreInv'
<1>1. /\ call[w] \in Call /\ Entry(w) \in Creds /\ process = "running"
      /\ Whole(Entry(w)) /\ call[w].device \in Devices
  BY Saving DEF StoreInv, EntryInv, Call
<1>2. \A v \in Workers : call'[v] = NoCall
  BY Saving DEF Succeeds, StoreInv, TypeInv
<1>3. saved' = [saved EXCEPT ![call[w].device] = [pairing |-> Entry(w).keys, token |-> Entry(w).token]]
  BY DEF Succeeds
<1>4. disk'.whole \in BOOLEAN /\ disk'.devices \in [Devices -> Creds]
      /\ disk' \in [whole : BOOLEAN, devices : [Devices -> Creds]]
  <2>1. CASE backend = "file"
    BY <2>1 DEF Store, StoreInv, TypeInv
  <2>2. CASE backend # "file"
    BY <1>1, <2>2 DEF StoreInv, TypeInv
  <2> QED BY <2>1, <2>2
<1>5. Recent(Entry(w))
  BY DEF StoreInv, Bounded
<1>6. TypeInv' /\ Locked' /\ EntryInv'
  <2>1. saved' \in [Devices -> [pairing : Nat, token : Nat]]
    BY <1>1, <1>3 DEF StoreInv, TypeInv, Creds
  <2>2. call' \in [Workers -> Call \cup {NoCall}]
    BY DEF Succeeds, StoreInv, TypeInv
  <2>3. TypeInv'
    BY <1>4, <2>1, <2>2 DEF StoreInv, TypeInv
  <2> QED BY <1>2, <2>3 DEF Locked, EntryInv
<1>7. Bounded'
  BY <1>1, <1>2, <1>3, <1>5 DEF StoreInv, TypeInv, Bounded, Recent, Store, Creds
<1>8. KeyringInv'
  BY DEF StoreInv, TypeInv, KeyringInv
<1>9. IdentityIsWhole'
  BY <1>1, AssignedIsWhole DEF StoreInv, TypeInv, IdentityIsWhole, Store
<1>10. SavedIsKept'
  <2> SUFFICES ASSUME NEW d \in Devices
               PROVE  /\ disk'.whole => Keeps(disk'.devices[d], saved'[d])
                      /\ process' = "running" /\ backend' = "file" => Keeps(memory'[d], saved'[d])
    BY DEF SavedIsKept, Keeps
  <2>1. Keeps(memory[d], saved[d]) \/ backend # "file"
    BY <1>1 DEF StoreInv, SavedIsKept
  <2>2. Keeps(disk.devices[d], saved[d]) \/ backend = "file"
    BY DEF StoreInv, SavedIsKept, KeyringInv, TypeInv
  <2>3. backend = "file" => disk'.devices[d] = memory[d]
    BY DEF Store
  <2>4. backend # "file" /\ d # call[w].device => disk'.devices[d] = disk.devices[d]
    BY DEF StoreInv, TypeInv
  <2>5. d = call[w].device => disk'.devices[d] = Entry(w)
    BY DEF StoreInv, TypeInv, Store, Entry
  <2>6. d = call[w].device => Keeps(Entry(w), saved'[d])
    BY <1>1, <1>3 DEF StoreInv, TypeInv, Keeps, Creds
  <2>7. d # call[w].device => saved'[d] = saved[d]
    BY <1>3 DEF StoreInv, TypeInv
  <2>8. backend = "file" /\ d = call[w].device => memory[d] = Entry(w)
    BY DEF Entry
  <2> QED BY <2>1, <2>2, <2>3, <2>4, <2>5, <2>6, <2>7, <2>8
<1> QED BY <1>6, <1>7, <1>8, <1>9, <1>10 DEF StoreInv

\* os.WriteFile empties the file; the entry in memory stays.
LEMMA OpenSound == ASSUME StoreInv, NEW w \in Workers, Open(w) PROVE StoreInv'
<1>1. call[w] # NoCall /\ call[w].at = "save" /\ backend = "file"
  BY DEF Open, Working
<1>2. CASE Fails(w) /\ UNCHANGED disk
  BY <1>1, <1>2, FailsSound DEF Open
<1>3. CASE disk' = Store(FALSE, Nothing) /\ call' = [call EXCEPT ![w].at = "write"] /\ UNCHANGED <<mu, saved>>
  <2>1. UNCHANGED <<backend, process, memory, mu, saves, saved>>
    BY <1>3 DEF Open
  <2>2. call[w] \in Call /\ \A v \in Workers : v # w => call[v] = NoCall
    BY <1>1, Saving
  <2>3. /\ call'[w] \in Call /\ call'[w].at = "write" /\ call'[w].device = call[w].device
        /\ call'[w].number = call[w].number
        /\ \A v \in Workers : v # w => call'[v] = NoCall
        /\ call' \in [Workers -> Call \cup {NoCall}]
    BY <1>3, <2>2 DEF StoreInv, TypeInv, Call
  <2>4. Entry(w)' = Entry(w)
    BY <1>1, <2>1, <2>3 DEF Entry
  <2>5. TypeInv'
    BY <1>3, <2>1, <2>3 DEF StoreInv, TypeInv, Store, Nothing, Empty, Creds
  <2>6. Locked' /\ KeyringInv' /\ EntryInv'
    BY <1>1, <2>1, <2>2, <2>3, <2>4 DEF StoreInv, Locked, KeyringInv, EntryInv
  <2>7. Bounded'
    BY <1>1, <1>3, <2>1, <2>3, <2>4 DEF StoreInv, TypeInv, Bounded, Recent, Store, Nothing, Empty
  <2>8. IdentityIsWhole' /\ SavedIsKept'
    BY <1>1, <1>3, <2>1, AssignedIsWhole
    DEF StoreInv, IdentityIsWhole, SavedIsKept, Store, Nothing, Empty, Whole
  <2> QED BY <2>5, <2>6, <2>7, <2>8 DEF StoreInv
<1> QED BY <1>2, <1>3 DEF Open

\* The end of a write, and the keyring's one step.
LEMMA WriteSound == ASSUME StoreInv, NEW w \in Workers, Write(w) PROVE StoreInv'
<1>1. call[w] # NoCall /\ call[w].at = "write" /\ backend = "file"
  BY DEF Write, Working, StoreInv, EntryInv
<1> QED BY <1>1, FailsSound, SucceedsSound DEF Write

LEMMA SetEntrySound == ASSUME StoreInv, NEW w \in Workers, SetEntry(w) PROVE StoreInv'
<1>1. call[w] # NoCall /\ call[w].at = "save" /\ backend # "file"
  BY DEF SetEntry, Working
<1> QED BY <1>1, FailsSound, SucceedsSound DEF SetEntry

\* A process that dies takes its memory along; one that starts reads the file again.
LEMMA ProcessSound == ASSUME StoreInv, Crash \/ Restart \/ Remove PROVE StoreInv'
<1> USE DEF StoreInv
<1>1. CASE Crash
  <2>1. \A w \in Workers : call'[w] = NoCall
    BY <1>1 DEF Crash
  <2>2. TypeInv' /\ Locked' /\ KeyringInv' /\ EntryInv'
    BY <1>1, <2>1 DEF Crash, TypeInv, Locked, KeyringInv, EntryInv, Nothing, Empty, Creds
  <2>3. Bounded' /\ IdentityIsWhole' /\ SavedIsKept'
    BY <1>1, <2>1
    DEF Crash, Bounded, Recent, IdentityIsWhole, SavedIsKept, TypeInv, Nothing, Empty, Whole, Keeps
  <2> QED BY <2>2, <2>3
<1>2. \A w \in Workers : process # "running" => call[w] = NoCall
  BY DEF Locked
<1>3. CASE Restart
  <2>1. process = "dead" /\ UNCHANGED <<backend, disk, mu, call, saves, saved>>
        /\ \A w \in Workers : call'[w] = NoCall
    BY <1>2, <1>3 DEF Restart
  <2>2. CASE ~disk.whole
    BY <1>3, <2>1, <2>2
    DEF Restart, TypeInv, Locked, Bounded, Recent, KeyringInv, EntryInv, IdentityIsWhole, SavedIsKept, Busy, Whole
  <2>3. CASE disk.whole
    <3>1. memory' = IF backend = "file" THEN disk.devices ELSE Nothing
      BY <1>3, <2>3 DEF Restart
    <3>2. TypeInv' /\ Locked' /\ KeyringInv' /\ EntryInv'
      BY <2>1, <3>1 DEF TypeInv, Locked, KeyringInv, EntryInv, Nothing, Empty, Creds
    <3>3. Bounded'
      BY <2>1, <3>1 DEF TypeInv, Bounded, Recent, Nothing, Empty
    <3>4. IdentityIsWhole' /\ SavedIsKept'
      BY <2>1, <2>3, <3>1 DEF IdentityIsWhole, SavedIsKept, Nothing, Empty, Whole
    <3> QED BY <3>2, <3>3, <3>4
  <2> QED BY <2>2, <2>3 DEF TypeInv
<1>4. CASE Remove
  <2>1. /\ process = "refused" /\ UNCHANGED <<backend, memory, mu, call, saves>>
        /\ disk' = Store(TRUE, Nothing) /\ saved' = [d \in Devices |-> [pairing |-> 0, token |-> 0]]
        /\ process' = "dead" /\ \A w \in Workers : call[w] = NoCall
    BY <1>2, <1>4 DEF Remove
  <2>2. TypeInv' /\ Locked' /\ KeyringInv' /\ EntryInv'
    BY <2>1 DEF TypeInv, Locked, KeyringInv, EntryInv, Store, Nothing, Empty, Creds
  <2>3. Bounded' /\ IdentityIsWhole' /\ SavedIsKept'
    BY <2>1
    DEF TypeInv, Bounded, Recent, IdentityIsWhole, SavedIsKept, Busy, Store, Nothing, Empty, Whole, Keeps, Creds
  <2> QED BY <2>2, <2>3
<1> QED BY <1>1, <1>3, <1>4

-----------------------------------------------------------------------------
\* The inductive invariant of the store (StoreInv).
THEOREM StoreAgrees == Spec => []StoreInv
<1>1. Init => StoreInv
  BY InitSound
<1>2. StoreInv /\ [Next]_vars => StoreInv'
  <2> SUFFICES ASSUME StoreInv, [Next]_vars PROVE StoreInv'
    OBVIOUS
  <2>1. CASE UNCHANGED vars
    BY <2>1
    DEF vars, StoreInv, TypeInv, Locked, Bounded, Recent, KeyringInv, EntryInv, IdentityIsWhole, SavedIsKept,
        Entry, Busy, Whole, Keeps
  <2>2. CASE Next
    BY <2>2, BeginSound, AssignSound, OpenSound, WriteSound, SetEntrySound, ProcessSound DEF Next
  <2> QED BY <2>1, <2>2
<1> QED BY <1>1, <1>2, PTL DEF Spec

\* A pairing identity and its keys are of one save, whoever saves at the same time and wherever
\* a write fails or the process dies (SavePairing, persist).
THEOREM IdentitiesStayWhole == Spec => []IdentityIsWhole
BY StoreAgrees, PTL DEF StoreInv

\* No save, failed or not, and no restart loses what an earlier one stored, as long as the file
\* can be read (Lookup before SavePairing and SaveRestoreToken).
THEOREM SavesAreKept == Spec => []SavedIsKept
BY StoreAgrees, PTL DEF StoreInv
=============================================================================
