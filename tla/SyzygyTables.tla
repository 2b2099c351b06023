----------------------------- MODULE SyzygyTables -----------------------------
(***************************************************************************)
(* SyzygyTablebaseImpl of syzygy/syzygy.cc: the hash table from material   *)
(* to table entries, and files that are mapped on the first probe, by      *)
(* search threads that probe at the same time (double-checked locking).    *)
(*                                                                         *)
(* A file that can be opened and starts with the magic number is "good".   *)
(* A file that was there when the tables were listed, but cannot be used   *)
(* when it is first probed, is "bad".                                      *)
(***************************************************************************)
EXTENDS Naturals, Sequences, FiniteSets, SequencesExt, FiniteSetsExt

CONSTANTS
  Threads,
  Materials,    \* the sequence of material for which there is a WDL file
  KeysOf,      \* of each its keys: one if it is symmetric, else two
  OtherKeys,   \* keys of material without files
  Slots, Home, \* size of the hash table, and the first slot of each key
  Dtz,         \* material with a DTZ file
  Bad,         \* files <<material, type>> that cannot be used
  NoEntry, NoKey

Types == {"wdl", "dtz"}
Files == Range(Materials) \X Types
ListedKeys == UNION {Range(KeysOf[m]) : m \in Range(Materials)}
AllKeys == OtherKeys \cup ListedKeys

(* Each material is listed once, different material has different keys,    *)
(* and the table does not get full.                                        *)
ASSUME TablesAssumption ==
  /\ Materials \in Seq(Range(Materials))
  /\ \A i, j \in DOMAIN Materials : Materials[i] = Materials[j] => i = j
  /\ \A m \in Range(Materials) :
       /\ KeysOf[m] \in Seq(ListedKeys)
       /\ \/ Len(KeysOf[m]) = 1
          \/ Len(KeysOf[m]) = 2 /\ KeysOf[m][1] # KeysOf[m][2]
  /\ \A l, m \in Range(Materials) : Range(KeysOf[l]) \cap Range(KeysOf[m]) # {} => l = m
  /\ Slots \in Nat /\ Cardinality(ListedKeys) < Slots
  /\ Home \in [AllKeys -> 0..Slots - 1]
  /\ Dtz \subseteq Range(Materials)
  /\ NoEntry \notin Threads \cup Range(Materials)
  /\ NoKey \notin AllKeys

VARIABLES
  hash,    \* tb_hash_
  ready,   \* ready[type] of every entry
  mapped,  \* how often a file is mapped
  lock,    \* who holds ready_mutex_, or NoEntry
  probe,   \* what each thread is doing
  open     \* the tablebase has not been destroyed

tablesVars == <<hash, ready, mapped, lock, probe, open>>

(* The slots in the order of linear probing. *)
Steps(key) == [n \in 0..Slots - 1 |-> (Home[key] + n) % Slots]
FirstSlot(key, slots) == Steps(key)[Min({n \in 0..Slots - 1 : Steps(key)[n] \in slots})]

add_to_hash(h, m, key) ==
  [h EXCEPT ![FirstSlot(key, {i \in DOMAIN h : h[i].ptr = NoEntry})] = [key |-> key, ptr |-> m]]
init_tb(h, m) ==
  LET g == add_to_hash(h, m, KeysOf[m][1])
  IN IF Len(KeysOf[m]) = 1 THEN g ELSE add_to_hash(g, m, KeysOf[m][2])

(* The table when n files have been found. *)
Listed[n \in 0..Len(Materials)] ==
  IF n = 0 THEN [i \in 0..Slots - 1 |-> [key |-> NoKey, ptr |-> NoEntry]]
  ELSE init_tb(Listed[n - 1], Materials[n])

Idle == [at |-> "idle"]
TablesInit ==
  /\ hash = Listed[Len(Materials)]
  /\ ready = [f \in Files |-> FALSE]
  /\ mapped = [f \in Files |-> 0]
  /\ lock = NoEntry /\ open = TRUE
  /\ probe = [th \in Threads |-> Idle]

-----------------------------------------------------------------------------
(* Mutant: an entry marked as deleted ends the search for a key. *)
EndsAtDeleted(slot, key) == slot.ptr = NoEntry \/ slot.key = key
EndsSearch(slot, key) == slot.key = NoKey \/ slot.key = key
SlotOf(key) == FirstSlot(key, {i \in DOMAIN hash : EndsSearch(hash[i], key)})

Goes(th, to) == probe' = [probe EXCEPT ![th] = [@ EXCEPT !.at = to]]
Returns(th) == probe' = [probe EXCEPT ![th] = Idle]
FileOf(th) == <<probe[th].entry, probe[th].type>>

(* probe_table: the slot is found and its pointer tested ... *)
Find(th) ==
  /\ open /\ probe[th] = Idle
  /\ \E key \in AllKeys, type \in Types :
       /\ hash[SlotOf(key)].ptr # NoEntry
       /\ probe' = [probe EXCEPT ![th] = [at |-> "found", key |-> key, type |-> type,
                                          slot |-> SlotOf(key), entry |-> NoEntry]]
  /\ UNCHANGED <<hash, ready, mapped, lock, open>>

(* ... and read again; no lock is held, it may be null by now. *)
Dereference(th) ==
  /\ probe[th].at = "found"
  /\ LET entry == hash[probe[th].slot].ptr
     IN probe' = [probe EXCEPT ![th] =
                    IF entry = NoEntry THEN [@ EXCEPT !.at = "crashed"]
                    ELSE IF probe[th].type = "dtz" /\ entry \notin Dtz THEN Idle
                    ELSE [@ EXCEPT !.at = "check", !.entry = entry]]
  /\ UNCHANGED <<hash, ready, mapped, lock, open>>

CheckReady(th) ==
  /\ probe[th].at = "check"
  /\ Goes(th, IF ready[FileOf(th)] THEN "use" ELSE "wait")
  /\ UNCHANGED <<hash, ready, mapped, lock, open>>

ReadyUnderLock(f) == ready[f]

Lock(th) ==
  /\ probe[th].at = "wait" /\ lock = NoEntry
  /\ IF ReadyUnderLock(FileOf(th)) THEN UNCHANGED lock /\ Goes(th, "use")
     ELSE lock' = th /\ Goes(th, "init")
  /\ UNCHANGED <<hash, ready, mapped, open>>

(* init_table succeeds, and the flag is set before the lock is released. *)
InitTable(th) ==
  /\ probe[th].at = "init" /\ FileOf(th) \notin Bad
  /\ mapped' = [mapped EXCEPT ![FileOf(th)] = @ + 1]
  /\ Goes(th, "publish")
  /\ UNCHANGED <<hash, ready, lock, open>>

Publish(th) ==
  /\ probe[th].at = "publish"
  /\ ready' = [ready EXCEPT ![FileOf(th)] = TRUE]
  /\ lock' = NoEntry
  /\ Goes(th, "use")
  /\ UNCHANGED <<hash, mapped, open>>

(* It fails: the slot is marked as deleted, its key stays. *)
InitFails(th) ==
  /\ probe[th].at = "init" /\ FileOf(th) \in Bad
  /\ hash' = [hash EXCEPT ![probe[th].slot].ptr = NoEntry]
  /\ lock' = NoEntry
  /\ Returns(th)
  /\ UNCHANGED <<ready, mapped, open>>

Use(th) ==
  /\ probe[th].at = "use"
  /\ Returns(th)
  /\ UNCHANGED <<hash, ready, mapped, lock, open>>

(* The destructor, when the searches are gone, frees what is ready. *)
Close ==
  /\ open /\ \A th \in Threads : probe[th] = Idle
  /\ open' = FALSE
  /\ mapped' = [f \in Files |-> IF ready[f] THEN mapped[f] - 1 ELSE mapped[f]]
  /\ ready' = [f \in Files |-> FALSE]
  /\ UNCHANGED <<hash, lock, probe>>

TablesNext ==
  \/ \E th \in Threads :
       Find(th) \/ Dereference(th) \/ CheckReady(th) \/ Lock(th) \/ InitTable(th)
       \/ Publish(th) \/ InitFails(th) \/ Use(th)
  \/ Close

-----------------------------------------------------------------------------
(* Whatever was deleted meanwhile, a key leads to the entry of its own     *)
(* material or to none, and it leads to its entry until its own file or    *)
(* another file of that entry has failed.                                  *)
KeysLeadToTheirTables ==
  \A key \in AllKeys :
    LET found == hash[SlotOf(key)].ptr
        own == {m \in Range(Materials) : key \in Range(KeysOf[m])}
    IN /\ found # NoEntry => found \in own
       /\ \A m \in own : (\A type \in Types : <<m, type>> \notin Bad) => found = m

(* A file is mapped at most once, read only when it is mapped and          *)
(* published, and none stays mapped when the tablebase is gone.  "Thread   *)
(* safe." (syzygy.h:75) holds as far as the files are good: a probe uses a *)
(* pointer that another one has cleared only where a file of that entry    *)
(* failed.                                                                 *)
TablesAreShared ==
  /\ KeysLeadToTheirTables
  /\ \A f \in Files : mapped[f] <= IF open THEN 1 ELSE 0
  /\ \A th \in Threads :
       /\ probe[th].at = "use" => ready[FileOf(th)] /\ mapped[FileOf(th)] = 1
       /\ probe[th].at = "crashed" => \E m \in Range(Materials) :
            probe[th].key \in Range(KeysOf[m]) /\ \E type \in Types : <<m, type>> \in Bad
=============================================================================
