-------------------------- MODULE SharedResources --------------------------
(***************************************************************************)
(* Critical sections over shared resources under the threaded executor:    *)
(* rx_context_critical_begin / _end and the table of locks they share      *)
(* (c/src/runtime.c).  Each node thread has a context of its own; the      *)
(* table belongs to the runtime.  The search of the table holds            *)
(* table_lock and is one step; the mutex it finds is taken in another.     *)
(***************************************************************************)
EXTENDS Naturals, FiniteSets, Sequences

CONSTANTS
  Nodes,        \* the node threads of one runtime
  Resources,    \* the resource_id values their callbacks use
  TableSize,    \* RXNET_MAX_SHARED_RESOURCES
  Nobody        \* a lock without owner, a context without section

ASSUME ResourcesAssumption ==
  TableSize \in Nat \ {0} /\ Nobody \notin Nodes /\ Nobody \notin Resources

VARIABLES
  table,     \* the resource_id of the entries in use, in entry order
  holder,    \* who has locked each entry
  section,   \* where each context is: critical_started_at, and the two calls
  resource,  \* critical_resource_id while a section is open, or being opened
  recorded,  \* the resource_accesses of each node's entry
  used       \* history: the resources whose sections each node has closed

resourceVars == <<table, holder, section, resource, recorded, used>>

Entries == 1 .. TableSize

ResourcesInit ==
  /\ table = <<>>
  /\ holder = [e \in Entries |-> Nobody]
  /\ section = [n \in Nodes |-> "none"]
  /\ resource = [n \in Nodes |-> Nobody]
  /\ recorded = [n \in Nodes |-> {}]
  /\ used = [n \in Nodes |-> {}]

InTable(r) == \E e \in DOMAIN table : table[e] = r

(* shared_resource_lock: the entry of r, or the first unused one.          *)
Lookup(r) ==
  /\ InTable(r) \/ Len(table) < TableSize
  /\ table' = IF InTable(r) THEN table ELSE Append(table, r)

(* critical_begin up to rx_mutex_lock.  With a section open, or r not in a *)
(* full table, it returns -1 and nothing changes.                          *)
Begin(n, r) ==
  /\ section[n] = "none"
  /\ Lookup(r)
  /\ section' = [section EXCEPT ![n] = "locking"]
  /\ resource' = [resource EXCEPT ![n] = r]
  /\ UNCHANGED <<holder, recorded, used>>

LockAnyway(n, e) ==                      \* mutant: critical_locking_enabled is 0
  /\ section[n] = "locking"
  /\ table[e] = resource[n]
  /\ holder' = [holder EXCEPT ![e] = n]
  /\ section' = [section EXCEPT ![n] = "inside"]
  /\ UNCHANGED <<table, resource, recorded, used>>

(* rx_mutex_lock returns and the section is open.                          *)
Lock(n, e) ==
  /\ section[n] = "locking"
  /\ table[e] = resource[n]
  /\ holder[e] = Nobody
  /\ holder' = [holder EXCEPT ![e] = n]
  /\ section' = [section EXCEPT ![n] = "inside"]
  /\ UNCHANGED <<table, resource, recorded, used>>

RecordFewer(n) ==                        \* mutant: the record is one shorter
  IF Cardinality(recorded[n]) + 1 < TableSize
    THEN recorded[n] \cup {resource[n]} ELSE recorded[n]

(* node_entry_record_resource_access, the longest duration abstracted.     *)
Record(n) ==
  IF Cardinality(recorded[n]) < TableSize
    THEN recorded[n] \cup {resource[n]} ELSE recorded[n]

(* critical_end: record the access, find the entry again and unlock it;    *)
(* then critical_started_at = 0.  Without a section open it returns -1.    *)
Unlock(n, e) ==
  /\ section[n] = "inside"
  /\ table[e] = resource[n]
  /\ recorded' = [recorded EXCEPT ![n] = Record(n)]
  /\ used' = [used EXCEPT ![n] = @ \cup {resource[n]}]
  /\ holder' = [holder EXCEPT ![e] = Nobody]
  /\ section' = [section EXCEPT ![n] = "leaving"]
  /\ UNCHANGED <<table, resource>>

Close(n) ==
  /\ section[n] = "leaving"
  /\ section' = [section EXCEPT ![n] = "none"]
  /\ resource' = [resource EXCEPT ![n] = Nobody]
  /\ UNCHANGED <<table, holder, recorded, used>>

ResourceStep(n) ==
  \/ \E r \in Resources : Begin(n, r)
  \/ \E e \in DOMAIN table : Lock(n, e) \/ Unlock(n, e)
  \/ Close(n)
-----------------------------------------------------------------------------
ResourcesTypeOK ==
  /\ table \in Seq(Resources) /\ Len(table) <= TableSize
  /\ holder \in [Entries -> Nodes \cup {Nobody}]
  /\ section \in [Nodes -> {"none", "locking", "inside", "leaving"}]
  /\ resource \in [Nodes -> Resources \cup {Nobody}]
  /\ recorded \in [Nodes -> SUBSET Resources]
  /\ used \in [Nodes -> SUBSET Resources]

(* Every resource in use has one entry, for good, and the lock of the      *)
(* entry is held exactly by the node whose section on it is open.          *)
LocksMatchSections ==
  /\ \A d, e \in DOMAIN table : table[d] = table[e] => d = e
  /\ \A n \in Nodes : resource[n] # Nobody => InTable(resource[n])
  /\ \A n \in Nodes : section[n] = "none" <=> resource[n] = Nobody
  /\ \A e \in Entries, n \in Nodes :
       holder[e] = n <=>
         e \in DOMAIN table /\ section[n] = "inside" /\ resource[n] = table[e]

(* user-c.md, 6.3: a critical section excludes those of the other nodes of *)
(* the runtime on the same resource (runtime.c:178-211).                   *)
MutualExclusion ==
  \A n, m \in Nodes :
    section[n] = "inside" /\ section[m] = "inside" /\ resource[n] = resource[m] => n = m

(* A node that waits for a lock holds none, so no cycle of nodes can wait  *)
(* for one another: what the refusal of nested sections buys (line 182).   *)
NoHoldAndWait ==
  \A n \in Nodes : section[n] = "locking" => \A e \in Entries : holder[e] # n

(* The record of a node, which the blocking term of the response-time      *)
(* analysis reads, never runs out of room: every resource it has locked is *)
(* there (runtime.c:83, with the same bound as the table).                 *)
EverySectionIsMeasured == \A n \in Nodes : recorded[n] = used[n]
=============================================================================
