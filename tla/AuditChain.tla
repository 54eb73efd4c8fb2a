----------------------------- MODULE AuditChain ------------------------------
(***************************************************************************)
(* The hash-chained audit log of one organization, and verify_chain, which *)
(* re-reads it while others append.                                        *)
(*                                                                         *)
(* An append happens inside its caller's transaction: it locks the row of  *)
(* the chain's head, and lock, entry and new head become visible together, *)
(* at the commit.  A writer with a pending entry therefore holds the lock. *)
(***************************************************************************)
EXTENDS Naturals, Sequences

CONSTANTS
    Writers,     \* transactions that append
    Contents     \* what is recorded

VARIABLES
    entries,     \* the committed rows, in the order they were committed
    head,        \* AuditChainHead: the last sequence number and hash
    pending,     \* writer -> the entry it inserted and has not committed, if any
    check        \* verify_chain in progress: what it has counted so far

auditVars == <<entries, head, pending, check>>

(* A hash is as good as what was hashed: no two differ in one only.          *)
Genesis == <<>>
compute_hash(prev, seq, content) == <<prev, seq, content>>

NoEntry == <<>>

NotChecking == [step |-> "idle", ok |-> TRUE, count |-> 0, last |-> Genesis]

AuditInit ==
    /\ entries = <<>>
    /\ head = [seq |-> 0, last |-> Genesis]
    /\ pending = [w \in Writers |-> NoEntry]
    /\ check = NotChecking

(* The lock of the head row is free. *)
HeadFree == \A w \in Writers : pending[w] = NoEntry

Linked(content) ==
    [seq |-> head.seq + 1, prev |-> head.last, content |-> content,
     hash |-> compute_hash(head.last, head.seq + 1, content)]

(* record(): waits for the head's lock and links the entry to what it reads. *)
AppendEntry(w, content) ==
    /\ HeadFree
    /\ pending' = [pending EXCEPT ![w] = <<Linked(content)>>]
    /\ UNCHANGED <<entries, head, check>>

(* Mutant of HeadAfter: the hash is forgotten. *)
HeadAfterCounting(entry) == [head EXCEPT !.seq = entry.seq]

HeadAfter(entry) == [seq |-> entry.seq, last |-> entry.hash]

(* The writer's transaction commits ...                                      *)
CommitEntry(w) ==
    /\ entries' = Append(entries, pending[w][1])
    /\ head' = HeadAfter(pending[w][1])
    /\ pending' = [pending EXCEPT ![w] = NoEntry]
    /\ UNCHANGED check

(* Mutant of DropEntry: the entry was committed on its own.                  *)
DropNothing(w) == CommitEntry(w)

(* ... or is rolled back. *)
DropEntry(w) ==
    /\ pending' = [pending EXCEPT ![w] = NoEntry]
    /\ UNCHANGED <<entries, head, check>>

-----------------------------------------------------------------------------
(* verify_chain: the entries are read in one statement ...                   *)
LinkedTo(prev, i) ==
    /\ entries[i].seq = i
    /\ entries[i].prev = prev
    /\ entries[i].hash = compute_hash(prev, i, entries[i].content)

LastHash == IF entries = <<>> THEN Genesis ELSE entries[Len(entries)].hash

CheckEntries ==
    /\ check.step # "entries"
    /\ check' = [step |-> "entries", count |-> Len(entries), last |-> LastHash,
                 ok |-> \A i \in DOMAIN entries :
                            LinkedTo(IF i = 1 THEN Genesis ELSE entries[i - 1].hash, i)]
    /\ UNCHANGED <<entries, head, pending>>

(* ... and compared with the head, read in another.                          *)
CheckHead ==
    /\ check.step = "entries"
    /\ check' = [check EXCEPT !.step = "verdict",
                              !.ok = @ /\ head = [seq |-> check.count, last |-> check.last]]
    /\ UNCHANGED <<entries, head, pending>>

Check == CheckEntries \/ CheckHead

-----------------------------------------------------------------------------
(* Sequence numbers are dense and in the order of the commits; a writer's    *)
(* entry continues the chain as it is while the writer holds the lock.       *)
Chained ==
    /\ \A i \in DOMAIN entries : entries[i].seq = i
    /\ head.seq = Len(entries)
    /\ \A w \in Writers : pending[w] # NoEntry => pending[w][1].seq = Len(entries) + 1

(* verify_chain: nobody tampers with the log here, so an alarm is false.     *)
(* There is none unless an append was committed between its two statements.  *)
AlarmOnlyInARace ==
    check.step = "verdict" /\ ~check.ok => Len(entries) > check.count
=============================================================================
