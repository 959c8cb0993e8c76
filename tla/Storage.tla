------------------------------ MODULE Storage ------------------------------
(***************************************************************************)
(* The storage of one librale process: the chained hash table of hash.c,   *)
(* its life cycle and its file in db.c, and the text that dstore.c appends *)
(* to the same file.                                                       *)
(*                                                                         *)
(* Every operation on the table runs under the table's mutex and every     *)
(* operation of db.c but get, insert and delete under db_mutex, so each is *)
(* one step, whichever thread calls it.  The exception is hash_load, which *)
(* calls hash_put with the mutex held: the calling thread waits for itself *)
(* and every later caller for it.  hung says that this has happened.       *)
(***************************************************************************)
EXTENDS Sequences, SequencesExt

CONSTANTS
    Key, Value,
    None,           \* no value: NOT_FOUND
    Bucket,         \* 0 .. HASH_SIZE - 1 in the code
    hash,           \* the bucket in which hash_put and hash_delete look for a key
    hash_func       \* the bucket in which hash_get looks for it

ASSUME KeyAssumption ==
    /\ None \notin Value
    /\ hash \in [Key -> Bucket]
    /\ hash_func \in [Key -> Bucket]

VARIABLES
    allocated,      \* global_cluster_db.hash_table # NULL
    entries,        \* hash_table->entries: a chain of entries for each bucket
    db_file,        \* global_cluster_db.db_file has been set
    disk,           \* what rale.db is to hash_load
    hung,           \* a thread waits for the mutex that it holds in hash_load
    answer          \* key and result of the db_get that has just returned, else << >>

vars == <<allocated, entries, db_file, disk, hung, answer>>

Entry == [key : Key, value : Value]

EmptyTable == [b \in Bucket |-> << >>]

(***************************************************************************)
(* The file, by what hash_load does with it: no file; one too short for    *)
(* the entry count; an image with count zero, whatever follows it; an      *)
(* image with entries, possibly cut off; the text of dstore_save_to_rale_  *)
(* db, whose first four characters hash_load takes for a count.            *)
(***************************************************************************)
Disk == {"none", "empty", "zero", "image", "text"}

\* The files whose entry count is not zero: the loop of hash_load is entered.
Counted == {"image", "text"}

Init ==
    /\ allocated = FALSE
    /\ entries = EmptyTable
    /\ db_file = FALSE
    /\ disk = "none"
    /\ hung = FALSE
    /\ answer = << >>

----------------------------------------------------------------------------
(* Chains *)

\* Some entry of the chain has the key.
Present(chain, k) == \E i \in DOMAIN chain : chain[i].key = k

\* The first entry with the key, seen from the head of the chain.
Position(chain, k) ==
    CHOOSE i \in DOMAIN chain : /\ chain[i].key = k
                                /\ \A j \in 1 .. i - 1 : chain[j].key # k

\* strcmp down the chain, the value of the first match.
Lookup(chain, k) ==
    IF Present(chain, k) THEN chain[Position(chain, k)].value ELSE None

\* A new entry goes to the head of the chain.
AddHead(chain, k, v) == <<[key |-> k, value |-> v]>> \o chain

\* Mutant: the chain is not searched first.
AlwaysAddHead(chain, k, v) == AddHead(chain, k, v)

\* Overwrite the value of an entry that is there, or add one.
PutIn(chain, k, v) ==
    IF Present(chain, k)
    THEN [chain EXCEPT ![Position(chain, k)] = [key |-> k, value |-> v]]
    ELSE AddHead(chain, k, v)

\* Mutant: the entries behind the one that is unlinked go with it.
DropFrom(chain, k) ==
    IF Present(chain, k) THEN SubSeq(chain, 1, Position(chain, k) - 1) ELSE chain

\* Unlink the first entry with the key.
DeleteFrom(chain, k) ==
    IF Present(chain, k) THEN RemoveAt(chain, Position(chain, k)) ELSE chain

----------------------------------------------------------------------------
(* The table and its callers *)

hash_put(k, v) == entries' = [entries EXCEPT ![hash[k]] = PutIn(@, k, v)]

hash_delete(k) == entries' = [entries EXCEPT ![hash[k]] = DeleteFrom(@, k)]

(***************************************************************************)
(* db_insert does not look at the result of hash_put: with no table, a key *)
(* or value that is too long, or no memory, nothing is stored, and the     *)
(* caller is told DB_SUCCESS all the same.                                 *)
(***************************************************************************)
db_insert(k, v) ==
    \/ allocated /\ hash_put(k, v)
    \/ UNCHANGED entries

\* Append a line of text to rale.db; a file that cannot be opened is passed over.
dstore_save_to_rale_db ==
    disk' \in {disk, IF disk \in {"none", "empty"} THEN "text" ELSE disk}

\* dstore_handle_put: store, then append to the file whatever became of the insert.
dstore_handle_put(k, v) ==
    /\ ~hung
    /\ db_insert(k, v)
    /\ dstore_save_to_rale_db
    /\ answer' = << >>
    /\ UNCHANGED <<allocated, db_file, hung>>

\* The result of hash_delete is ignored too.
db_delete(k) ==
    /\ ~hung
    /\ IF allocated THEN hash_delete(k) ELSE UNCHANGED entries
    /\ answer' = << >>
    /\ UNCHANGED <<allocated, db_file, disk, hung>>

db_get(k) ==
    /\ ~hung
    /\ answer' = <<k, IF allocated THEN Lookup(entries[hash_func[k]], k) ELSE None>>
    /\ UNCHANGED <<allocated, entries, db_file, disk, hung>>

----------------------------------------------------------------------------
(* The file and the life cycle *)

(***************************************************************************)
(* hash_load returns without an entry, or calls hash_put for the first one *)
(* with the mutex held.  (A text may also make it write beyond its buffers *)
(* and kill the process; ProcessEnds covers what is left then.)            *)
(***************************************************************************)
hash_load == hung' = (disk \in Counted)

\* db_init over a table that is there forgets the old one; without memory none is left.
db_init ==
    /\ ~hung
    /\ db_file' = TRUE
    /\ entries' = EmptyTable
    /\ \/ allocated' = TRUE /\ hash_load
       \/ allocated' = FALSE /\ UNCHANGED hung
    /\ answer' = << >>
    /\ UNCHANGED disk

\* The process is gone: its memory with it.
Gone ==
    /\ allocated' = FALSE
    /\ entries' = EmptyTable
    /\ db_file' = FALSE
    /\ hung' = FALSE

\* Without a path, or without a file, nothing is opened.  Without a table the mutex
\* is an invalid address.
db_load ==
    /\ ~hung
    /\ db_file
    /\ disk # "none"
    /\ \/ allocated /\ hash_load /\ UNCHANGED <<allocated, entries, db_file>>
       \/ ~allocated /\ Gone
    /\ answer' = << >>
    /\ UNCHANGED disk

\* What hash_save writes: the count, then the entries.
Image == IF entries = EmptyTable THEN "zero" ELSE "image"

\* The file is truncated before anything else; the count may then fail to be written.
hash_save ==
    /\ allocated
    /\ disk' \in {"empty", Image}
    /\ UNCHANGED <<allocated, entries, db_file, hung>>

\* The process dies with the file truncated or half written, always so when there is
\* no table whose mutex could be locked.
DieInSave ==
    /\ disk' \in {"empty"} \cup (IF allocated THEN {Image} ELSE {})
    /\ Gone

db_save ==
    /\ ~hung
    /\ db_file
    /\ hash_save \/ DieInSave
    /\ answer' = << >>

db_remove ==
    /\ ~hung
    /\ db_file
    /\ disk' = "none"
    /\ answer' = << >>
    /\ UNCHANGED <<allocated, entries, db_file, hung>>

\* db_finit: hash_destroy frees every entry, then the table is freed.
db_finit ==
    /\ ~hung
    /\ allocated' = FALSE
    /\ entries' = EmptyTable
    /\ answer' = << >>
    /\ UNCHANGED <<db_file, disk, hung>>

\* The process ends, by itself or killed, hung or not.
ProcessEnds ==
    /\ Gone
    /\ answer' = << >>
    /\ UNCHANGED disk

Next ==
    \/ \E k \in Key, v \in Value : dstore_handle_put(k, v)
    \/ \E k \in Key : db_delete(k)
    \/ \E k \in Key : db_get(k)
    \/ db_init
    \/ db_load
    \/ db_save
    \/ db_remove
    \/ db_finit
    \/ ProcessEnds

Spec == Init /\ [][Next]_vars

----------------------------------------------------------------------------
(* Properties *)

TypeOK ==
    /\ allocated \in BOOLEAN
    /\ entries \in [Bucket -> Seq(Entry)]
    /\ db_file \in BOOLEAN
    /\ disk \in Disk
    /\ hung \in BOOLEAN
    /\ answer \in {<< >>} \cup (Key \X (Value \cup {None}))

\* No two entries of a chain have the same key.
Unique(chain) == \A i, j \in DOMAIN chain : chain[i].key = chain[j].key => i = j

(***************************************************************************)
(* Every key has at most one entry, in the bucket that hash gives it       *)
(* (hash_put searches the chain before it adds to it): otherwise a delete, *)
(* which unlinks one entry, would bring an older value back.               *)
(***************************************************************************)
OncePerKey ==
    \A b \in Bucket :
        /\ Unique(entries[b])
        /\ \A i \in DOMAIN entries[b] : hash[entries[b][i].key] = b

\* What the table holds for each key, in the bucket where a put leaves it.
Contents == [k \in Key |-> Lookup(entries[hash[k]], k)]

(***************************************************************************)
(* A db_get answers with what the table holds, which is the last put of    *)
(* the key that was stored and not deleted since, for every key: the       *)
(* documentation says that all reads return the most recent write.         *)
(***************************************************************************)
ReadsSeeWrites == answer # << >> => answer[2] = Contents[answer[1]]

\* The keys that hash_get looks for where hash_put stores them.
Agreed == {k \in Key : hash[k] = hash_func[k]}

KV == INSTANCE KeyValue
        WITH Key <- Agreed,
             map <- [k \in Agreed |-> Contents[k]],
             answer <- IF answer # << >> /\ answer[1] \in Agreed THEN answer ELSE << >>

(***************************************************************************)
(* For the keys on which the two hash functions agree, beside keys on      *)
(* which they do not, the chains implement a map: collisions in a bucket,  *)
(* entries unlinked from the middle of a chain, overwritten values, loads, *)
(* saves and crashes never show through.                                   *)
(***************************************************************************)
ImplementsKeyValue == KV!Spec

\* Without a table there are no entries.
NoTableNoEntries == ~allocated => entries = EmptyTable

StorageInvariant == TypeOK /\ OncePerKey /\ NoTableNoEntries
=============================================================================
