----------------------------- MODULE CacheShard -----------------------------
(***************************************************************************)
(* One shard of the response cache (internal/cache/sharded.go).            *)
(*                                                                         *)
(* A shard is [entries, items, memory]: the map from a hash to an entry,   *)
(* the indexed min-heap of removal times that orders evictions, and the    *)
(* bytes accounted for.  All operators describe what is done under the     *)
(* shard's lock.  opts is the cache.Config:                                *)
(*   serveStale, maxStale, minTTL, maxTTL, minNegative, maxNegative,       *)
(*   bogusTTL, prefetch (hundredths of the TTL, 0: off), enforced,         *)
(*   maxSize, maxMemory (0: none)                                          *)
(* and an entry [data, expiresAt, origTTL, negative, secure, bogus, size,  *)
(* refreshing].  Times are whole seconds.                                  *)
(***************************************************************************)
EXTENDS Integers, Sequences, FiniteSets, SequencesExt, Functions

\* A negative bound means none, as zero does; a shard has room for an entry.
IsOptions(opts) ==
    /\ opts.maxStale \in Nat /\ opts.bogusTTL \in Nat
    /\ opts.minTTL \in Nat /\ opts.maxTTL \in Nat
    /\ opts.minNegative \in Nat /\ opts.maxNegative \in Nat
    /\ opts.maxSize \in Nat \ {0} /\ opts.maxMemory \in Nat

EmptyShard == [entries |-> [h \in {} |-> <<>>], items |-> <<>>, memory |-> 0]

-----------------------------------------------------------------------------
(* expiryQueue: items[1] is the root, items[i \div 2] the parent of        *)
(* items[i].                                                               *)

less(items, i, j) ==
    \/ items[i].removeAfter < items[j].removeAfter
    \/ items[i].removeAfter = items[j].removeAfter /\ items[i].hash < items[j].hash

swap(items, i, j) == [items EXCEPT ![i] = items[j], ![j] = items[i]]

\* One swap with the parent, or with the smaller child, while it is due.
\* A heap of n items is passed through in fewer than n of them.
Rise(s) ==
    LET parent == s.at \div 2
    IN IF s.at = 1 \/ ~less(s.items, s.at, parent) THEN s
       ELSE [items |-> swap(s.items, s.at, parent), at |-> parent]

Sink(s) ==
    LET left == 2 * s.at
        right == left + 1
        smallest == IF right <= Len(s.items) /\ less(s.items, right, left) THEN right ELSE left
    IN IF left > Len(s.items) \/ ~less(s.items, smallest, s.at) THEN s
       ELSE [items |-> swap(s.items, s.at, smallest), at |-> smallest]

up(items, index) ==
    LET after[k \in 0 .. Len(items)] ==
            IF k = 0 THEN [items |-> items, at |-> index] ELSE Rise(after[k - 1])
    IN after[Len(items)].items

down(items, index) ==
    LET after[k \in 0 .. Len(items)] ==
            IF k = 0 THEN [items |-> items, at |-> index] ELSE Sink(after[k - 1])
    IN after[Len(items)].items

IndexOf(items, hash) == CHOOSE i \in DOMAIN items : items[i].hash = hash
Queued(items, hash) == \E i \in DOMAIN items : items[i].hash = hash

queueSet(items, hash, removeAfter) ==
    LET item == [hash |-> hash, removeAfter |-> removeAfter]
        i == IndexOf(items, hash)
        replaced == [items EXCEPT ![i] = item]
    IN IF ~Queued(items, hash) THEN up(Append(items, item), Len(items) + 1)
       ELSE IF removeAfter < items[i].removeAfter THEN up(replaced, i)
       ELSE down(replaced, i)

\* Mutant: the item moved into the gap is only pushed down.
queueRemoveDown(items, hash) ==
    LET i == IndexOf(items, hash)
        moved == Front([items EXCEPT ![i] = Last(items)])
    IN IF ~Queued(items, hash) THEN items
       ELSE IF i = Len(items) THEN Front(items) ELSE down(moved, i)

\* The last item fills the gap and then moves whichever way it must.
queueRemove(items, hash) ==
    LET i == IndexOf(items, hash)
        moved == Front([items EXCEPT ![i] = Last(items)])
    IN IF ~Queued(items, hash) THEN items
       ELSE IF i = Len(items) THEN Front(items)
       ELSE IF i > 1 /\ less(moved, i, i \div 2) THEN up(moved, i)
       ELSE down(moved, i)

-----------------------------------------------------------------------------
(* Entries.                                                                *)

IsExpired(entry, now) == now > entry.expiresAt
IsStale(entry, maxStale, now) == IsExpired(entry, now) /\ now - entry.expiresAt < maxStale

\* What get returns for the entry found under a hash.
Usable(opts, entry, now) ==
    IsExpired(entry, now) => opts.serveStale /\ IsStale(entry, opts.maxStale, now)

\* A hit in the last part of the original TTL starts one refresh.
WantsPrefetch(opts, entry, now) ==
    /\ opts.prefetch > 0 /\ entry.origTTL > 0
    /\ ~IsExpired(entry, now) /\ ~entry.refreshing
    /\ 100 * (entry.expiresAt - now) < opts.prefetch * entry.origTTL

\* Lowered to a positive maximum, or raised to a positive minimum.
Clamp(remaining, least, most) ==
    IF most > 0 /\ remaining > most THEN most
    ELSE IF least > 0 /\ remaining < least THEN least
    ELSE remaining

\* Mutant: negative answers are held to the bounds of positive ones.
applyTTLPolicyPositive(opts, entry, now) ==
    [entry EXCEPT !.expiresAt = now + Clamp(@ - now, opts.minTTL, opts.maxTTL)]

applyTTLPolicy(opts, entry, now) ==
    LET remaining == entry.expiresAt - now
    IN [entry EXCEPT !.expiresAt =
            now + (IF entry.bogus /\ opts.bogusTTL > 0 THEN opts.bogusTTL
                   ELSE IF entry.negative
                        THEN Clamp(remaining, opts.minNegative, opts.maxNegative)
                   ELSE Clamp(remaining, opts.minTTL, opts.maxTTL))]

removeAfter(opts, entry) ==
    IF opts.serveStale THEN entry.expiresAt + opts.maxStale ELSE entry.expiresAt

-----------------------------------------------------------------------------
(* Operations on the shard.                                                *)

\* Map, heap and memory change together.
Drop(shard, hash) ==
    [entries |-> Restrict(shard.entries, DOMAIN shard.entries \ {hash}),
     items |-> queueRemove(shard.items, hash),
     memory |-> shard.memory - shard.entries[hash].size]

Delete(shard, hash) == IF hash \in DOMAIN shard.entries THEN Drop(shard, hash) ELSE shard

evictNext(shard) == Drop(shard, shard.items[1].hash)

\* Mutant: one eviction makes room for any entry.
MakeRoomOnce(opts, shard, size) ==
    IF Cardinality(DOMAIN shard.entries) >= opts.maxSize
    THEN evictNext(shard) ELSE shard

\* Whether something must go before an entry of this size may come.
Full(opts, shard, size) ==
    /\ shard.items # <<>>
    /\ \/ Cardinality(DOMAIN shard.entries) >= opts.maxSize
       \/ opts.maxMemory > 0 /\ shard.memory + size > opts.maxMemory

MakeRoom(opts, shard, size) ==
    LET most == Cardinality(DOMAIN shard.entries)
        Turn(s) == IF Full(opts, s, size) THEN evictNext(s) ELSE s
        after[k \in 0 .. most] == IF k = 0 THEN shard ELSE Turn(after[k - 1])
    IN after[most]

\* Whether the entry is stored at all.
Admitted(opts, entry) ==
    /\ opts.enforced => entry.secure
    /\ opts.maxMemory > 0 => entry.size <= opts.maxMemory

\* The value replaced goes before room is made for the new one.
ShardSet(opts, shard, hash, given, now) ==
    LET entry == applyTTLPolicy(opts, given, now)
        room == MakeRoom(opts, Delete(shard, hash), entry.size)
    IN IF ~Admitted(opts, given) THEN shard
       ELSE [entries |-> [h \in DOMAIN room.entries \cup {hash} |->
                             IF h = hash THEN entry ELSE room.entries[h]],
             items |-> queueSet(room.items, hash, removeAfter(opts, entry)),
             memory |-> room.memory + entry.size]

\* Whether the entry that goes first has outlived its use.
Due(shard, now) == shard.items # <<>> /\ shard.items[1].removeAfter <= now

ShardCleanup(shard, now) ==
    LET most == Cardinality(DOMAIN shard.entries)
        Turn(s) == IF Due(s, now) THEN evictNext(s) ELSE s
        after[k \in 0 .. most] == IF k = 0 THEN shard ELSE Turn(after[k - 1])
    IN after[most]

-----------------------------------------------------------------------------
(* The bounds and the index hold together: one heap item per entry, no     *)
(* item before its parent, memory the bytes of the entries, and both limits*)
(* kept.  Evictions then always find the entry that goes first.            *)
Bytes(entries) == UNION {{h} \X (1 .. entries[h].size) : h \in DOMAIN entries}
ShardConsistent(opts, shard) ==
    LET hashes == DOMAIN shard.entries
    IN /\ {shard.items[i].hash : i \in DOMAIN shard.items} = hashes
       /\ Len(shard.items) = Cardinality(hashes)
       /\ \A i \in DOMAIN shard.items :
             /\ i > 1 => ~less(shard.items, i, i \div 2)
             /\ shard.items[i].removeAfter
                    = removeAfter(opts, shard.entries[shard.items[i].hash])
       /\ shard.memory = Cardinality(Bytes(shard.entries))
       /\ Cardinality(hashes) <= opts.maxSize
       /\ opts.maxMemory > 0 => shard.memory <= opts.maxMemory
=============================================================================
