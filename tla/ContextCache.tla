---------------------------- MODULE ContextCache ----------------------------
(***************************************************************************)
(* ContextCacheManager (src/service/Managers.cpp): the runtime contexts    *)
(* that are kept between requests, in least-recently-used order, under a   *)
(* limit on their number and on their tokens.                              *)
(*                                                                         *)
(* The code orders entries by a clock it increments on every access.  Only *)
(* the order matters, so cacheOrder lists the keys, least recently used    *)
(* first.  Every operator below is the effect of one method on the         *)
(* manager's members; Service.tla composes them with the caller's effects. *)
(***************************************************************************)
EXTENDS Integers, Sequences, FiniteSets, FiniteSetsExt

CONSTANTS
    MaxContexts,          \* ServiceOptions::maxCachedContexts
    MaxContextTokens      \* ServiceOptions::maxCachedContextTokens

\* checked() in Service.cpp
ASSUME CacheLimitsAssumption ==
    /\ MaxContexts \in Nat \ {0}
    /\ MaxContextTokens \in Nat \ {0, 1}

VARIABLES
    cache,        \* entries_: key -> [model, tokens, seen]
    cacheOrder,   \* the keys of entries_ by access, oldest first
    reserved      \* reserved_

cacheVars == <<cache, cacheOrder, reserved>>

\* What a context holds: the turns of a committed history, or something the
\* service does not vouch for (a new context, or a generation in progress).
Partial == -1

\* A partial function without the keys K, and with x set to v.
Without(f, K) == [x \in DOMAIN f \ K |-> f[x]]
With(f, x, v) == [y \in DOMAIN f \cup {x} |-> IF y = x THEN v ELSE f[y]]
Dropped(s, K) == SelectSeq(s, LAMBDA x : x \notin K)

CacheInit ==
    /\ cache = [k \in {} |-> 0]
    /\ cacheOrder = <<>>
    /\ reserved = 0

KeysOf(m) == {k \in DOMAIN cache : cache[k].model = m}
TokensOf(K) == SumFunctionOnSet([k \in DOMAIN cache |-> cache[k].tokens], K)

\* Entries go, with their reservation: the body of erase() and eraseModel().
EraseKeys(K) ==
    /\ cache' = Without(cache, K)
    /\ cacheOrder' = Dropped(cacheOrder, K)
    /\ reserved' = reserved - TokensOf(K)

\* erase(id): nothing happens if there is no such entry.
CacheErase(k) == EraseKeys({k} \cap DOMAIN cache)

\* eraseModel(modelId)
CacheEraseModel(m) == EraseKeys(KeysOf(m))

\* The condition under which acquire() erases its oldest entry once more.
CacheFull(needed) ==
    /\ DOMAIN cache # {}
    /\ \/ Cardinality(DOMAIN cache) >= MaxContexts
       \/ reserved > MaxContextTokens - needed

\* k is the entry that min_element() finds.
Oldest(k) ==
    \E i \in 1..Len(cacheOrder) :
        /\ cacheOrder[i] = k
        /\ \A j \in 1..i-1 : cacheOrder[j] \notin DOMAIN cache

\* acquire(), one turn of the loop.
CacheEvictOldest == \E k \in DOMAIN cache : Oldest(k) /\ EraseKeys({k})

\* acquire(), the entry exists.
CacheTouch(k) ==
    /\ cache' = [cache EXCEPT ![k].seen = Partial]
    /\ cacheOrder' = Append(Dropped(cacheOrder, {k}), k)
    /\ UNCHANGED reserved

\* acquire(), a context was created.
CacheInsert(k, m, needed) ==
    /\ cache' = With(cache, k, [model |-> m, tokens |-> needed, seen |-> Partial])
    /\ cacheOrder' = Append(cacheOrder, k)
    /\ reserved' = reserved + needed

\* The generation that used the context k came to a good end.
CacheSettle(k, seen) ==
    /\ cache' = [cache EXCEPT ![k].seen = seen]
    /\ UNCHANGED <<cacheOrder, reserved>>
=============================================================================
