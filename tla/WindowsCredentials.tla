-------------------------- MODULE WindowsCredentials --------------------------
(***************************************************************************)
(* The logons of the users jobs run as on Windows                          *)
(* (windows/win_credentials_resolver.py, windows/win_logon.py): what a     *)
(* request makes of the resolver's cache.  Only the scheduler's thread     *)
(* uses the resolver, so that a request is one step.  Ages are counted in  *)
(* steps of time and stop growing where they stop making a difference.     *)
(***************************************************************************)
EXTENDS Naturals

CONSTANTS
  RetryAfter,       \* RETRY_AFTER
  CacheExpiration   \* CACHE_EXPIRATION

ASSUME WindowsCredentialsAssumption ==
  /\ RetryAfter \in Nat \ {0} /\ CacheExpiration \in Nat
  /\ RetryAfter < CacheExpiration

\* A _WindowsCredentialsCacheEntry: whether it has a windows_session_user, and
\* the time since last_fetched_at and last_accessed.
Entries == [ok : BOOLEAN, fetched : 0 .. RetryAfter,
            accessed : 0 .. CacheExpiration]
NewEntry(ok) == [ok |-> ok, fetched |-> 0, accessed |-> 0]

\* What a fetch comes to: a user, an answer or a secret that is no use (also a
\* bad password, and a profile that cannot be loaded), a secret with no password
\* in it, or one that is JSON but no object.
Secrets == {"good", "refused", "no password", "no object"}

\* in a Windows service the logon outlives a change of the password
UserKey(zero, user, arn) == IF zero THEN <<user>> ELSE <<user, arn>>

Older(n, limit) == IF n < limit THEN n + 1 ELSE n
Aged(cache) ==
  [k \in DOMAIN cache |->
     [cache[k] EXCEPT !.fetched = Older(@, RetryAfter),
                      !.accessed = Older(@, CacheExpiration)]]

OnlyRecent(cache) ==
  [k \in {key \in DOMAIN cache : cache[key].accessed < CacheExpiration} |->
     cache[k]]
PruneAlways(zero, cache) == OnlyRecent(cache)
PruneCache(zero, cache) == IF zero THEN cache ELSE OnlyRecent(cache)

With(cache, k, entry) ==
  [key \in DOMAIN cache \union {k} |-> IF key = k THEN entry ELSE cache[key]]

\* what get_windows_session_user does after the prune
Cached(cache, k) == k \in DOMAIN cache /\ cache[k].ok
ShouldFetch(cache, k) ==
  k \in DOMAIN cache => ~ cache[k].ok /\ cache[k].fetched = RetryAfter

\* a failure is cached, whether there was a fetch or not
FailedUnnoticed(cache, k) == cache
Failed(cache, k) == With(cache, k, NewEntry(FALSE))

\* The cache after a request for k that got "secret" if it fetched one.  The
\* message about a secret without a password cannot be formatted ({"password":
\* ...} in an f-string), so that its ValueError comes before the entry, as does
\* the AttributeError of a secret that has no get().
AfterRequest(cache, k, secret) ==
  IF Cached(cache, k) THEN [cache EXCEPT ![k].accessed = 0]
  ELSE IF ~ ShouldFetch(cache, k) THEN Failed(cache, k)
  ELSE CASE secret = "good" -> With(cache, k, NewEntry(TRUE))
         [] secret = "refused" -> Failed(cache, k)
         [] OTHER -> cache

\* whether it returns a user; otherwise it raises ValueError, or AttributeError
Resolves(cache, k, secret) ==
  Cached(cache, k) \/ (ShouldFetch(cache, k) /\ secret = "good")
Breaks(cache, k, secret) ==
  ~ Cached(cache, k) /\ ShouldFetch(cache, k) /\ secret = "no object"

\* the logons a service holds open through the cache; clear() closes them
LogonsOf(zero, cache) == {k \in DOMAIN cache : zero /\ cache[k].ok}
===============================================================================
